SPECIFICATION Spec
CONSTANTS
  n1 = n1
  i1 = i1
  i2 = i2
  Services = {n1}
  Inst = {i1, i2}
  ServiceOf <- MCServiceOf
  None = None
  TTL = 18
  HB = 6
  Slack = 1
  MaxOutage = 3
  MinUptime = 8
INVARIANTS
  TypeOK
  LiveStaysListed
  DeadServiceExpires
