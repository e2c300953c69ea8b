SPECIFICATION FairSpec
CONSTANTS
  b1 = b1
  b2 = b2
  r1 = r1
  r2 = r2
  Browsers = {b1, b2}
  Requests = {r1, r2}
  Owner <- MCOwner
  SESSION_TTL = 2
  MaxLogins = 2
INVARIANTS
  TypeOK
  LiveSessionIsKept
PROPERTIES
  IdleSessionEnds
  LeftoverIsCleared
CHECK_DEADLOCK FALSE
