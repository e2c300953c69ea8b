SPECIFICATION Spec
CONSTANTS
  pay = pay
  bpay = bpay
  bps = bps
  h1 = h1
  Ports = {pay, bpay}
  Extra = {}
  FailoverMap <- MCFailoverMap
  Hosts = {h1}
  Dns = Dns
  NoHost = NoHost
  EnvHost <- NoPins
  NoUrl = NoUrl
  FailCap = 4
  MaxEvents = 2
INVARIANTS
  TypeOK
  BackupAfterThreeMisses
  EntryAgreesWithRoute
  TimelineExplainsRoute
  TimelineNeverRepeats
PROPERTY ImplementsRouting
