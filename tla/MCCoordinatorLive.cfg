SPECIFICATION FairSpec
CONSTANTS
  pay = pay
  bpay = bpay
  bps = bps
  h1 = h1
  Ports = {pay, bpay}
  Extra = {bps}
  FailoverMap <- MCFailoverMap
  Hosts = {h1}
  Dns = Dns
  NoHost = NoHost
  EnvHost <- NoPins
  NoUrl = NoUrl
  FailCap = 3
  MaxEvents = 1
PROPERTIES
  FailoverHappens
  FailbackHappens
  TopologyRepublished
