SPECIFICATION FairSpec
CONSTANTS
  DISCOVERY_TIMEOUT = 3
  Scenarios <- MCScenarios
INVARIANTS
  TypeOK
  RunningTogetherIsEnough
  CallsReachTheirSystem
PROPERTIES
  EveryRunEnds
CHECK_DEADLOCK FALSE
