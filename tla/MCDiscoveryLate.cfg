SPECIFICATION FairSpec
CONSTANTS
  DISCOVERY_TIMEOUT = 3
  Scenarios <- MCThree
PROPERTIES
  TogetherAllAreFound
CHECK_DEADLOCK FALSE
