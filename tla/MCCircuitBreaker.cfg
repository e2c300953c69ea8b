SPECIFICATION FairSpec
CONSTANTS
  Requests = {r1, r2, r3}
  CB_THRESHOLD = 5
  CB_TIMEOUT = 3
  CallTimeout = 5
  FailsCap = 6
INVARIANTS
  TypeOK
  OpensWhenEarned
  RejectionIsRecent
  OpenAdmitsNobody
PROPERTY
  Recovers
