SPECIFICATION Spec
CONSTANTS
  Logs = {l1, l2}
  BATCH_SIZE = 2
  MAX_RETRY_ATTEMPTS = 3
  MaxFaults = 2
INVARIANT FailedAreDeadLettered
CHECK_DEADLOCK FALSE
