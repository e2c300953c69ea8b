SPECIFICATION FairSpec
CONSTANTS
  Logs = {l1, l2, l3}
  BATCH_SIZE = 2
  MAX_RETRY_ATTEMPTS = 3
  MaxFaults = 2
INVARIANTS
  TypeOK
  NoCopyFromRetries
  LossHasACause
PROPERTIES
  QueueDrains
  ImplementsDelivery
CHECK_DEADLOCK FALSE
