SPECIFICATION Spec
CONSTANTS
  p1 = p1
  p2 = p2
  t1 = t1
  t2 = t2
  t3 = t3
  Processes = {p1, p2}
  Threads = {t1, t2, t3}
  Home <- MCHome
  Skew <- MCSkew
  MaxTime = 1
  MaxRecords = 4
  MaxStored = 2
SYMMETRY MCSymmetry
INVARIANTS
  TypeOK
  SyncedRecordsInOrder
  TimeoutsAreNotRepeated
  OverviewNeverFlatters
CHECK_DEADLOCK FALSE
