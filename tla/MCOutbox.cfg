CONSTANTS
  w1 = w1
  l1 = l1
  l2 = l2
  Rows <- MCRows
  Workers <- MCWorkers
  Loops <- MCLoops
  Owner <- MCOwner
  BatchSize = 1
  MaxFaults = 1
SPECIFICATION LiveSpec
INVARIANTS
  TypeOK
  DuplicatesBounded
PROPERTIES
  KeepsPromise
  PendingDrained
CHECK_DEADLOCK FALSE
