CONSTANTS
  p1 = p1
  d1 = d1
  d2 = d2
  Worker = Worker
  NoEvent = NoEvent
  Rows <- MCRows
  Loops <- MCLoops
  BatchSize = 1
  MaxPollFaults = 1
  Deliveries <- MCDeliveries
  NumHandlers = 2
  MaxAttempts = 1
  MaxCrashes = 1
  MaxHandlerFaults = 0
SPECIFICATION Spec
INVARIANTS
  HandledInOneProcess
CHECK_DEADLOCK FALSE
