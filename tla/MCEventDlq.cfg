CONSTANTS
  d1 = d1
  d2 = d2
  e1 = e1
  NoEvent = NoEvent
  Deliveries <- MCDeliveries
  Events <- MCEvents
  NumHandlers = 1
  MaxAttempts = 3
  MaxCrashes = 0
  MaxFaults = 2
SPECIFICATION Spec
PROPERTIES
  FailedIsDeadLettered
CHECK_DEADLOCK FALSE
