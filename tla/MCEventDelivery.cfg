CONSTANTS
  d1 = d1
  d2 = d2
  e1 = e1
  NoEvent = NoEvent
  Deliveries <- MCDeliveries
  Events <- MCEvents
  NumHandlers = 2
  MaxAttempts = 3
  MaxCrashes = 1
  MaxFaults = 2
SPECIFICATION LiveSpec
INVARIANTS
  TypeOK
  EffectsBounded
  RowsAccountedFor
PROPERTIES
  DeliveriesEnd
CHECK_DEADLOCK FALSE
