CONSTANTS
  a = a
  b = b
  c = c
  i1 = i1
  i2 = i2
  m1 = m1
  m2 = m2
  m3 = m3
  NoMemory = NoMemory
  Callers <- MCCallers
  Happenings <- MCHappenings
  StartRows <- MCStartRows
  Moments <- MCMoments
  MaxWire = 3
  Instances <- MCInstances
  Gets <- MCGets
  L1MaxTtl = 2
  Ttls <- MCTtls
  Turns <- MCTurns
  Memories <- MCMemories
  Relations <- MCRelations
  MaxCalls = 4
  Requests <- MCRequests
  Limiters <- MCLimiters
  MaxRequests <- MCMaxRequests
  QueuedEvents <- MCQueuedEvents
  Subscribers <- MCSubscribers
  JobAttempts = 2
  MaxLives = 3
  Hours = 6
  Schedules <- MCSchedules
  Activities <- MCActivities
  p1 = p1
  d1 = d1
  d2 = d2
  Worker = Worker
  NoEvent = NoEvent
  Rows <- MCRows
  Loops <- MCLoops
  BatchSize = 1
  MaxPollFaults = 1
  Deliveries <- MCDeliveries
  NumHandlers = 2
  MaxAttempts = 1
  MaxCrashes = 1
  MaxHandlerFaults = 0
SPECIFICATION MCBothSpec
INVARIANTS
  PublishedIsHandled
  ReplayedOnlyIfUnrecorded
  EnginesTypesOK
  ScoresAreTheLedger
  MirrorSettles
  ServedIsRecent
  SavedOnlyOnAYes
  MemoriesConsistent
  CompletedWasHandled
  CounterExpires
  HopsGetThere
PROPERTIES
  CommittedIsDelivered
  ClosedIsImmutable
CHECK_DEADLOCK FALSE
