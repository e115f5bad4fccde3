CONSTANTS
  a = a
  b = b
  c = c
  i1 = i1
  i2 = i2
  m1 = m1
  m2 = m2
  m3 = m3
  NoMemory = NoMemory
  Callers <- MCCallers
  Happenings <- MCHappenings
  StartRows <- MCStartRows
  Moments <- MCMoments
  MaxWire = 3
  Instances <- MCInstances
  Gets <- MCGets
  L1MaxTtl = 2
  Ttls <- MCTtls
  Turns <- MCTurns
  Memories <- MCMemories
  Relations <- MCRelations
  MaxCalls = 4
  Requests <- MCRequests
  Limiters <- MCLimiters
  MaxRequests <- MCMaxRequests
  QueuedEvents <- MCQueuedEvents
  Subscribers <- MCSubscribers
  JobAttempts = 2
  MaxLives = 3
  Hours = 6
  Schedules <- MCSchedules
  Activities <- MCActivities
SPECIFICATION MCSpec
INVARIANT
  SavedWasAffirmed
CHECK_DEADLOCK FALSE
