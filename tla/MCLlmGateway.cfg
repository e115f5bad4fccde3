CONSTANTS
  p1 = p1
  p2 = p2
  r1 = r1
  r2 = r2
  r3 = r3
  NoProvider = NoProvider
  Providers <- MCProviders
  Requests <- MCRequests
  FailureThreshold = 2
  SuccessThreshold = 2
  ResetTimeout = 1
  MaxAttempts = 2
  MaxTime = 1
SPECIFICATION LiveSpec
INVARIANTS
  TypeOK
  BreakerCounts
PROPERTIES
  BreakerTransitions
  CoolDownRespected
  GivesUpOnlyIfNoneLeft
  RequestsEnd
CHECK_DEADLOCK FALSE
