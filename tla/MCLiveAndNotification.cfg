CONSTANTS
  c1 = c1
  c2 = c2
  c3 = c3
  s1 = s1
  s2 = s2
  k1 = k1
  k2 = k2
  u1 = u1
  u2 = u2
  r1 = r1
  i1 = i1
  t1 = t1
  t2 = t2
  v1 = v1
  v2 = v2
  v3 = v3
  p1 = p1
  p2 = p2
  NoSession = NoSession
  Nobody = Nobody
  NoKey = NoKey
  Calls <- MCCalls
  SessionIds <- MCSessions
  Accounts <- MCUser
  Sockets <- MCSockets
  People <- MCUsers
  Sessions <- MCSessions
  Chats <- MCChats
  Interactions <- MCInteractions
  MaxMessages = 2
  Streams <- MCStreams
  Voices <- MCVoices
  Talks <- MCSessions
  Speakers <- MCUser
  MaxStreams = 1
  MaxTokens = 3
  MaxBytes = 2
  MaxVoices = 2
  Timeout = 1
  TokenBound = 3
  WallBound = 2
  Notifications <- MCNotifications
  Users <- MCUser
  Keys <- MCKeys
  Passes <- MCPasses
  Limit = 1
  Window = 1
  NumChannels = 2
  MaxAttempts = 2
  Delays <- MCDelays
  Ttls <- MCTtls
  MaxTime = 1
SPECIFICATION MCSpec
INVARIANTS
  TypesOK
  RegistriesAgree
  LogoutReachesAll
  RefreshedWasLive
  TransfersBounded
  TypeOK
  ThrottleBounded
  OncePerPass
  OneScheduledPerKey
PROPERTIES
  EndedStaysEnded
  BusyVoicesKept
  CancelledStays
  PassSettles
CHECK_DEADLOCK FALSE
