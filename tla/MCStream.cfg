CONSTANTS
  MaxReconnectAttempts = 2
  CacheSize = 2
  MaxManual = 1
  MaxProcs = 4
  MaxFrames = 3
SPECIFICATION FairSpec
INVARIANTS
  TypeOK
  OneProcess
  FailureIsRetried
  ActiveHasProcess
  AttemptsBounded
  CacheIsLatest
PROPERTIES
  ReleasedStaysDown
  FailuresRecover
CHECK_DEADLOCK FALSE
