CONSTANTS
  MaxReconnectAttempts = 2
  CacheSize = 2
  MaxManual = 0
  MaxProcs = 3
  MaxFrames = 3
SPECIFICATION Spec
INVARIANT KillAfterTerm
CHECK_DEADLOCK FALSE
