SPECIFICATION Spec
CONSTANTS
  CacheSize = 5
  FlushIndex = 2
  Cleared = 2
  TraceSize = 5
  CopySize = 3
  CacheEnabled = TRUE
  TeeFaults = FALSE
  Calls <- MCUseCalls
  MaxCalls = 7
INVARIANT EveryUseCollected
CHECK_DEADLOCK FALSE
