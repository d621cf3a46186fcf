SPECIFICATION Spec
CONSTANTS
  CacheSize = 3
  FlushIndex = 0
  Cleared = 1
  TraceSize = 3
  CopySize = 2
  CacheEnabled = FALSE
  TeeFaults = TRUE
  Calls <- MCCommandCalls
  MaxCalls = 6
INVARIANT RingHoldsLog
CHECK_DEADLOCK FALSE
