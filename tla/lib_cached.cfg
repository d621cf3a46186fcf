SPECIFICATION Spec
CONSTANTS
  CacheSize = 6
  FlushIndex = 3
  Cleared = 3
  TraceSize = 6
  CopySize = 3
  CacheEnabled = TRUE
  TeeFaults = TRUE
  Calls <- MCAllCalls
  MaxCalls = 9
INVARIANTS
  TypeOK
  FlushStaysInBuffer
  FlushReachesLastEntry
  OnlyReportedFacts
  LatestAddressFirst
  RingHoldsLog
PROPERTIES
  AppendOnlyUntilWrap
  ShortGenerationExact
CHECK_DEADLOCK FALSE
