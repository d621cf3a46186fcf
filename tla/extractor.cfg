SPECIFICATION FairSpec
CONSTANTS
  TraceSize = 4
  CopySize = 2
  CacheSize = 3
  FlushIndex = 0
  Cleared = 1
  CacheEnabled = TRUE
  TeeFaults = TRUE
  Calls <- MCTwoCalls
  MaxCalls = 3
  FileFaults = TRUE
  NetFaults = TRUE
  MaxRounds = 2
INVARIANTS
  TypeOK
  FinalTraceComplete
  CutTraceIsLast
  SnapshotsGrow
PROPERTIES
  ImplementsEvidence
  ChildEnds
  ShortRunVerified
CHECK_DEADLOCK FALSE
