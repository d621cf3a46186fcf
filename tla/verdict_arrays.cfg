SPECIFICATION Spec
CONSTANTS
  Functions <- MCFunctions
  Main = "main"
  Local <- MCLocal
  Global = 3
  Heap = 0
  LocalUse <- MCLocalUse
  ArgUse <- MCArgUse
  GlobalUse <- MCGlobalUse
  HeapUse <- MCHeapUse
  Size <- MCSize
  Offset <- MCOffset
  Addresses <- MCAddresses
  GlobalBase = 10
  DepthSpace = 3
  MaxDepth = 3
  MaxEvents = 5
  Metadata <- MCArrays
  IdSpace = 32
  Info <- MCInfo
  GlobalTags <- MCGlobalTags
  InstrTags <- MCInstrTags
  MaxTraces = 2
INVARIANT VerdictIsTruth
CHECK_DEADLOCK FALSE
ACTION_CONSTRAINT MCVerifierFirst
