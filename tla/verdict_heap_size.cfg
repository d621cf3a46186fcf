SPECIFICATION Spec
CONSTANTS
  Functions <- MCFunctions
  Main = "main"
  Local <- MCLocal
  Global = 0
  Heap = 4
  LocalUse <- MCLocalUse
  ArgUse <- MCArgUse
  GlobalUse <- MCGlobalUse
  HeapUse <- MCHeapUse
  Size <- MCSize
  Offset <- MCOffset
  Addresses <- MCAddresses
  GlobalBase = 10
  DepthSpace = 3
  MaxDepth = 2
  MaxEvents = 4
  Metadata <- MCOneHeapRows
  IdSpace = 32
  Info <- MCInfo
  GlobalTags <- MCGlobalTags
  InstrTags <- MCInstrTags
  MaxTraces = 1
INVARIANT HeapWritesInBoundsPass
CHECK_DEADLOCK FALSE
