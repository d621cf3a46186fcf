SPECIFICATION Spec
CONSTANTS
  Functions <- MCFunctions
  Main = "main"
  Local <- MCLocal
  Global = 3
  Heap = 8
  LocalUse <- MCUse
  ArgUse <- MCUse
  GlobalUse <- MCUse
  HeapUse <- MCUse
  Size <- MCSize
  Offset <- MCOffset
  Addresses <- MCAddresses
  GlobalBase = 10
  DepthSpace = 3
  MaxDepth = 3
  MaxEvents = 5
INVARIANTS
  TypeOK
  OwnActivation
  ArgumentsResolve
CHECK_DEADLOCK FALSE
