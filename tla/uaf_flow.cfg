SPECIFICATION Spec
CONSTANTS
  Node <- MCNode
  Val <- MCVal
  Obj <- MCObj
  Fun <- MCFun
  NoNode <- MCNone
  Programs <- MCPrograms
INVARIANTS
  CarvedReach
  LastAllocsFollowAlloc
  PairsCoupled
  MainIsWritten
CHECK_DEADLOCK FALSE
