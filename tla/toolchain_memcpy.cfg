SPECIFICATION Spec
CONSTANTS
  Null <- MCNull
  Programs <- MCPrograms
  svf <- MCSvf
INVARIANT LibUseReportsTarget
CHECK_DEADLOCK FALSE
