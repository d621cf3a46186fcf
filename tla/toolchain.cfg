SPECIFICATION FairSpec
CONSTANTS
  Null <- MCNull
  Programs <- MCPrograms
  svf <- MCSvf
INVARIANTS
  TypeOK
  SameProgram
  RowsWellFormed
  DefinitionsReported
  FieldsInside
  ReportsKnown
  TargetsCover
  RefsAreDefs
  IndirectRefs
  ReportedOnce
PROPERTY Finishes
CHECK_DEADLOCK FALSE
