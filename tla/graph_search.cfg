SPECIFICATION FairSpec
CONSTANTS
  Node <- MCNode
  Searches <- MCSearches
  MaxWork = 5
INVARIANTS
  SearchExact
  StoreDefsComplete
  PathsSound
PROPERTY Terminates
CHECK_DEADLOCK FALSE
