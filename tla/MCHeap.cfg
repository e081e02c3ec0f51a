SPECIFICATION Spec
CONSTANTS
  Heaps <- MCHeaps
  Main = "main"
INVARIANTS IdsUnique RegionsStable TypedDisjoint OrderKept ModifiedPassedBack NoAbort
CHECK_DEADLOCK FALSE
