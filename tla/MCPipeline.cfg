CONSTANTS
  Blocks <- MCBlocks
  Cst <- MCCst
  Home <- MCHome
  AtLoad <- MCAtLoad
  Kind <- MCKind
  Fate <- MCFate
  ExitBlocks = {5, 7}
  AssertBody = {7}
  LoopHeaders = {2}
  Bottom = {3, 6}
  Infeasible <- MCInfeasible
  Successors <- MCSuccessors
  UserAssumes = {2}
  UserAsserts = {2, 4}
  NumOfFiles = 2
  Rand = {0}
  Options <- MCOptions
SPECIFICATION Spec
INVARIANTS
  TypeOK
  OperandsAlive
  OwnAssumptionsOnly
  SameProgram
  OraclesAssumedInInitial
  FeasibleEdgesSurvive
  LiveBlocksKeepASuccessor
PROPERTIES
  ImplementsSuite
  SuiteComplete
