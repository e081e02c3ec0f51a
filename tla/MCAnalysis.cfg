\* The analyses of Clam, their query cache and the analysis of paths.
SPECIFICATION Spec
CONSTANTS
  Vars <- MCVars
  Bools <- MCBools
  Lo <- MCLo
  Hi = 4
  Code <- MCCode
  Edges <- MCEdges
  FunSeq <- MCFunSeq
  Tracked <- MCTracked
  Blocks <- MCBlocks
  EdgeBlocks <- MCEdgeBlocks
  MaxLive <- MCMaxLive
  relational_threshold = 2
  Mod = 4
  TagOf <- MCTagOf
  Assumptions <- MCAssumptions
  Kinds = {"function", "module", "program"}
  Paths <- MCPaths
  Asked <- MCAsked
  MaxCached = 2
  MaxRounds = 12
  MaxChecks = 5
INVARIANTS
  AnswersSound
  EdgesSound
  VerdictSound
  PathExplained
\* The program ends when it meets an error.
CHECK_DEADLOCK FALSE
