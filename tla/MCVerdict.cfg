CONSTANTS
  Ids = {1, 2}
  MaxFiles = 2
  Functions = {f, g, h}
  MaxLines = 5
SPECIFICATION VerdictSpec
INVARIANTS
  CodeTellsOutcomes
  NoRegressionPasses
  ClosedFunctionsCounted
