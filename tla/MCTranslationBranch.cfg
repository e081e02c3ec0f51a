SPECIFICATION Spec
CONSTANTS
  Bits = 2
  Ints <- MCInts
  Addrs <- MCAddrs
  Cases <- MCCases
  ProgramOf <- MCProgramOf
  MaxBlocks = 6
INVARIANTS BranchConditionTranslated
CHECK_DEADLOCK FALSE
