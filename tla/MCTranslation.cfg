SPECIFICATION Spec
CONSTANTS
  Bits = 2
  Ints <- MCInts
  Addrs <- MCAddrs
  Cases <- MCCases
  ProgramOf <- MCProgramOf
  MaxBlocks = 6
INVARIANTS NoExecutionLost NoFailureMissed NoFalseAlarm
CHECK_DEADLOCK FALSE
