CONSTANTS
  Cores = {k1}
  Files = {f, g, big}
  Large = {big}
  Variants = 2
  MaxSessions = 3
SPECIFICATION Spec
INVARIANTS
  StoredNotRetested
  OneProgramPerFolder
PROPERTIES
  FilesTakeTurns
