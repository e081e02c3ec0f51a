CONSTANTS
  Cores = {k1, k2}
  Files = {f, g, big}
  Large = {big}
  Variants = 1
  MaxSessions = 2
SPECIFICATION Spec
SYMMETRY CoreSymmetry
INVARIANTS
  ForgottenOnlyIfShared
  FewUnfinished
