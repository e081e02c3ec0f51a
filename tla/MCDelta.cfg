CONSTANTS
  Programs = {"four", "three"}
  Code = "code"
  Lines <- MCLines
  Oracles <- MCOracles
  Order <- MCOrder
SPECIFICATION Spec
INVARIANTS
  MinimizedStillFails
  OneMinimal
  NothingForeign
PROPERTIES
  AllMinimized
