CONSTANTS
  Maxima <- MCMaxima
  IntMax = 7
  LongMax = 31
  Draws <- MCDraws
  Constants <- MCConstants
SPECIFICATION Spec
INVARIANTS
  Sound
  ConstantFits
PROPERTIES
  ShiftEnds
