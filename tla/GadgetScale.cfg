CONSTANTS
  Word = 256
  Half = 4
  Moduli = {2, 3, 4, 5, 6, 7}
  Factors = {1, 5, 13}
  Scales = {1, 8, 81, 255}
  Divisors = {1, 7, 128, 129, 200, 255}
SPECIFICATION ScaleSpec
INVARIANTS
  InverseOrSentinel
  ResiduesExact
  RoundedExactly
  ScaledNearest
PROPERTIES
  CallsReturn
CHECK_DEADLOCK FALSE
