CONSTANTS
  Degrees = {2, 4}
  NttModuli = {17, 41}
  Pairings <- MCPairings
  Data <- MCData
  OtherData <- MCOtherData
  Scalars = {300}
  Shifts = {3, 7}
  MaxCalls = 3
SPECIFICATION Spec
PROPERTY
  RefinesQuotientRing
CHECK_DEADLOCK FALSE
