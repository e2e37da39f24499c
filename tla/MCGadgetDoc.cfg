CONSTANTS
  Q = 41
  ErrMax = 1
  Base <- MCBase
  Depth <- MCDepth
  Power <- MCPower
  Keys <- MCKeys
  Messages <- MCMessages
  Cts <- MCCts
  Errors <- MCErrors
SPECIFICATION Spec
INVARIANT
  ReconstructionWithinHalfSmallestEntry
CHECK_DEADLOCK FALSE
