CONSTANTS
  Q = 41
  ErrMax = 1
  Base <- MCBase
  Depth <- MCDepth
  Power <- MCPower
  Keys <- MCKeys
  Messages <- MCMessages
  Cts <- MCCts
  Errors <- MCErrors
SPECIFICATION Spec
INVARIANTS
  CarryAtMostOne
  Accurate
CHECK_DEADLOCK FALSE
