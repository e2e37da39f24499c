CONSTANTS
  MaxBits = 4
  Shl <- MCShl
  Payload = {3}
  Db <- MCDb
  Rows = 2
  MaxCols = 6
  Degree = 4
  PAR_MIN_WORK = 16
  MaxCpus = 4
  Sel <- MCSel
  Cell <- MCCell
  Word = 16
  Pow2 <- MCPow2
  Moduli <- MCModuli
  Products <- MCProducts
  Signed <- MCSigned
SPECIFICATION KernelsSpec
INVARIANTS
  NodesPlaced
  OneHot
  CellSelected
  RangesTile
  ResultsSerial
  WorkersBounded
  Canonical
  Exact
  RekeyKeepsSmall
PROPERTY Ends
CHECK_DEADLOCK FALSE
