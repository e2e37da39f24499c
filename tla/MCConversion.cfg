CONSTANTS
  MaxBits = 3
  Shl <- MCShl
  P = 5
  N = 4
  Secrets <- MCSecrets
  Uniform <- MCUniform
  Messages <- MCMessages
  Batches <- MCBatches
SPECIFICATION Spec
INVARIANTS
  KeysAlign
  PhaseCarried
  Packed
  RgswHalvesAgree
CHECK_DEADLOCK FALSE
