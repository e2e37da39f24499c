CONSTANTS
  ByteBits = 2
  Width = 4
  BLOCK_LEN = 3
  MaxBlocks = 5
  Block <- MCBlock
  Lengths = {0, 1, 2, 3, 4, 7}
  Bounds = {1, 2, 3, 4, 5, 7, 8, 15}
  Calls <- MCCalls
  I32Bits = 2
  GaussBound = 8
  Gaussian <- MCGaussian
  WordLen = 2
  SeedLen = 1
  Packets <- MCPackets
SPECIFICATION WireSpec
INVARIANTS
  OutContinues
  Unbiased
  SamplesFollowStream
  DecodesOnlyEncodings
PROPERTY RefinesByteStream
CHECK_DEADLOCK FALSE
