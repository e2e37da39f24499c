CONSTANTS
  MaxBits = 4
  Shl <- MCShl
  P = 97
  N1 = 8
  N2 = 4
  N3 = 1
  L_QUERY = 2
  L_RSK = 3
  Garbage = Garbage
  r1 = r1
  r2 = r2
  Request = {r1, r2}
  Dims = {0, 1, 2, 3}
  Spare <- MCSpare
  Payload <- MCPayload
  Index <- MCIndex
  Batches <- MCBatches
  BatchSizes = {1, 2, 4}
  Calls <- MCCalls
SPECIFICATION Spec
INVARIANTS
  TypeOK
  RecordsStored
PROPERTIES
  FailsOnlyOnMismatch
  RefinesPir
CHECK_DEADLOCK FALSE
