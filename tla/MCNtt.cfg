CONSTANTS
  Moduli = {17, 33}
  N = 8
  LogN = 3
  MaxBaseTries = 1024
  Operands <- MCOperands
SPECIFICATION NttFairSpec
INVARIANTS
  OddPowersAreRoots
  LanesHoldResidues
  ProductExact
PROPERTY
  Ends
CHECK_DEADLOCK FALSE
