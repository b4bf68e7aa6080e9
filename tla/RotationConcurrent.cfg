CONSTANTS
  h1 = h1
  h2 = h2
  h3 = h3
  None = None
  Threads <- Pool2
  NTables = 3
  MaxRows = 4
  MaxKeys = 3
  MaxFaults = 1
  WriteLock = FALSE
SPECIFICATION Spec
SYMMETRY Interchangeable
INVARIANTS
  RotationIsComplete
  KeyIsReturned
PROPERTY
  StaleFieldBlocks
CHECK_DEADLOCK FALSE
