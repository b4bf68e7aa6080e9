CONSTANTS
  h1 = h1
  h2 = h2
  h3 = h3
  None = None
  Threads <- Pool1
  NTables = 3
  MaxRows = 5
  MaxKeys = 3
  MaxFaults = 0
  WriteLock = TRUE
SPECIFICATION Spec
INVARIANT
  NothingLeftBehind
CHECK_DEADLOCK FALSE
