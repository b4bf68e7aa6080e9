CONSTANTS
  e1 = e1
  e2 = e2
  e3 = e3
  e4 = e4
  e5 = e5
  None = None
  Entries <- MCEntries
  Kind <- MixedKinds
  Follow <- Lockout
  PoolSize = 3
  WriteLock = TRUE
  MaxFaults = 1
SPECIFICATION Spec
INVARIANT ChangesAreRecorded
