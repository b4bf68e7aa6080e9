CONSTANTS
  h1 = h1
  h2 = h2
  h3 = h3
  alice = alice
  bob = bob
  None = None
  Threads <- Pool2
  Users = {alice}
  MaxTokens = 3
  MaxChanges = 1
  MaxFaults = 1
  WriteLock = TRUE
SPECIFICATION Spec
SYMMETRY Interchangeable
INVARIANTS
  SuccessionOK
  HandoverRevokes
  DisabledStaysOut
CHECK_DEADLOCK FALSE
