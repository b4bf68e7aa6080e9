CONSTANTS
  h1 = h1
  h2 = h2
  h3 = h3
  alice = alice
  bob = bob
  None = None
  Threads <- Pool1
  Users = {alice, bob}
  MaxTokens = 3
  MaxChanges = 1
  MaxFaults = 1
  WriteLock = FALSE
SPECIFICATION Spec
INVARIANTS
  SingleUse
  BurnedFamilyIsDead
  LivesUnderCurrentPassword
PROPERTY
  ImplementsFamilies
CHECK_DEADLOCK FALSE
