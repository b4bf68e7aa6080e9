CONSTANTS
  t1 = t1
  t2 = t2
  t3 = t3
  Threads = {t1, t2}
  Identities = {"client"}
  Capacity = 4
  Cost = 2
  MaxClock = 6
  Ingests = {t1, t2}
  MinRows = 2
  ForestRows = 4
  RefitEvery = 2
  MaxEvents = 7
  Lookups = {t1, t2, t3}
  Nobody = Nobody
SPECIFICATION SharedSpec
INVARIANTS
  AllowanceBound
  NeverRefusedEarly
  QuietScoringSucceeds
  WholeBetweenFits
  EmptyOnlyWithoutFile
PROPERTY
  LookupsEnd
CHECK_DEADLOCK FALSE
