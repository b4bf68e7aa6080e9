CONSTANTS
  h1 = h1
  h2 = h2
  v1 = v1
  v2 = v2
  r1 = r1
  r2 = r2
  Anomaly = Anomaly
  Nobody = Nobody
  Handlers = {h1, h2}
  Values = {v1, v2}
  Known = {v1}
  Rules = {r1, r2}
  Seeded = {r1}
  Payloads = {{v1}, {v1, v2}}
  Verdicts = {"open", "resolved"}
  MaxRequests = 3
  MaxTime = 1
SPECIFICATION Spec
SYMMETRY Interchangeable
\* The bound on requests ends it.
CHECK_DEADLOCK FALSE
INVARIANTS
  EveryRaiseIsCounted
  HitsMissOnlyOverlaps
PROPERTIES
  DeletedRulesAreSilent
  ImplementsDesk
