CONSTANTS
  root = root
  ann = ann
  h1 = h1
  h2 = h2
  p1 = p1
  p2 = p2
  Nobody = Nobody
  Addresses = {root, ann}
  Bootstrap = root
  NewRoles = {"viewer", "admin", "owner"}
  Handlers = {h1, h2}
  Processes = {p1, p2}
  MaxCrashes = 1
SPECIFICATION Spec
INVARIANTS
  AdminRemains
  LateChangesAreFew
  PasswordIsPrintedOnce
PROPERTY
  ProcessesServe
\* No account is active: nobody can sign in, and the installation stands still.
CHECK_DEADLOCK FALSE
