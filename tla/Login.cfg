CONSTANTS
  h1 = h1
  h2 = h2
  Handlers = {h1, h2}
  MaxFailed = 3
  MaxCount = 4
  CodesEach = 2
  MaxChanges = 2
  MaxEnrolled = 2
SPECIFICATION Spec
SYMMETRY Interchangeable
INVARIANTS
  AttemptsAreBounded
  EnabledSecretIsProved
  CodesWorkOnce
  LastPasswordHolds
