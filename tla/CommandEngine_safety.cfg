SPECIFICATION Spec
CONSTANTS
  Processes = {p1, p2}
  Commands = {c1, c2}
  Key <- OwnKeys
  Ops <- EditsAndChecks
  Operations = {}
  None = None
  MaxCrashes = 1
  MaxErrors = 1
  MaxEdits = 0
SYMMETRY Symmetric
INVARIANTS
  AuthorityComplete
  AtMostOnce
  ReceiptsAreTrue
PROPERTIES
  NoLostUpdate
  ImplementsLog
