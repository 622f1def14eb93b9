SPECIFICATION Spec
CONSTANTS
  Processes = {p1}
  Commands = {c1, c2, c3, c4}
  Key <- OwnKeys
  Ops <- History
  Operations = {o1}
  None = None
  MaxCrashes = 0
  MaxErrors = 0
  MaxEdits = 0
SYMMETRY Symmetric
INVARIANT HistoryRestores
