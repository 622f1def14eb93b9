SPECIFICATION FairSpec
CONSTANTS
  Processes = {p1, p2}
  Commands = {c1, c2}
  Key <- OwnKeys
  Ops <- Sources
  Operations = {}
  None = None
  MaxCrashes = 0
  MaxErrors = 0
  MaxEdits = 1
INVARIANT WorkingFileInSync
PROPERTY LockedCommandSettles
