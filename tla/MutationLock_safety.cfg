SPECIFICATION FairSpec
CONSTANTS
  Processes = {p1, p2}
  Repairers = {operator}
  Tokens = {t1, t2, t3, t4}
  None = None
  MaxCrashes = 1
INVARIANTS
  MutualExclusion
PROPERTIES
  LiveLockNotDisplaced
  ImplementsLease
  CallsReturn
