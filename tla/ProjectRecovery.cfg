SPECIFICATION Spec
CONSTANTS
  Tasks = {u1, u2}
  Sessions = {s1}
  None = None
  Ended = Ended
  Retention = 1
  MaxRevisions = 4
  MaxRequests = 6
  MaxCrashes = 1
  MaxOutside = 1
CHECK_DEADLOCK FALSE
SYMMETRY Symmetric
INVARIANTS
  AuthorityStands
  RecoveryKeepsItsBooks
