SPECIFICATION FairSpec
CONSTANTS
  Workers = {w1, w2, w3}
  Chains = {s1, s2}
  Requests = {r1}
  Pings = {h1}
  MaxRestarts = 2
  None = None
INVARIANTS
  StopHolds
  NoStrayWorker
PROPERTIES
  PingsJudgeOwnWorker
  SupervisorSettles
