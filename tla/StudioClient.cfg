SPECIFICATION FairClientSpec
CONSTANTS
  Capacity = 2
  Backlog = 0
  MaxEdits = 1
  MaxNews = 2
  MaxFaults = 1
CHECK_DEADLOCK FALSE
INVARIANT ShownIsSound
PROPERTIES
  RevisionShownMovesForward
  ImplementsFeed
  ClientSettles
