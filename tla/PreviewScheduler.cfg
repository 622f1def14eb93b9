SPECIFICATION SchedulerSpec
CONSTANTS
  back = back
  front = front
  Layers = {back, front}
  TimelineFrames = 2
  Active <- OneThenTwo
  Calls = {u1, u2}
  MaxPreloads = 2
CHECK_DEADLOCK FALSE
SYMMETRY Symmetric
INVARIANTS
  LastCommandHolds
  LayersKeepTheirBooks
