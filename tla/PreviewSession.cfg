SPECIFICATION FairSpec
CONSTANTS
  Roots = {a}
  Holders = {}
  None = None
  Loaders = {l}
  Controls <- ControlSet
  Duration <- LongThenShort
  MaxTransitions = 2
  MaxLoads = 1
  MaxControls = 3
  MaxFailures = 1
  MaxTick = 1
CHECK_DEADLOCK FALSE
INVARIANTS
  SettledSessionIsCurrent
  PlaybackIsSound
PROPERTIES
  ControlsActOnWhatWasSeen
  PreviewSettles
