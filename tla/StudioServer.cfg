SPECIFICATION FairSpec
CONSTANTS
  Roots = {a, b}
  Jobs = {render, asset}
  Holders = {render}
  Unleased = {asset}
  Commands = {c}
  None = None
  MaxActivations = 2
CHECK_DEADLOCK FALSE
INVARIANTS
  LeasePinsProject
  NothingOutlivesItsProject
PROPERTIES
  TerminalIsFinal
  WorkEnds
