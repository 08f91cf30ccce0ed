SPECIFICATION Spec
CONSTANTS
  top = top
  inner = inner
  side = side
  root = root
  Ids <- MCIds
  Root <- root
  Parent <- MCParent
  Limits = {2, 3}
  MaxGenerations = 2
  Resumed = {top}
  MaxStarts = 2
INVARIANTS TypeOK RecoveredForest
PROPERTIES JoinedStays RecoveryFills
CHECK_DEADLOCK FALSE
