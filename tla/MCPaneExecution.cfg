SPECIFICATION PaneSpec
CONSTANTS
  MaxGenerations = 2
  Steers = {}
  Observers = {o1}
  PaneBacked = TRUE
  Viewers = {v1}
INVARIANTS PanesOwned ResultIsOwn
CHECK_DEADLOCK FALSE
