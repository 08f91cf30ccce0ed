SPECIFICATION Spec
CONSTANTS
  Ids = {a, b, c}
  Root = Root
  Calls = {i, j}
  Limits = {3}
  MaxGenerations = 2
  MaxResumed = 1
  MaxBatch = 2
  RemovesJoined = TRUE
SYMMETRY Symmetry
INVARIANT JoinTargetsRetained
CHECK_DEADLOCK FALSE
