SPECIFICATION DelegationSpec
CONSTANTS
  p = p
  a = a
  b = b
  c = c
  root = root
  Tasks <- MCTasks
  Parent <- MCParent
  Root <- root
  Limits = {1}
  ParallelCalls = TRUE
INVARIANTS YieldsToAwaited
CHECK_DEADLOCK FALSE
