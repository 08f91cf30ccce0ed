SPECIFICATION Spec
CONSTANTS
  MaxGenerations = 2
  Steers = {s1, s2}
  Observers = {o1}
  PaneBacked = FALSE
INVARIANTS ExecutionsDisjoint ReceiptsClosed AbortDropsSteers
PROPERTIES ImplementsHistory CancelEnds
CHECK_DEADLOCK FALSE
