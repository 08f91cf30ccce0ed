SPECIFICATION Spec
CONSTANTS
  Subagents = {s1}
  MaxGeneration = 2
  Calls = {c1}
  Modes = {"auto", "steer"}
  MaxFailures = 1
  MaxSessions = 2
INVARIANTS TypeOK AnnouncedOnce
PROPERTIES SeenStaysQuiet EventuallyAnnounced
CHECK_DEADLOCK FALSE
