SPECIFICATION Spec
CONSTANTS
  Calls = {i1}
  Overlays = {o1, o2}
  Startup = startup
  Names = {explore}
  Extensions = {".md", ".txt"}
  ExtensionOf <- MCExtensionOf
  Limits = {1, 2}
  Modes <- MCModes
  Defaults <- MCDefaults
  Written <- MCWritten
  Given <- MCGiven
  Torn = torn
  Nothing = nothing
  MaxChanges = 2
  MaxEdits = 1
SYMMETRY MCSymmetry
INVARIANTS TypeOK LastChangeSaved PreparedIsCurrent OfferedIsKnown
CHECK_DEADLOCK FALSE
