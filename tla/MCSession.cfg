SPECIFICATION Spec
CONSTANTS
  MaxEntries <- MCMaxEntries
  Nothing = Nothing
  Tasks = {t1, t2}
  PhaseOf <- MCPhaseOf
  MinTurns = 2
  MaxTurns = 3
  MaxPerRun = 1
  Personas = {planner}
  Calls = {c1, c2}
  Answers = {yes, no}
INVARIANTS TypeOK BranchIsTruth
PROPERTIES RemindersSpaced PromptedAsActive
CHECK_DEADLOCK FALSE
