SPECIFICATION DialogSpec
CONSTANTS
  Options = 2
  Timeout = 2
  Pages = 5
INVARIANTS DialogTypeOK OutcomeNamesCause AnswerMatchesAsk
PROPERTIES DeadlinePasses
CHECK_DEADLOCK FALSE
