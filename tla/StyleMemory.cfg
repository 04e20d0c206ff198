SPECIFICATION Spec
CONSTANTS
  MaxExamples = 3
  MaxJobs = 2
  MaxText = 2
  MinBaseline = 1
  None = None
INVARIANTS RulesHaveGrounds StaleHasCause
PROPERTY ChangeIsFlagged
CHECK_DEADLOCK FALSE
