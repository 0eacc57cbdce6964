SPECIFICATION Spec
CONSTANTS
  Cells = {a, b, c}
  Concurrency = 2
  MaxHttpAttempts = 2
  Options <- MCOptions
  MaxCancels = 2
PROPERTIES EndAccounts BudgetKept ExperimentEnds
CHECK_DEADLOCK FALSE
