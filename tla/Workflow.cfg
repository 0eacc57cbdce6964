SPECIFICATION Spec
CONSTANTS
  MaxInitialTasks = 2
  MaxSupplementTasks = 1
  MaxPlanTasks = 3
  MaxSupplements = 1
  MaxReplans = 1
  MaxRevisions = 1
  MaxAttempts = 2
  QuorumPercent = 50
  MaxCrashes = 1
  Options <- MCOptions
INVARIANTS VerdictIsEarned ContractsHold
PROPERTIES EachNodeCounts RunPromised
CHECK_DEADLOCK FALSE
