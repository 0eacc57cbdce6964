SPECIFICATION Spec
CONSTANTS
  MaxRetries = 1
  PlanSizes = {2, 3}
  Options <- OptionsDef
  Codes = {"claim"}
  TaskIds = {"t1", "t2"}
  Threshold = 60
  MaxSupplements = 1
  MaxRevisions = 1
INVARIANTS SupportKept CoreIssueBlocks PublishedAsReviewed
PROPERTIES FallbackIsSafe ReviewEnds
