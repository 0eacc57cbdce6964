SPECIFICATION Spec
CONSTANT Scenarios <- AllScenarios
INVARIANTS ApprovalFirst NoDeadEnd
PROPERTIES StatusFollowsTable StartupReconciles CallPromised RunComesToRest
CHECK_DEADLOCK FALSE
