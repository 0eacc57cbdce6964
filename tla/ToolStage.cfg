SPECIFICATION Spec
CONSTANTS
  Branches = {"b1", "b2"}
  Tools = {"fetch", "itinerary"}
  Targets = {"x"}
  Policy <- PolicyDef
  Options <- OptionsDef
  Confidences = {50, 90}
INVARIANTS BudgetHeld AnsweredBeforeAsk CircuitHolds CompleteIsEarned
PROPERTIES NotTriedAgain BranchesEnd
