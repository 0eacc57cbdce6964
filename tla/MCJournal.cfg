SPECIFICATION Spec
CONSTANTS
  NoRequest = NoRequest
  r1 = r1
  r2 = r2
  n1 = n1
  n2 = n2
  node1 = node1
  decide1 = decide1
  tool1 = tool1
  http1 = http1
  node2 = node2
  llm2 = llm2
  tool2 = tool2
  x1 = x1
  Requests = {r1, r2}
  Nodes = {n1, n2}
  Slots <- WaveSlots
  KindOf <- WaveKind
  NodeOf <- WaveOf
  Inputs = {x1}
  ToolLimit = 1
  MaxInvocations = 4
  MaxEpoch = 3
INVARIANTS TypeOK RetryConfirmed SentIsVisible BudgetExact SentToolsCharged
PROPERTIES CancelStopsSending
CHECK_DEADLOCK FALSE
SYMMETRY RequestSymmetry
