SPECIFICATION Spec
CONSTANT Scenarios <- OneStoreFault
PROPERTY TerminalStable
CHECK_DEADLOCK FALSE
