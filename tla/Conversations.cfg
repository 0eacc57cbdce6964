SPECIFICATION Spec
CONSTANTS
  Turns = {t1, t2}
  NoTurn = NoTurn
  MaxCrashes = 1
  MaxFaults = 1
INVARIANT TurnsAgree
PROPERTIES DeletionConfirmed NoStuckTurn
CHECK_DEADLOCK FALSE
