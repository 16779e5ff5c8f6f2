CONSTANTS
  MaxLoads = 2
  MaxStops = 0
  MaxFailures = 0
  MaxChanges = 1
SPECIFICATION Spec
CHECK_DEADLOCK FALSE
INVARIANTS
  PauseAgrees
