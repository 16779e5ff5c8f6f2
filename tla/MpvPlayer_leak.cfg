CONSTANTS
  MaxLoads = 2
  MaxStops = 0
  MaxFailures = 1
  MaxChanges = 0
SPECIFICATION Spec
CHECK_DEADLOCK FALSE
INVARIANTS
  PendingCounted
