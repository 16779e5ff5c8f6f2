CONSTANTS
  MaxLoads = 2
  MaxStops = 2
  MaxFailures = 1
  MaxChanges = 1
SPECIFICATION Spec
CHECK_DEADLOCK FALSE
INVARIANTS
  TypeOK
  RunningIffActive
  AgreesWhenQuiet
  NoPhantomLoad
PROPERTIES
  OldEndsIgnored
  EveryCallReturns
