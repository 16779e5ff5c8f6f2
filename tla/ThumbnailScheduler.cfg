CONSTANTS
  Keys = {k1, k2, k3}
  Workers = {w1, w2}
  Priorities <- MCPriorities
  InteractivePriority <- MCInteractivePriority
  MaxPending = 2
  MaxGeneration = 3
  NoJob = NoJob
  NoPriority = NoPriority
  NoKey = NoKey
SPECIFICATION Spec
INVARIANTS
  OneWorkerPerKey
  NoLostJob
  SafeShutdown
  BackgroundBounded
PROPERTIES
  DispatchOrder
  EveryJobServed
  DestroyTerminates
  JobsSpec
