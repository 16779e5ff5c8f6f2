CONSTANTS
  Keys = {s, u}
  Workers = {w1, w2}
  Priorities <- MCInteractiveOnly
  NoPriority = NoPriority
  NoKey = NoKey
  InteractivePriority <- MCInteractivePriority
  MaxFrames = 1
  Artwork = {}
  Titled = {s, u}
  Series = {s}
  Remote = {u}
  Known = {s}
  Delivers = {s}
  OptIn = TRUE
  MaxCrashes = 1
  EverCalm = TRUE
  NoPath = NoPath
SPECIFICATION Spec
CHECK_DEADLOCK FALSE
PROPERTIES
  EveryCardCovered
