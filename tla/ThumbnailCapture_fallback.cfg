CONSTANTS
  Keys = {a, t}
  Workers = {w1, w2}
  Priorities <- MCPriorities
  NoPriority = NoPriority
  NoKey = NoKey
  InteractivePriority <- MCInteractivePriority
  MaxFrames = 1
  Artwork = {a}
  Titled = {t}
  Series = {}
  Remote = {t}
  Known = {t}
  Delivers = {a, t}
  OptIn = TRUE
  MaxCrashes = 1
  EverCalm = FALSE
  NoPath = NoPath
SPECIFICATION Spec
PROPERTIES
  FrameIsAFallback
