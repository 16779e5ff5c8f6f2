CONSTANTS
  Keys = {a, t, p}
  Workers = {w1, w2}
  Priorities <- MCInteractiveOnly
  NoPriority = NoPriority
  NoKey = NoKey
  InteractivePriority <- MCInteractivePriority
  MaxFrames = 1
  Artwork = {a}
  Titled = {t}
  Series = {}
  Remote = {t}
  Known = {t}
  Delivers = {a, t, p}
  OptIn = TRUE
  MaxCrashes = 1
  EverCalm = FALSE
  NoPath = NoPath
SPECIFICATION Spec
SYMMETRY Symmetry
CHECK_DEADLOCK FALSE
INVARIANTS
  TypeOK
  SlotsExact
  CoversSound
PROPERTIES
  RetryOnlyAfterBackoff
