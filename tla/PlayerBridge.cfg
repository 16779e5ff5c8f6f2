SPECIFICATION Spec
CONSTANTS
  e1 = e1
  e2 = e2
  Live = {c}
  Episode = {e1, e2}
  Alternatives = 1
  MaxRequests = 2
  MaxQueue = 2
  None = None
SYMMETRY SameEpisodes
INVARIANTS
  TypeOK
  WatchedExact
  EachSourceOnce
  FullscreenAgrees
PROPERTIES
  EndIsRecorded
