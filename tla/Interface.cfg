SPECIFICATION Spec
CONSTANTS
  x1 = x1
  x2 = x2
  Profile = {x1, x2, m1}
  M3U = {m1}
  Row = {r1, r2}
  PlainRow = {r2}
  Kind = {"live", "series"}
  None = None
SYMMETRY SameServers
INVARIANTS
  TypeOK
  IndicesAgree
  EpisodesOfParent
  DetailsOfShown
