SPECIFICATION Spec
CONSTANTS
  None = None
  Provider = {"p", "a", "r", "q", "m"}
  MaxVersion = 2
  MaxWrites = 1
  MaxBases = 2
  Year = {"2021"}
  Marker <- MCMarker
  Cut <- MCCut
  Empty = Empty
  Form <- MCForm
  Answer <- MCAnswer
  Named <- MCNamed
  Playlist <- MCPlaylist
INVARIANTS
  TypeOK
  CatalogsAgree
  ConsentFirst
  PlaylistExact
PROPERTIES
  StoreIsAtomic
