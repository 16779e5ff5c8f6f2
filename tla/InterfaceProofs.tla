---- MODULE InterfaceProofs ----
(***************************************************************************)
(* Machine-checked proofs about Interface, for any number of profiles,     *)
(* rows and catalogs.                                                      *)
(***************************************************************************)
EXTENDS Interface, TLAPS

----
(* Type correctness.                                                       *)

\* Seasons and episodes are shown only once those of some series are loaded.
EpisodesLoaded ==
  /\ episode /= "no" => episodesOf \in Series
  /\ series.at = "ok" => episodesOf \in Series

TypeInv == TypeOK /\ EpisodesLoaded

\* The active list is a list.
LEMMA ActiveListType == TypeInv => ActiveList \in List
<1> SUFFICES ASSUME TypeInv PROVE ActiveList \in List
  OBVIOUS
<1> USE DEF TypeInv, TypeOK, EpisodesLoaded
<1>1. CASE episode /= "no"
  BY <1>1 DEF ActiveList, List, EpisodeList
<1>2. CASE episode = "no" /\ catalog /= None
  BY <1>2 DEF ActiveList, List, CatalogList
<1>3. CASE episode = "no" /\ catalog = None
  BY <1>3 DEF ActiveList, List
<1> QED
  BY <1>1, <1>2, <1>3

\* What start_login does, whatever it decides.
LEMMA StartLoginType ==
  ASSUME TypeInv, NEW force \in BOOLEAN, StartLogin(force), UNCHANGED <<lists, series>>,
         form' \in Profile \cup {None}
  PROVE  /\ screen' \in {"login", "browse", "player"}
         /\ login' \in {Idle} \cup [at : {"work", "ok", "failed"}, job : Profile]
         /\ derived' \in [filter : List, flags : List]
         /\ playing' \in List
<1>1. ActiveList' = ActiveList
  BY DEF lists, ActiveList
<1>2. ActiveList' \in List
  BY <1>1, ActiveListType
<1>3. NoList \in List
  BY DEF List
<1>4. CASE Launch
  BY <1>4 DEF Launch, TypeInv, TypeOK
<1>5. CASE Resume
  BY <1>2, <1>3, <1>5 DEF Resume, Refresh, TypeInv, TypeOK
<1>6. CASE UNCHANGED <<login, screen, derived, playing>>
  BY <1>6 DEF TypeInv, TypeOK
<1> QED
  BY <1>4, <1>5, <1>6 DEF StartLogin

\* Every step keeps the types.
LEMMA TypeStep == TypeInv /\ [Next]_vars => TypeInv'
<1> SUFFICES ASSUME TypeInv, [Next]_vars PROVE TypeInv'
  OBVIOUS
<1> USE DEF lists, shown, workers
<1>a. ActiveList \in List /\ NoList \in List
  BY ActiveListType DEF List
<1>1. CASE EditForm
  BY <1>1 DEF EditForm, TypeInv, TypeOK, EpisodesLoaded
<1>2. ASSUME NEW p \in Profile, ActivateProfile(p) PROVE TypeInv'
  <2>1. form' \in Profile \cup {None}
    BY <1>2 DEF ActivateProfile, LoadProfile, TypeInv, TypeOK
  <2>2. StartLogin(FALSE) /\ UNCHANGED <<ui, lists, parent, series, details, shown, tainted>>
    BY <1>2 DEF ActivateProfile
  <2>3. /\ screen' \in {"login", "browse", "player"}
        /\ login' \in {Idle} \cup [at : {"work", "ok", "failed"}, job : Profile]
        /\ derived' \in [filter : List, flags : List]
        /\ playing' \in List
    BY <2>1, <2>2, StartLoginType
  <2> QED
    BY <2>1, <2>2, <2>3 DEF TypeInv, TypeOK, EpisodesLoaded
<1>3. CASE Connect
  <2>1. StartLogin(TRUE) /\ UNCHANGED <<form, ui, lists, parent, series, details, shown, tainted>>
    BY <1>3 DEF Connect
  <2>2. form' \in Profile \cup {None}
    BY <2>1 DEF TypeInv, TypeOK
  <2>3. /\ screen' \in {"login", "browse", "player"}
        /\ login' \in {Idle} \cup [at : {"work", "ok", "failed"}, job : Profile]
        /\ derived' \in [filter : List, flags : List]
        /\ playing' \in List
    BY <2>1, <2>2, StartLoginType
  <2> QED
    BY <2>1, <2>2, <2>3 DEF TypeInv, TypeOK, EpisodesLoaded
<1>4. CASE PublishLogin
  <2>1. login' \in [at : {"work", "ok", "failed"}, job : Profile]
    BY <1>4 DEF PublishLogin, TypeInv, TypeOK, Idle
  <2>2. catalog' \in Profile /\ form' \in Profile \cup {None}
    <3>1. CASE AsAsked
      BY <1>4, <3>1 DEF AsAsked, PublishLogin, TypeInv, TypeOK, Idle
    <3>2. CASE Resolved
      BY <3>2, InterfaceAssumption DEF Resolved
    <3> QED
      BY <1>4, <3>1, <3>2 DEF PublishLogin
  <2> QED
    BY <1>4, <2>1, <2>2, InterfaceAssumption DEF PublishLogin, TypeInv, TypeOK, EpisodesLoaded
<1>5. CASE FailLogin
  BY <1>5 DEF FailLogin, TypeInv, TypeOK, EpisodesLoaded, Idle
<1>6. CASE PublishSeries
  <2>1. episodesOf' \in Series /\ series'.at = "ok"
    BY <1>6 DEF PublishSeries, TypeInv, TypeOK, Idle, Series
  <2>2. series' \in [at : {"work", "ok", "failed"}, job : Series, server : Profile]
    BY <1>6 DEF PublishSeries, TypeInv, TypeOK, Idle
  <2> QED
    BY <1>6, <2>1, <2>2 DEF PublishSeries, TypeInv, TypeOK, EpisodesLoaded
<1>7. CASE FailSeries
  BY <1>7 DEF FailSeries, TypeInv, TypeOK, EpisodesLoaded, Idle
<1>8. CASE PublishDetails
  <2>1. details \in [at : {"work", "done"}, job : DetailsId, of : Profile, server : Profile]
    BY <1>8 DEF PublishDetails, TypeInv, TypeOK, Idle
  <2>2. details' \in [at : {"work", "done"}, job : DetailsId, of : Profile, server : Profile]
    BY <1>8, <2>1 DEF PublishDetails
  <2>3. shownData' \in [of : Profile, server : Profile, id : DetailsId] \cup {None}
    BY <1>8, <2>1 DEF PublishDetails, TypeInv, TypeOK
  <2> QED
    BY <1>8, <2>2, <2>3 DEF PublishDetails, TypeInv, TypeOK, EpisodesLoaded
<1>9. CASE TakeSubmission
  <2>1. /\ StartLogin(FALSE)
        /\ UNCHANGED <<ui, lists, parent, series, details, shown>>
        /\ form' \in Profile \cup {None}
        /\ tainted' \in BOOLEAN
    BY <1>9, InterfaceAssumption DEF TakeSubmission
  <2>2. /\ screen' \in {"login", "browse", "player"}
        /\ login' \in {Idle} \cup [at : {"work", "ok", "failed"}, job : Profile]
        /\ derived' \in [filter : List, flags : List]
        /\ playing' \in List
    BY <2>1, StartLoginType
  <2> QED
    BY <2>1, <2>2 DEF TypeInv, TypeOK, EpisodesLoaded
<1>10. CASE HandleLogin
  <2>1. ActiveList' = ActiveList
    BY <1>10 DEF HandleLogin, ActiveList
  <2>2. derived' \in [filter : List, flags : List]
    BY <1>10, <1>a, <2>1 DEF HandleLogin, Refresh
  <2>3. tainted' \in BOOLEAN
    BY <1>10 DEF HandleLogin
  <2> QED
    BY <1>10, <1>a, <2>2, <2>3 DEF HandleLogin, TypeInv, TypeOK, EpisodesLoaded
<1>11. CASE HandleFailedLogin
  BY <1>11 DEF HandleFailedLogin, TypeInv, TypeOK, EpisodesLoaded
<1>12. CASE HandleSeries
  <2>1. CASE /\ SeriesLoaded /\ screen = "browse" /\ kind = "series"
             /\ ClearDetails
             /\ episode' = "seasons"
             /\ Refresh
    <3>1. episodesOf \in Series /\ UNCHANGED episodesOf
      BY <1>12, <2>1 DEF HandleSeries, SeriesLoaded, TypeInv, EpisodesLoaded
    <3>2. ActiveList' \in List
      BY <2>1, <3>1 DEF ActiveList, List, EpisodeList
    <3>3. derived' \in [filter : List, flags : List]
      BY <2>1, <3>2 DEF Refresh
    <3> QED
      BY <1>12, <2>1, <3>1, <3>3
      DEF HandleSeries, ClearDetails, TypeInv, TypeOK, EpisodesLoaded, Idle
  <2>2. CASE UNCHANGED <<shown, episode, derived>>
    BY <1>12, <2>2 DEF HandleSeries, TypeInv, TypeOK, EpisodesLoaded, Idle
  <2> QED
    BY <1>12, <2>1, <2>2 DEF HandleSeries
<1>13. CASE HandleDetails
  BY <1>13 DEF HandleDetails, TypeInv, TypeOK, EpisodesLoaded
<1>14. ASSUME NEW k \in Kind, SwitchContent(k) PROVE TypeInv'
  <2>1. ActiveList' \in List
    BY <1>14 DEF SwitchContent, ActiveList, List, CatalogList, TypeInv, TypeOK
  <2>2. derived' \in [filter : List, flags : List]
    BY <1>14, <2>1 DEF SwitchContent, Refresh
  <2> QED
    BY <1>14, <2>2 DEF SwitchContent, ClearDetails, TypeInv, TypeOK, EpisodesLoaded
<1>15. CASE Select \/ LeavePlayer
  <2>1. ActiveList' = ActiveList
    BY <1>15 DEF Select, LeavePlayer, ActiveList
  <2>2. derived' \in [filter : List, flags : List]
    BY <1>15, <1>a, <2>1 DEF Select, LeavePlayer, RebuildFilter, TypeInv, TypeOK
  <2> QED
    BY <1>15, <1>a, <2>2 DEF Select, LeavePlayer, TypeInv, TypeOK, EpisodesLoaded
<1>16. CASE BackToSeasons \/ SelectSeason
  <2>1. episodesOf' \in Series /\ episode' \in {"seasons", "episodes"}
    BY <1>16 DEF BackToSeasons, SelectSeason, TypeInv, EpisodesLoaded
  <2>2. ActiveList' \in List
    BY <2>1 DEF ActiveList, List, EpisodeList
  <2>3. derived' \in [filter : List, flags : List]
    BY <1>16, <2>2 DEF BackToSeasons, SelectSeason, Refresh
  <2> QED
    BY <1>16, <2>1, <2>3 DEF BackToSeasons, SelectSeason, TypeInv, TypeOK, EpisodesLoaded
<1>17. CASE BackToSeries
  <2>1. ActiveList' \in List
    BY <1>17 DEF BackToSeries, ActiveList, List, CatalogList, TypeInv, TypeOK
  <2>2. derived' \in [filter : List, flags : List]
    BY <1>17, <2>1 DEF BackToSeries, Refresh
  <2> QED
    BY <1>17, <2>2 DEF BackToSeries, ClearDetails, TypeInv, TypeOK, EpisodesLoaded
<1>18. ASSUME NEW row \in Row, StartSeries(row) PROVE TypeInv'
  <2>1. catalog \in Profile /\ form \in Profile
    BY <1>18 DEF StartSeries, AtSeries, TypeInv, TypeOK
  <2>2. [of |-> catalog, row |-> row] \in Series
    BY <2>1 DEF Series
  <2> QED
    BY <1>18, <2>1, <2>2 DEF StartSeries, TypeInv, TypeOK, EpisodesLoaded
<1>19. ASSUME NEW row \in Row, OpenM3USeries(row) PROVE TypeInv'
  <2>1. parent' \in Series /\ episodesOf' \in Series /\ episode' = "seasons"
    BY <1>19 DEF OpenM3USeries, AtSeries, Series, TypeInv, TypeOK
  <2>2. ActiveList' \in List
    BY <2>1 DEF ActiveList, List, EpisodeList
  <2>3. derived' \in [filter : List, flags : List]
    BY <1>19, <2>2 DEF OpenM3USeries, Refresh
  <2> QED
    BY <1>19, <2>1, <2>3 DEF OpenM3USeries, TypeInv, TypeOK, EpisodesLoaded
<1>20. ASSUME NEW row \in Row, StartDetails(row) PROVE TypeInv'
  <2>1. catalog \in Profile /\ form \in Profile
    BY <1>20 DEF StartDetails, ActiveList, TypeInv, TypeOK
  <2>2. IdOf(ActiveList, row) \in DetailsId
    BY <1>20, <2>1 DEF StartDetails, IdOf, ActiveList, DetailsId, TypeInv, TypeOK
  <2> QED
    BY <1>20, <2>1, <2>2 DEF StartDetails, TypeInv, TypeOK, EpisodesLoaded
<1>21. CASE Play
  BY <1>21, <1>a DEF Play, TypeInv, TypeOK, EpisodesLoaded
<1>22. CASE ShowLogin \/ CancelBrowse
  BY <1>22 DEF ShowLogin, CancelBrowse, TypeInv, TypeOK, EpisodesLoaded
<1>23. CASE CancelJoined
  BY <1>23 DEF CancelJoined, ClearDetails, TypeInv, TypeOK, EpisodesLoaded, Idle
<1>24. CASE Quit
  BY <1>24, <1>a, InterfaceAssumption
  DEF Quit, ClearDetails, TypeInv, TypeOK, EpisodesLoaded, Idle
<1>25. CASE UNCHANGED vars
  BY <1>25 DEF vars, TypeInv, TypeOK, EpisodesLoaded
<1> QED
  BY <1>1, <1>2, <1>3, <1>4, <1>5, <1>6, <1>7, <1>8, <1>9, <1>10, <1>11, <1>12, <1>13, <1>14,
     <1>15, <1>16, <1>17, <1>18, <1>19, <1>20, <1>21, <1>22, <1>23, <1>24, <1>25
  DEF Next, Worker, HandleAsync, Navigate, LoginScreen, Gone

\* The initial state has the types.
LEMMA TypeInit == Init => TypeInv
<1> SUFFICES ASSUME Init PROVE TypeInv
  OBVIOUS
<1>1. derived \in [filter : List, flags : List] /\ playing \in List
  BY DEF Init, List
<1>2. kind \in Kind
  BY InterfaceAssumption DEF Init
<1>3. login = Idle /\ series = Idle /\ details = Idle /\ Idle.at = "none"
  BY DEF Init, Idle
<1> QED
  BY <1>1, <1>2, <1>3 DEF Init, TypeInv, TypeOK, EpisodesLoaded

\* The range of every variable of the interface, in every reachable state.
THEOREM TypeCorrect == Spec => []TypeOK
<1>1. TypeInv => TypeOK
  BY DEF TypeInv
<1> QED
  BY <1>1, TypeInit, TypeStep, PTL DEF Spec
----
(* Whose lists are loaded, and on whose behalf the workers run.            *)

\* A login under way behind another screen is a phone's: the form holds a
\* playlist.
PlaylistBehindScreen == (Started(login) /\ screen /= "login") => form \in M3U

\* It has tainted the state when it was launched.
BehindIsTainted == (Started(login) /\ screen /= "login") => tainted

\* A login that has published and is not taken over yet has left the series:
\* a series worker that was running meanwhile is not shown.
SeriesBehindLogin == (login.at = "ok" /\ Started(series)) => (episode = "no" /\ kind /= "series")

\* Unless tainted: the form agrees with the catalogs, a series worker fetches
\* from a server (never from a playlist), and no episode is shown meanwhile.
FormIsCatalog == (~tainted /\ screen /= "login") => form = catalog
SeriesOfServer == (~tainted /\ Started(series) /\ kind = "series") => catalog \notin M3U
SeriesFromCatalog == (~tainted /\ Started(series)) => episode = "no"

ProfileInv ==
  /\ TypeInv
  /\ PlaylistBehindScreen /\ BehindIsTainted /\ SeriesBehindLogin
  /\ FormIsCatalog /\ SeriesOfServer /\ SeriesFromCatalog

\* What start_login may do: nothing, launch a worker and stay, or show the
\* playlist that is loaded already.
LEMMA StartLoginCases ==
  ASSUME NEW force \in BOOLEAN, StartLogin(force), UNCHANGED lists
  PROVE  \/ UNCHANGED <<login, screen, derived, playing>>
         \/ /\ ~Started(login) /\ login' = [at |-> "work", job |-> form']
            /\ UNCHANGED <<screen, derived, playing>>
         \/ /\ ~Started(login) /\ form' \in M3U /\ form' = catalog
            /\ screen' = "browse" /\ playing' = NoList /\ UNCHANGED login
            /\ derived' = [filter |-> ActiveList, flags |-> ActiveList]
<1>1. ActiveList' = ActiveList
  BY DEF lists, ActiveList
<1>2. catalog' = catalog
  BY DEF lists
<1> QED
  BY <1>1, <1>2 DEF StartLogin, Launch, Resume, Refresh, CachedMatches

\* start_login keeps the agreement, whether it follows a change of the form
\* on the login screen or a phone's submission behind another one.
LEMMA StartLoginProfile ==
  ASSUME ProfileInv, TypeInv', NEW force \in BOOLEAN, StartLogin(force),
         UNCHANGED <<lists, series>>,
         screen = "login" \/ form' \in M3U,
         tainted' = (tainted \/ screen /= "login")
  PROVE  ProfileInv'
<1> USE DEF lists, Started, ProfileInv
<1>1. /\ TypeInv
      /\ UNCHANGED <<catalog, kind, episode, series>>
      /\ ~tainted' => ~tainted
      /\ (~tainted' /\ screen /= "login") => form' = form
  BY DEF TypeInv, TypeOK
<1>2. CASE UNCHANGED <<login, screen, derived, playing>>
  BY <1>1, <1>2 DEF PlaylistBehindScreen, BehindIsTainted, SeriesBehindLogin, FormIsCatalog,
     SeriesOfServer, SeriesFromCatalog
<1>3. CASE /\ ~Started(login) /\ login' = [at |-> "work", job |-> form']
           /\ UNCHANGED <<screen, derived, playing>>
  BY <1>1, <1>3 DEF PlaylistBehindScreen, BehindIsTainted, SeriesBehindLogin, FormIsCatalog,
     SeriesOfServer, SeriesFromCatalog
<1>4. CASE /\ ~Started(login) /\ form' \in M3U /\ form' = catalog
           /\ screen' = "browse" /\ playing' = NoList /\ UNCHANGED login
  BY <1>1, <1>4 DEF PlaylistBehindScreen, BehindIsTainted, SeriesBehindLogin, FormIsCatalog,
     SeriesOfServer, SeriesFromCatalog
<1> QED
  BY <1>2, <1>3, <1>4, StartLoginCases

\* Every step keeps the agreement.
LEMMA ProfileStep == ProfileInv /\ [Next]_vars => ProfileInv'
<1> SUFFICES ASSUME ProfileInv, [Next]_vars PROVE ProfileInv'
  OBVIOUS
<1>t. TypeInv /\ TypeInv'
  BY TypeStep DEF ProfileInv
<1> DEFINE Agreement ==
      /\ PlaylistBehindScreen /\ BehindIsTainted /\ SeriesBehindLogin
      /\ FormIsCatalog /\ SeriesOfServer /\ SeriesFromCatalog
<1>i. Agreement
  BY DEF ProfileInv
<1>p. Agreement' => ProfileInv'
  BY <1>t DEF ProfileInv
<1> USE DEF PlaylistBehindScreen, BehindIsTainted, SeriesBehindLogin, FormIsCatalog,
            SeriesOfServer, SeriesFromCatalog, lists, workers, Started
<1>1. CASE EditForm
  BY <1>1, <1>i, <1>p DEF EditForm, AtLogin
<1>2. ASSUME NEW p \in Profile, ActivateProfile(p) PROVE ProfileInv'
  BY <1>2, <1>t, StartLoginProfile DEF ActivateProfile, AtLogin, TypeInv, TypeOK
<1>3. CASE Connect
  BY <1>3, <1>t, StartLoginProfile DEF Connect, AtLogin, TypeInv, TypeOK
<1>4. CASE PublishLogin
  <2>1. login.at = "work" /\ login'.at = "ok"
    BY <1>4, <1>t DEF PublishLogin, TypeInv, TypeOK, Idle
  <2>2. kind' = "live" /\ episode' = "no" /\ UNCHANGED <<screen, series, tainted>>
    BY <1>4 DEF PublishLogin
  <2>3. form \in M3U => form' \in M3U
    BY <1>4 DEF PublishLogin, AsAsked, Resolved, InM3UMode
  <2> QED
    BY <2>1, <2>2, <2>3, <1>i, <1>p
<1>5. CASE FailLogin \/ HandleFailedLogin
  <2>1. login'.at /= "ok" /\ login.at /= "none"
    BY <1>5, <1>t DEF FailLogin, HandleFailedLogin, TypeInv, TypeOK, Idle
  <2> QED
    BY <1>5, <2>1, <1>i, <1>p DEF FailLogin, HandleFailedLogin
<1>6. CASE PublishSeries \/ FailSeries
  BY <1>6, <1>i, <1>p DEF PublishSeries, FailSeries
<1>7. CASE PublishDetails \/ HandleDetails
  BY <1>7, <1>i, <1>p DEF PublishDetails, HandleDetails
<1>8. CASE TakeSubmission
  <2>1. StartLogin(FALSE) /\ UNCHANGED <<lists, series>>
    BY <1>8 DEF TakeSubmission
  <2>2. form' \in M3U /\ tainted' = (tainted \/ screen /= "login")
    BY <1>8 DEF TakeSubmission
  <2> QED
    BY <1>t, <2>1, <2>2, StartLoginProfile
<1>9. CASE HandleLogin
  BY <1>9, <1>i, <1>p DEF HandleLogin, Idle
<1>10. CASE HandleSeries
  BY <1>10, <1>i, <1>p DEF HandleSeries, Idle
<1>11. ASSUME NEW k \in Kind, SwitchContent(k) PROVE ProfileInv'
  BY <1>11, <1>i, <1>p DEF SwitchContent, Browsing
<1>12. CASE Select \/ Play \/ LeavePlayer
  BY <1>12, <1>i, <1>p DEF Select, Play, LeavePlayer, Browsing
<1>13. CASE BackToSeasons \/ BackToSeries \/ SelectSeason
  BY <1>13, <1>i, <1>p DEF BackToSeasons, BackToSeries, SelectSeason, Browsing
<1>14. ASSUME NEW row \in Row, StartSeries(row) PROVE ProfileInv'
  BY <1>14, <1>i, <1>p DEF StartSeries, AtSeries, Browsing, InM3UMode
<1>15. ASSUME NEW row \in Row, OpenM3USeries(row) PROVE ProfileInv'
  BY <1>15, <1>i, <1>p DEF OpenM3USeries, AtSeries, Browsing, InM3UMode
<1>16. ASSUME NEW row \in Row, StartDetails(row) PROVE ProfileInv'
  BY <1>16, <1>i, <1>p DEF StartDetails
<1>17. CASE ShowLogin \/ CancelBrowse
  BY <1>17, <1>i, <1>p DEF ShowLogin, CancelBrowse
<1>18. CASE CancelJoined \/ Quit
  BY <1>18, <1>i, <1>p DEF CancelJoined, Quit, Idle
<1>19. CASE UNCHANGED vars
  BY <1>19, <1>i, <1>p DEF vars
<1> QED
  BY <1>1, <1>2, <1>3, <1>4, <1>5, <1>6, <1>7, <1>8, <1>9, <1>10, <1>11, <1>12, <1>13, <1>14,
     <1>15, <1>16, <1>17, <1>18, <1>19
  DEF Next, Worker, HandleAsync, Navigate, LoginScreen, Gone

\* The initial state agrees.
LEMMA ProfileInit == Init => ProfileInv
BY TypeInit DEF Init, ProfileInv, PlaylistBehindScreen, BehindIsTainted, SeriesBehindLogin,
   FormIsCatalog, SeriesOfServer, SeriesFromCatalog, Started, Idle

----
(* The indices are into the lists they are used on.                        *)

\* Unless a login's publication waits to be taken over: always while form and
\* catalogs agree, and for the catalogs when they do not.
IndicesInv ==
  (screen /= "login" /\ (~tainted \/ (login.at /= "ok" /\ episode = "no"))) =>
    /\ derived.flags = ActiveList
    /\ screen = "browse" => derived.filter = ActiveList
    /\ screen = "player" => playing = ActiveList

\* start_login shows a list only with indices computed for it.
LEMMA StartLoginIndices ==
  ASSUME TypeInv, IndicesInv, NEW force \in BOOLEAN, StartLogin(force), UNCHANGED lists,
         tainted' = (tainted \/ screen /= "login")
  PROVE  IndicesInv'
<1>1. ActiveList' = ActiveList
  BY DEF lists, ActiveList
<1>2. CASE UNCHANGED <<login, screen, derived, playing>>
  BY <1>1, <1>2 DEF IndicesInv, lists
<1>3. CASE ~Started(login) /\ UNCHANGED <<screen, derived, playing>>
  <2>1. login.at /= "ok"
    BY <1>3 DEF Started
  <2> QED
    BY <1>1, <1>3, <2>1 DEF IndicesInv, lists
<1>4. CASE /\ screen' = "browse" /\ playing' = NoList
           /\ derived' = [filter |-> ActiveList, flags |-> ActiveList]
  BY <1>1, <1>4 DEF IndicesInv
<1> QED
  BY <1>2, <1>3, <1>4, StartLoginCases

\* A step that changes no list, no index and no screen, and takes no login
\* over, keeps the indices.
LEMMA IndicesFrame ==
  ASSUME IndicesInv, UNCHANGED <<lists, screen, derived, playing, tainted>>,
         login' = login \/ login.at /= "ok"
  PROVE  IndicesInv'
<1>1. ActiveList' = ActiveList /\ episode' = episode
  BY DEF lists, ActiveList
<1> QED
  BY <1>1 DEF IndicesInv

\* A step that recomputes everything for the list now active has them agree.
LEMMA IndicesRefreshed ==
  ASSUME Refresh, screen' = "browse"
  PROVE  IndicesInv'
BY DEF Refresh, IndicesInv

\* Every step keeps the indices.
LEMMA IndicesStep == ProfileInv /\ IndicesInv /\ [Next]_vars => IndicesInv'
<1> SUFFICES ASSUME ProfileInv, IndicesInv, [Next]_vars PROVE IndicesInv'
  OBVIOUS
<1>t. TypeInv
  BY DEF ProfileInv
<1> USE DEF lists, workers
<1>1. CASE EditForm \/ FailLogin \/ HandleFailedLogin \/ FailSeries \/ PublishDetails
             \/ HandleDetails \/ CancelBrowse
  BY <1>1, IndicesFrame
  DEF EditForm, FailLogin, HandleFailedLogin, FailSeries, PublishDetails, HandleDetails,
      CancelBrowse
<1>2. ASSUME NEW p \in Profile, ActivateProfile(p) PROVE IndicesInv'
  BY <1>2, <1>t, StartLoginIndices DEF ActivateProfile, AtLogin, TypeInv, TypeOK
<1>3. CASE Connect
  BY <1>3, <1>t, StartLoginIndices DEF Connect, AtLogin, TypeInv, TypeOK
<1>4. CASE PublishLogin
  <2>1. login.at = "work" /\ login'.at = "ok" /\ UNCHANGED <<screen, tainted>>
    BY <1>4, <1>t DEF PublishLogin, TypeInv, TypeOK, Idle
  <2>2. screen /= "login" => tainted
    BY <2>1 DEF ProfileInv, BehindIsTainted, Started
  <2> QED
    BY <2>1, <2>2 DEF IndicesInv
<1>5. CASE PublishSeries
  <2>1. ~tainted => episode = "no"
    BY <1>5 DEF ProfileInv, SeriesFromCatalog, Started, PublishSeries
  <2>2. episode = "no" => ActiveList' = ActiveList
    BY <1>5 DEF PublishSeries, ActiveList
  <2> QED
    BY <1>5, <2>1, <2>2 DEF PublishSeries, IndicesInv
<1>6. CASE TakeSubmission
  BY <1>6, <1>t, StartLoginIndices DEF TakeSubmission
<1>7. CASE HandleLogin
  BY <1>7, IndicesRefreshed DEF HandleLogin
<1>8. CASE HandleSeries
  <2>1. CASE Refresh /\ screen = "browse"
    BY <1>8, <2>1, IndicesRefreshed DEF HandleSeries
  <2>2. CASE UNCHANGED <<shown, episode, derived>>
    BY <1>8, <2>2, IndicesFrame DEF HandleSeries
  <2> QED
    BY <1>8, <2>1, <2>2 DEF HandleSeries
<1>9. ASSUME NEW k \in Kind, SwitchContent(k) PROVE IndicesInv'
  BY <1>9, IndicesRefreshed DEF SwitchContent, Browsing
<1>10. CASE Select \/ LeavePlayer
  <2>1. ActiveList' = ActiveList
    BY <1>10 DEF Select, LeavePlayer, ActiveList
  <2>2. derived'.flags = derived.flags /\ derived'.filter = ActiveList
    BY <1>10, <1>t, <2>1 DEF Select, LeavePlayer, RebuildFilter, TypeInv, TypeOK
  <2>3. screen' = "browse" /\ screen /= "login" /\ UNCHANGED <<tainted, login, episode>>
    BY <1>10 DEF Select, LeavePlayer, Browsing
  <2> QED
    BY <2>1, <2>2, <2>3 DEF IndicesInv
<1>11. CASE BackToSeasons \/ BackToSeries \/ SelectSeason
  BY <1>11, IndicesRefreshed DEF BackToSeasons, BackToSeries, SelectSeason, Browsing
<1>12. ASSUME NEW row \in Row, StartSeries(row) \/ StartDetails(row) PROVE IndicesInv'
  BY <1>12, IndicesFrame DEF StartSeries, StartDetails
<1>13. ASSUME NEW row \in Row, OpenM3USeries(row) PROVE IndicesInv'
  BY <1>13, IndicesRefreshed DEF OpenM3USeries, AtSeries, Browsing
<1>14. CASE Play
  <2>1. ActiveList' = ActiveList
    BY <1>14 DEF Play, ActiveList
  <2> QED
    BY <1>14, <2>1 DEF Play, Browsing, IndicesInv
<1>15. CASE ShowLogin \/ CancelJoined \/ Quit
  BY <1>15 DEF ShowLogin, CancelJoined, Quit, IndicesInv
<1>16. CASE UNCHANGED vars
  BY <1>16, IndicesFrame DEF vars
<1> QED
  BY <1>1, <1>2, <1>3, <1>4, <1>5, <1>6, <1>7, <1>8, <1>9, <1>10, <1>11, <1>12, <1>13, <1>14,
     <1>15, <1>16
  DEF Next, Worker, HandleAsync, Navigate, LoginScreen, Gone

\* Filter, favourite flags and category counts while browsing, and the
\* channel in the player, are indices into the list they are used on,
\* although workers replace the lists: always while form and catalogs agree,
\* and when they do not, for the catalogs, except between a publication and
\* its take-over.  For any number of profiles and rows.
THEOREM IndicesAgreeAlways == Spec => []IndicesAgree
<1>1. Init => ProfileInv /\ IndicesInv
  BY ProfileInit DEF Init, IndicesInv
<1>2. ProfileInv /\ IndicesInv /\ [Next]_vars => (ProfileInv /\ IndicesInv)'
  BY ProfileStep, IndicesStep
<1>3. IndicesInv => IndicesAgree
  BY DEF IndicesInv, IndicesAgree, Agree
<1> QED
  BY <1>1, <1>2, <1>3, PTL DEF Spec

----
(* The episodes are those of the series opened.                            *)

\* A login that has published hides the series and waits to be taken over:
\* what it left must hold when that ends the taint.
Settled == ~tainted \/ login.at = "ok"

\* The series worker fetches the series opened, from the server that lists
\* it, and what it has published is that series.
SeriesOfParent ==
  (~tainted /\ Started(series) /\ kind = "series") =>
    /\ series.job = parent /\ parent.of = catalog /\ series.server = catalog
    /\ series.at = "ok" => episodesOf = parent

\* The episodes shown are of the series opened, in the catalog loaded.
EpisodesShown == (Settled /\ episode /= "no") => (episodesOf = parent /\ parent.of = catalog)

EpisodesInv == SeriesOfParent /\ EpisodesShown

\* A step that leaves the lists, the series and its worker alone, and starts
\* no taint's end, keeps the episodes.
LEMMA EpisodesFrame ==
  ASSUME EpisodesInv, UNCHANGED <<lists, parent, series>>, Settled' => Settled,
         ~tainted' => ~tainted
  PROVE  EpisodesInv'
BY DEF EpisodesInv, SeriesOfParent, EpisodesShown, Started, lists

\* Every step keeps the episodes.
LEMMA EpisodesStep == ProfileInv /\ EpisodesInv /\ [Next]_vars => EpisodesInv'
<1> SUFFICES ASSUME ProfileInv, EpisodesInv, [Next]_vars PROVE EpisodesInv'
  OBVIOUS
<1>t. TypeInv
  BY DEF ProfileInv
<1> USE DEF lists, workers
<1>l. ASSUME NEW force \in BOOLEAN, StartLogin(force), UNCHANGED <<lists, parent, series>>,
             ~tainted' => ~tainted
      PROVE  EpisodesInv'
  <2>1. login'.at = "ok" => login.at = "ok"
    BY <1>l, StartLoginCases
  <2> QED
    BY <1>l, <2>1, EpisodesFrame DEF Settled
<1>1. CASE EditForm \/ PublishDetails \/ HandleDetails \/ Select \/ Play \/ LeavePlayer
             \/ ShowLogin \/ CancelBrowse
  BY <1>1, EpisodesFrame
  DEF EditForm, PublishDetails, HandleDetails, Select, Play, LeavePlayer, ShowLogin,
      CancelBrowse, Settled
<1>2. CASE FailLogin \/ HandleFailedLogin
  <2>1. login'.at /= "ok"
    BY <1>2, <1>t DEF FailLogin, HandleFailedLogin, TypeInv, TypeOK, Idle
  <2> QED
    BY <1>2, <2>1, EpisodesFrame DEF FailLogin, HandleFailedLogin, Settled
<1>3. ASSUME NEW p \in Profile, ActivateProfile(p) PROVE EpisodesInv'
  BY <1>3, <1>l DEF ActivateProfile
<1>4. CASE Connect
  BY <1>4, <1>l DEF Connect
<1>5. CASE TakeSubmission
  BY <1>5, <1>l, <1>t DEF TakeSubmission, TypeInv, TypeOK
<1>6. CASE PublishLogin
  BY <1>6 DEF PublishLogin, EpisodesInv, SeriesOfParent, EpisodesShown
<1>7. CASE PublishSeries
  <2>1. /\ series' = [series EXCEPT !.at = "ok"]
        /\ series.job \in Series /\ series.server \in Profile
        /\ series.at = "work"
        /\ UNCHANGED <<login, tainted, kind, episode, parent, catalog>>
    BY <1>7, <1>t DEF PublishSeries, TypeInv, TypeOK, Idle
  <2>2. series'.job = series.job /\ series'.server = series.server
    BY <1>t, <2>1 DEF TypeInv, TypeOK, Idle
  <2>3. (~tainted /\ kind = "series") => episodesOf' = parent
    <3>1. series.job.of = series.server => [series.job EXCEPT !.of = series.server] = series.job
      BY <2>1 DEF Series
    <3> QED
      BY <1>7, <2>1, <3>1 DEF PublishSeries, EpisodesInv, SeriesOfParent, Started
  <2>4. SeriesOfParent'
    BY <2>1, <2>2, <2>3 DEF EpisodesInv, SeriesOfParent, Started
  <2>5. Settled => episode = "no"
    BY <2>1 DEF ProfileInv, SeriesFromCatalog, SeriesBehindLogin, Settled, Started
  <2> QED
    BY <2>1, <2>4, <2>5 DEF EpisodesInv, EpisodesShown, Settled
<1>8. CASE FailSeries
  <2>1. /\ series' = [series EXCEPT !.at = "failed"] /\ series.at = "work"
        /\ UNCHANGED <<login, tainted, kind, episode, parent, catalog, episodesOf>>
    BY <1>8 DEF FailSeries
  <2>2. series'.job = series.job /\ series'.server = series.server /\ series'.at = "failed"
    BY <1>t, <2>1 DEF TypeInv, TypeOK, Idle
  <2> QED
    BY <2>1, <2>2 DEF EpisodesInv, SeriesOfParent, EpisodesShown, Settled, Started
<1>9. CASE HandleLogin
  <2>1. login.at = "ok" /\ Settled /\ UNCHANGED <<lists, parent, series>>
    BY <1>9 DEF HandleLogin, Settled
  <2>2. EpisodesShown'
    BY <2>1 DEF EpisodesInv, EpisodesShown
  <2>3. SeriesOfParent'
    BY <2>1 DEF ProfileInv, SeriesBehindLogin, SeriesOfParent, Started
  <2> QED
    BY <2>2, <2>3 DEF EpisodesInv
<1>10. CASE HandleSeries
  <2>1. SeriesOfParent'
    BY <1>10 DEF HandleSeries, SeriesOfParent, Started, Idle
  <2>2. EpisodesShown'
    <3>1. CASE SeriesLoaded /\ kind = "series"
      <4>1. Settled => ~tainted
        BY <3>1 DEF ProfileInv, SeriesBehindLogin, Settled, SeriesLoaded, Started
      <4> QED
        BY <1>10, <3>1, <4>1
        DEF HandleSeries, EpisodesInv, SeriesOfParent, EpisodesShown, Settled, SeriesLoaded,
            Started
    <3>2. CASE UNCHANGED episode
      BY <1>10, <3>2 DEF HandleSeries, EpisodesInv, EpisodesShown, Settled
    <3> QED
      BY <1>10, <3>1, <3>2 DEF HandleSeries
  <2> QED
    BY <2>1, <2>2 DEF EpisodesInv
<1>11. ASSUME NEW k \in Kind, SwitchContent(k) PROVE EpisodesInv'
  BY <1>11 DEF SwitchContent, EpisodesInv, SeriesOfParent, EpisodesShown, Started
<1>12. CASE BackToSeasons \/ BackToSeries \/ SelectSeason
  BY <1>12
  DEF BackToSeasons, BackToSeries, SelectSeason, EpisodesInv, SeriesOfParent, EpisodesShown,
      Settled, Started
<1>13. ASSUME NEW row \in Row, StartSeries(row) PROVE EpisodesInv'
  <2>1. ~tainted => form = catalog
    BY <1>13 DEF StartSeries, AtSeries, Browsing, ProfileInv, FormIsCatalog
  <2> QED
    BY <1>13, <2>1
    DEF StartSeries, AtSeries, EpisodesInv, SeriesOfParent, EpisodesShown, Started
<1>14. ASSUME NEW row \in Row, OpenM3USeries(row) PROVE EpisodesInv'
  <2>1. ~tainted => ~Started(series)
    BY <1>14
    DEF OpenM3USeries, AtSeries, Browsing, InM3UMode, ProfileInv, FormIsCatalog, SeriesOfServer
  <2> QED
    BY <1>14, <2>1 DEF OpenM3USeries, EpisodesInv, SeriesOfParent, EpisodesShown, Started
<1>15. ASSUME NEW row \in Row, StartDetails(row) PROVE EpisodesInv'
  BY <1>15, EpisodesFrame DEF StartDetails, Settled
<1>16. CASE CancelJoined \/ Quit
  BY <1>16
  DEF CancelJoined, Quit, EpisodesInv, SeriesOfParent, EpisodesShown, Settled, Started, Idle
<1>17. CASE UNCHANGED vars
  BY <1>17, EpisodesFrame DEF vars, Settled
<1> QED
  BY <1>1, <1>2, <1>3, <1>4, <1>5, <1>6, <1>7, <1>8, <1>9, <1>10, <1>11, <1>12, <1>13, <1>14,
     <1>15, <1>16, <1>17
  DEF Next, Worker, HandleAsync, Navigate, LoginScreen, Gone

\* The seasons and episodes on the screen are those of the series that was
\* opened, in the catalog that is loaded, whatever logins and fetches ended
\* in between: for any number of profiles and series.
THEOREM EpisodesOfParentAlways == Spec => []EpisodesOfParent
<1>1. Init => ProfileInv /\ EpisodesInv
  BY ProfileInit
  DEF Init, EpisodesInv, SeriesOfParent, EpisodesShown, Started, Idle
<1>2. ProfileInv /\ EpisodesInv /\ [Next]_vars => (ProfileInv /\ EpisodesInv)'
  BY ProfileStep, EpisodesStep
<1>3. EpisodesInv => EpisodesOfParent
  BY DEF EpisodesInv, EpisodesShown, Settled, EpisodesOfParent
<1> QED
  BY <1>1, <1>2, <1>3, PTL DEF Spec

----
(* The metadata shown is that of the item.                                 *)

\* While the view is of the kind that details were asked for: what is shown,
\* and what the worker fetches for it, is of the catalog loaded, from its
\* own server.
DetailsInv ==
  (Settled /\ shownId /= None /\ kind = shownId.what) =>
    /\ shownData /= None => shownData = [of |-> catalog, server |-> catalog, id |-> shownId]
    /\ (details.at = "work" /\ details.job = shownId) =>
         (details.of = catalog /\ details.server = catalog)

\* A step that leaves the view of the details and their worker alone.
LEMMA DetailsFrame ==
  ASSUME DetailsInv, UNCHANGED <<catalog, kind, shown>>, Settled' => Settled,
         details' = details \/ details'.at /= "work"
  PROVE  DetailsInv'
BY DEF DetailsInv, shown

\* Nothing is asked for.
LEMMA DetailsCleared == ASSUME shownId' = None PROVE DetailsInv'
BY DEF DetailsInv

\* Every step keeps the metadata shown that of the item.
LEMMA DetailsStep == ProfileInv /\ DetailsInv /\ [Next]_vars => DetailsInv'
<1> SUFFICES ASSUME ProfileInv, DetailsInv, [Next]_vars PROVE DetailsInv'
  OBVIOUS
<1>t. TypeInv
  BY DEF ProfileInv
<1> USE DEF lists, workers
<1>l. ASSUME NEW force \in BOOLEAN, StartLogin(force), UNCHANGED <<lists, shown, details>>,
             ~tainted' => ~tainted
      PROVE  DetailsInv'
  <2>1. login'.at = "ok" => login.at = "ok"
    BY <1>l, StartLoginCases
  <2> QED
    BY <1>l, <2>1, DetailsFrame DEF Settled
<1>1. CASE EditForm \/ Select \/ Play \/ LeavePlayer \/ ShowLogin \/ CancelBrowse
             \/ BackToSeasons \/ SelectSeason \/ PublishSeries \/ FailSeries
  BY <1>1, DetailsFrame
  DEF EditForm, Select, Play, LeavePlayer, ShowLogin, CancelBrowse, BackToSeasons, SelectSeason,
      PublishSeries, FailSeries, Settled
<1>2. CASE FailLogin \/ HandleFailedLogin
  <2>1. login'.at /= "ok"
    BY <1>2, <1>t DEF FailLogin, HandleFailedLogin, TypeInv, TypeOK, Idle
  <2> QED
    BY <1>2, <2>1, DetailsFrame DEF FailLogin, HandleFailedLogin, Settled
<1>3. ASSUME NEW p \in Profile, ActivateProfile(p) PROVE DetailsInv'
  BY <1>3, <1>l DEF ActivateProfile
<1>4. CASE Connect
  BY <1>4, <1>l DEF Connect
<1>5. CASE TakeSubmission
  BY <1>5, <1>l, <1>t DEF TakeSubmission, TypeInv, TypeOK
<1>6. CASE PublishLogin
  <2>1. shownId' = None \/ shownId'.what \in {"vod", "series"}
    BY <1>6, <1>t DEF PublishLogin, shown, TypeInv, TypeOK, DetailsId
  <2> QED
    BY <1>6, <2>1 DEF PublishLogin, DetailsInv
<1>7. CASE PublishDetails
  <2>1. details.at = "work" /\ UNCHANGED <<catalog, kind, shownId, login, tainted>>
    BY <1>7 DEF PublishDetails
  <2>2. details'.at = "done"
    BY <1>7, <1>t DEF PublishDetails, TypeInv, TypeOK, Idle
  <2>3. \/ shownData' = shownData
        \/ /\ shownId = details.job
           /\ shownData' \in {None, [of |-> details.of, server |-> details.server,
                                     id |-> details.job]}
    BY <1>7 DEF PublishDetails
  <2> QED
    BY <2>1, <2>2, <2>3 DEF DetailsInv, Settled
<1>8. CASE HandleLogin
  BY <1>8, DetailsFrame DEF HandleLogin, Settled
<1>9. CASE HandleSeries
  BY <1>9, DetailsFrame, DetailsCleared DEF HandleSeries, ClearDetails, Settled
<1>10. CASE HandleDetails
  BY <1>10, DetailsFrame DEF HandleDetails, Idle, Settled
<1>11. ASSUME NEW k \in Kind, SwitchContent(k) PROVE DetailsInv'
  BY <1>11, DetailsCleared DEF SwitchContent, ClearDetails
<1>12. CASE BackToSeries \/ Quit
  BY <1>12, DetailsCleared DEF BackToSeries, Quit, ClearDetails
<1>13. ASSUME NEW row \in Row, StartSeries(row) PROVE DetailsInv'
  BY <1>13, DetailsFrame DEF StartSeries, Settled
<1>14. ASSUME NEW row \in Row, OpenM3USeries(row) PROVE DetailsInv'
  BY <1>14, DetailsFrame DEF OpenM3USeries, Settled
<1>15. ASSUME NEW row \in Row, StartDetails(row) PROVE DetailsInv'
  <2>1. Settled => form = catalog
    BY <1>15
    DEF StartDetails, Browsing, ProfileInv, FormIsCatalog, PlaylistBehindScreen, Settled, Started
  <2>2. /\ UNCHANGED <<catalog, kind, login, tainted>> /\ shownData' = None
        /\ details'.of = catalog /\ details'.server = form
    BY <1>15 DEF StartDetails
  <2> QED
    BY <2>1, <2>2 DEF DetailsInv, Settled
<1>16. CASE CancelJoined
  BY <1>16, DetailsFrame, DetailsCleared DEF CancelJoined, ClearDetails, Idle, Settled
<1>17. CASE UNCHANGED vars
  BY <1>17, DetailsFrame DEF vars, Settled
<1> QED
  BY <1>1, <1>2, <1>3, <1>4, <1>5, <1>6, <1>7, <1>8, <1>9, <1>10, <1>11, <1>12, <1>13, <1>14,
     <1>15, <1>16, <1>17
  DEF Next, Worker, HandleAsync, Navigate, LoginScreen, Gone

\* Metadata beside an item of the catalog shown was fetched for that item,
\* from that catalog's own server, although a worker started for another
\* catalog may still publish: for any number of profiles and rows.
THEOREM DetailsOfShownAlways == Spec => []DetailsOfShown
<1>1. Init => ProfileInv /\ DetailsInv
  BY ProfileInit DEF Init, DetailsInv
<1>2. ProfileInv /\ DetailsInv /\ [Next]_vars => (ProfileInv /\ DetailsInv)'
  BY ProfileStep, DetailsStep
<1>3. DetailsInv => DetailsOfShown
  BY DEF DetailsInv, Settled, DetailsOfShown
<1> QED
  BY <1>1, <1>2, <1>3, PTL DEF Spec
====
