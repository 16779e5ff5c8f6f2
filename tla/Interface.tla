---- MODULE Interface ----
(***************************************************************************)
(* The interface thread and its three workers: login (replaces the         *)
(* catalogs), series (fetches the seasons and episodes of one series) and  *)
(* details (fetches the metadata of the focused item).  Models             *)
(* src/ui_x11/x11_workers.c, x11_catalog.c, the navigation of x11_input.c  *)
(* and the loop and shutdown of x11_app.c.                                 *)
(*                                                                         *)
(* The workers write the shared lists under data_mutex whenever they are   *)
(* ready; the interface thread keeps indices into those lists (the filter, *)
(* the favourite flags, the category counts, the channel being played) and *)
(* recomputes them when it takes a result over.  A list is named by what   *)
(* it holds, so that an index remembers which list it was made for.        *)
(***************************************************************************)
EXTENDS Naturals

CONSTANTS
  Profile,   \* lists a user may log into
  M3U,       \* those that are M3U playlists; the others are Xtream servers
  Row,       \* positions in a list
  PlainRow,  \* rows of an M3U series catalog that are no episode
  Kind,      \* the catalogs considered, of "live", "vod" and "series"
  None

ASSUME InterfaceAssumption ==
  /\ M3U \subseteq Profile
  /\ PlainRow \subseteq Row
  /\ {"live", "series"} \subseteq Kind /\ Kind \subseteq {"live", "vod", "series"}
  /\ None \notin Profile

\* The lists: three per catalog, and the seasons and episodes of a series.
CatalogList == [of : Profile, what : Kind]
Series == [of : Profile, row : Row]
EpisodeList == [series : Series, what : {"seasons", "episodes"}]

\* Nothing is loaded yet; an empty list.
NoList == [what |-> "nothing"]
NoSeries == [row |-> None]
List == CatalogList \cup EpisodeList \cup {NoList}

VARIABLES
  screen,     \* the screen shown
  ui,         \* "loop", or waiting in pthread_join before it goes on
  form,       \* the profile the fields of the login form hold
  catalog,    \* the profile whose catalogs are loaded
  kind,       \* content_kind
  episode,    \* series_episode_mode and series_season_select
  parent,     \* series_parent_id
  episodesOf, \* the series whose seasons and episodes are loaded
  derived,    \* the lists that the filter, and the flags and counts, were computed from
  playing,    \* the list current_channel is an index into; nothing outside the player
  login, series, details,  \* the workers: where they stand, what they work on
  shownId, shownData,      \* details_media_id, and whose metadata is shown
  tainted     \* history: form and catalogs may differ (see Tainted below)

lists == <<catalog, kind, episode, episodesOf>>
shown == <<shownId, shownData>>
workers == <<login, series, details>>
vars == <<screen, ui, form, lists, parent, derived, playing, workers, shown, tainted>>

\* The list that ACTIVE_CHANNELS denotes.
ActiveList ==
  IF episode /= "no" THEN [series |-> episodesOf, what |-> episode]
  ELSE IF catalog = None THEN NoList
  ELSE [of |-> catalog, what |-> kind]

\* What details are requested for: the identifier does not name the server.
IdOf(list, row) == [what |-> list.what, row |-> row]
DetailsId == [what : {"vod", "series"}, row : Row]

Idle == [at |-> "none", job |-> None]

TypeOK ==
  /\ screen \in {"login", "browse", "player"}
  /\ ui \in {"loop", "cancel", "gone"}
  /\ form \in Profile \cup {None}
  /\ catalog \in Profile \cup {None}
  /\ kind \in Kind
  /\ episode \in {"no", "seasons", "episodes"}
  /\ {parent, episodesOf} \subseteq Series \cup {NoSeries}
  /\ derived \in [filter : List, flags : List]
  /\ playing \in List
  /\ login \in {Idle} \cup [at : {"work", "ok", "failed"}, job : Profile]
  /\ series \in {Idle} \cup
       [at : {"work", "ok", "failed"}, job : Series, server : Profile]
  /\ details \in {Idle} \cup
       [at : {"work", "done"}, job : DetailsId, of : Profile, server : Profile]
  /\ shownId \in DetailsId \cup {None}
  /\ shownData \in [of : Profile, server : Profile, id : DetailsId] \cup {None}
  /\ tainted \in BOOLEAN

Init ==
  /\ screen = "login" /\ ui = "loop" /\ form = None
  /\ catalog = None /\ kind = "live" /\ episode = "no"
  /\ parent = NoSeries /\ episodesOf = NoSeries
  /\ derived = [filter |-> NoList, flags |-> NoList]
  /\ playing = NoList
  /\ login = Idle /\ series = Idle /\ details = Idle
  /\ shownId = None /\ shownData = None
  /\ tainted = FALSE

----
(* Pieces of handlers.                                                     *)

Started(worker) == worker.at /= "none"
Running(worker) == worker.at = "work"

RebuildFilter == derived' = [derived EXCEPT !.filter = ActiveList']

\* recalc_category_counts, load_media_state and rebuild_filter.
Refresh == derived' = [filter |-> ActiveList', flags |-> ActiveList']

EmptyDetails == shownData' = None /\ UNCHANGED shownId
ClearDetails == shownId' = None /\ shownData' = None

InM3UMode == form \in M3U

\* cached_m3u_matches: publish keeps cached_m3u_server equal to the loaded M3U.
CachedMatches == form \in M3U /\ catalog = form

\* start_login with the form's new value: launch, reuse what is loaded, or
\* nothing while a login runs or has not been taken over.
Launch ==
  /\ form' /= None /\ ~Started(login)
  /\ login' = [at |-> "work", job |-> form']
  /\ UNCHANGED <<screen, derived, playing>>

Resume ==
  /\ ~Started(login) /\ CachedMatches'
  /\ screen' = "browse" /\ playing' = NoList
  /\ Refresh
  /\ UNCHANGED login

StartLogin(force) ==
  \/ (force \/ ~CachedMatches') /\ Launch
  \/ ~force /\ Resume
  \/ (Started(login) \/ form' = None) /\ UNCHANGED <<login, screen, derived, playing>>

----
(* The login screen.                                                       *)

AtLogin == ui = "loop" /\ screen = "login"

\* Typing, pasting, or changing the mode, at any time.
EditForm ==
  /\ AtLogin
  /\ form' \in Profile \ {form}
  /\ UNCHANGED <<screen, ui, lists, parent, derived, playing, workers, shown, tainted>>

\* load_profile_into_form, refused while a login runs.
LoadProfile(p) ==
  \/ ~Running(login) /\ form' = p
  \/ Running(login) /\ UNCHANGED form

\* A saved profile is activated, by key or (if it is the one loaded) by click.
ActivateProfile(p) ==
  /\ AtLogin
  /\ LoadProfile(p)
  /\ UNCHANGED <<ui, lists, parent, series, details, shown, tainted>>
  /\ StartLogin(FALSE)

Connect ==
  /\ AtLogin
  /\ UNCHANGED form
  /\ UNCHANGED <<ui, lists, parent, series, details, shown, tainted>>
  /\ StartLogin(TRUE)

----
(* The workers.                                                            *)

\* The server whose catalogs are published is the job's, or the one that the
\* resolver gave for it.  The worker writes that one into the form's server
\* field, whatever the form has become: a field of the profile being edited.
Resolved ==
  /\ login.job \notin M3U
  /\ catalog' \in Profile \ M3U
  /\ form' \in IF form = login.job THEN {catalog'} ELSE IF InM3UMode THEN M3U ELSE Profile \ M3U

AsAsked == catalog' = login.job /\ UNCHANGED form

\* All three catalogs are swapped in one critical section, with the view's
\* mode; the indices of the interface thread are left as they are.
PublishLogin ==
  /\ login.at = "work"
  /\ login' = [login EXCEPT !.at = "ok"]
  /\ AsAsked \/ Resolved
  /\ kind' = "live" /\ episode' = "no"
  /\ UNCHANGED <<screen, ui, parent, episodesOf, derived, playing, series, details, shown,
                 tainted>>

FailLogin ==
  /\ login.at = "work"
  /\ login' = [login EXCEPT !.at = "failed"]
  /\ UNCHANGED <<screen, ui, form, lists, parent, derived, playing, series, details, shown,
                 tainted>>

\* The episodes come from the server that the form held at the start.
PublishSeries ==
  /\ series.at = "work"
  /\ series' = [series EXCEPT !.at = "ok"]
  /\ episodesOf' = [series.job EXCEPT !.of = series.server]
  /\ UNCHANGED <<screen, ui, form, catalog, kind, episode, parent, derived, playing, login,
                 details, shown, tainted>>

FailSeries ==
  /\ series.at = "work"
  /\ series' = [series EXCEPT !.at = "failed"]
  /\ UNCHANGED <<screen, ui, form, lists, parent, derived, playing, login, details, shown,
                 tainted>>

\* Published only if the view still waits for this identifier; a failure
\* leaves no metadata.
PublishDetails ==
  /\ details.at = "work"
  /\ details' = [details EXCEPT !.at = "done"]
  /\ \/ /\ shownId = details.job
        /\ shownData' \in {None, [of |-> details.of, server |-> details.server,
                                  id |-> details.job]}
     \/ shownId /= details.job /\ UNCHANGED shownData
  /\ UNCHANGED <<screen, ui, form, lists, parent, derived, playing, login, series,
                 shownId, tainted>>

----
(* Taking results over: handle_async.                                      *)

\* handle_pairing_async: a phone's submission fills the form and logs in,
\* whatever screen is shown: a pairing started on the login screen goes on
\* when the user leaves it.  (The pairing itself is in Pairing.)
TakeSubmission ==
  /\ ui = "loop"
  /\ \E p \in M3U : form' = p
  /\ UNCHANGED <<ui, lists, parent, series, details, shown>>
  /\ StartLogin(FALSE)
  /\ tainted' = (tainted \/ screen /= "login")

HandleLogin ==
  /\ ui = "loop" /\ login.at = "ok"
  /\ login' = Idle
  /\ screen' = "browse" /\ playing' = NoList
  /\ tainted' = (form /= catalog)
  /\ UNCHANGED <<ui, form, lists, parent, series, details, shown>>
  /\ Refresh

HandleFailedLogin ==
  /\ ui = "loop" /\ login.at = "failed"
  /\ login' = Idle
  /\ UNCHANGED <<screen, ui, form, lists, parent, derived, playing, series, details, shown,
                 tainted>>

SeriesJoined == series.at \in {"ok", "failed"}
SeriesLoaded == series.at = "ok"

HandleSeries ==
  /\ ui = "loop" /\ SeriesJoined
  /\ series' = Idle
  /\ UNCHANGED <<screen, ui, form, catalog, kind, parent, episodesOf, playing,
                 login, details, tainted>>
  /\ \/ /\ SeriesLoaded /\ screen = "browse" /\ kind = "series"
        /\ ClearDetails
        /\ episode' = "seasons"
        /\ Refresh
     \/ /\ ~SeriesLoaded \/ screen /= "browse" \/ kind /= "series"
        /\ UNCHANGED <<shown, episode, derived>>

HandleDetails ==
  /\ ui = "loop" /\ details.at = "done"
  /\ details' = Idle
  /\ UNCHANGED <<screen, ui, form, lists, parent, derived, playing, login, series, shown,
                 tainted>>

----
(* The browse screen.                                                      *)

Browsing == ui = "loop" /\ screen = "browse"

\* A tab, a click, or Ctrl+1/2/3: refused until a series worker is joined.
SwitchContent(k) ==
  /\ Browsing /\ ~Started(series)
  /\ kind' = k /\ episode' = "no"
  /\ ClearDetails
  /\ UNCHANGED <<screen, ui, form, catalog, episodesOf, parent, playing, workers, tainted>>
  /\ Refresh

\* A category, the favourites or a search: another selection of the same list.
Select ==
  /\ Browsing
  /\ UNCHANGED <<screen, ui, form, lists, parent, playing, workers, shown, tainted>>
  /\ RebuildFilter

\* return_from_episode_list.
BackToSeasons ==
  /\ Browsing /\ episode = "episodes"
  /\ episode' = "seasons"
  /\ UNCHANGED <<screen, ui, form, catalog, kind, episodesOf, parent, playing,
                 workers, shown, tainted>>
  /\ Refresh

BackToSeries ==
  /\ Browsing /\ episode = "seasons"
  /\ episode' = "no"
  /\ ClearDetails
  /\ UNCHANGED <<screen, ui, form, catalog, kind, episodesOf, parent, playing, workers,
                 tainted>>
  /\ Refresh

SelectSeason ==
  /\ Browsing /\ kind = "series" /\ episode = "seasons"
  /\ episode' = "episodes"
  /\ UNCHANGED <<screen, ui, form, catalog, kind, episodesOf, parent, playing,
                 workers, shown, tainted>>
  /\ Refresh

AtSeries == Browsing /\ kind = "series" /\ episode = "no" /\ catalog /= None

\* start_series_load, with the server and account of the form.
StartSeries(row) ==
  /\ AtSeries /\ ~InM3UMode /\ form /= None
  /\ ~Started(series)
  /\ parent' = [of |-> catalog, row |-> row]
  /\ series' = [at |-> "work", job |-> [of |-> catalog, row |-> row], server |-> form]
  /\ UNCHANGED <<screen, ui, form, lists, derived, playing, login, details, shown, tainted>>

\* start_m3u_series_load: the episodes are collected from the catalog at once.
OpenM3USeries(row) ==
  /\ AtSeries /\ InM3UMode /\ row \notin PlainRow
  /\ parent' = [of |-> catalog, row |-> row]
  /\ episodesOf' = [of |-> catalog, row |-> row]
  /\ episode' = "seasons"
  /\ UNCHANGED <<screen, ui, form, catalog, kind, playing, workers, shown, tainted>>
  /\ Refresh

\* A channel, a film, an episode, or a row of an M3U series catalog that is
\* no episode.
Play ==
  /\ Browsing /\ ActiveList /= NoList
  /\ \/ kind /= "series"
     \/ episode = "episodes"
     \/ AtSeries /\ InM3UMode /\ PlainRow /= {}
  /\ screen' = "player"
  /\ playing' = ActiveList
  /\ UNCHANGED <<ui, form, lists, parent, derived, workers, shown, tainted>>

\* leave_player.
LeavePlayer ==
  /\ ui = "loop" /\ screen = "player"
  /\ screen' = "browse" /\ playing' = NoList
  /\ UNCHANGED <<ui, form, lists, parent, workers, shown, tainted>>
  /\ RebuildFilter

\* maybe_start_details_load, for the row in focus.
StartDetails(row) ==
  /\ Browsing /\ form \in Profile \ M3U /\ episode = "no" /\ kind \in {"vod", "series"}
  /\ ActiveList /= NoList /\ ~Started(details)
  /\ shownId /= IdOf(ActiveList, row)
  /\ shownId' = IdOf(ActiveList, row) /\ shownData' = None
  /\ details' = [at |-> "work", job |-> IdOf(ActiveList, row), of |-> catalog, server |-> form]
  /\ UNCHANGED <<screen, ui, form, lists, parent, derived, playing, login, series, tainted>>

\* Ctrl+L goes to the login screen and leaves the workers alone.
ShowLogin ==
  /\ Browsing
  /\ screen' = "login"
  /\ UNCHANGED <<ui, form, lists, parent, derived, playing, workers, shown, tainted>>

\* Back and Lists wait for the workers first; Lists also clears the details.
CancelBrowse ==
  /\ Browsing
  /\ ui' = "cancel"
  /\ UNCHANGED <<screen, form, lists, parent, derived, playing, workers, shown, tainted>>

CancelJoined ==
  /\ ui = "cancel" /\ ~Running(series) /\ ~Running(details)
  /\ ui' = "loop" /\ screen' = "login"
  /\ series' = Idle /\ details' = Idle
  /\ ClearDetails \/ UNCHANGED shown
  /\ UNCHANGED <<form, lists, parent, derived, playing, login, tainted>>

\* The window is closed: destroy_app joins every worker (whatever they still
\* publish is seen by nobody) and frees everything.
Quit ==
  /\ ui = "loop"
  /\ ui' = "gone"
  /\ login' = Idle /\ series' = Idle /\ details' = Idle
  /\ screen' = "login" /\ form' = None /\ catalog' = None /\ kind' = "live"
  /\ episode' = "no" /\ parent' = NoSeries /\ episodesOf' = NoSeries
  /\ derived' = [filter |-> NoList, flags |-> NoList] /\ playing' = NoList
  /\ ClearDetails
  /\ UNCHANGED tainted

Gone == ui = "gone" /\ UNCHANGED vars

Worker == PublishLogin \/ FailLogin \/ PublishSeries \/ FailSeries \/ PublishDetails
HandleAsync == HandleLogin \/ HandleFailedLogin \/ HandleSeries \/ HandleDetails
Navigate ==
  \/ \E k \in Kind : SwitchContent(k)
  \/ Select \/ BackToSeasons \/ BackToSeries \/ SelectSeason
  \/ \E row \in Row : StartSeries(row) \/ OpenM3USeries(row) \/ StartDetails(row)
  \/ Play \/ LeavePlayer \/ ShowLogin \/ CancelBrowse
LoginScreen == EditForm \/ (\E p \in Profile : ActivateProfile(p)) \/ Connect

Next ==
  \/ Worker \/ HandleAsync \/ Navigate \/ LoginScreen
  \/ TakeSubmission \/ CancelJoined \/ Quit \/ Gone

Spec == Init /\ [][Next]_vars

----
(* Properties.                                                             *)

\* Tainted: since the last login that ended with the form as it published, a
\* phone's submission arrived outside the login screen, or the form was edited
\* while the login ran.  The code allows both, and then the form (whose mode,
\* server and account later requests use) and the catalogs are of different
\* profiles until the next login.

Agree ==
  /\ screen = "browse" => derived.filter = ActiveList /\ derived.flags = ActiveList
  /\ screen = "player" => playing = ActiveList

\* The indices the interface thread keeps are into the list they are used on:
\* filter, favourite flags and category counts while browsing, the channel
\* being played while in the player, although workers replace the lists and a
\* login may end behind any screen.  While form and catalogs differ this is
\* not so for episodes, which a series worker may still swap behind the player,
\* nor between a publication and its take-over by the loop: the swap leaves
\* the indices, and a handler that runs before handle_async uses them on the
\* lists of the new login.
IndicesAgree == (~tainted \/ (login.at /= "ok" /\ episode = "no")) => Agree

\* The episodes on the screen are those of the series that was opened, from
\* the server it is listed by: progress is summed up under that series.
EpisodesOfParent ==
  (~tainted /\ screen = "browse" /\ episode /= "no") =>
    episodesOf = parent /\ parent.of = catalog

\* Metadata shown beside an item of the current catalog was fetched for that
\* item, from its own server: identifiers of two servers may be equal, and a
\* worker of the catalog before may still be running.
DetailsOfShown ==
  (~tainted /\ screen = "browse" /\ shownId /= None /\ shownData /= None /\ form \notin M3U
     /\ episode = "no" /\ kind = shownId.what) =>
    shownData = [of |-> catalog, server |-> catalog, id |-> shownId]
====
