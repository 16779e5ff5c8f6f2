---- MODULE PlayerBridge ----
(***************************************************************************)
(* The player screen: entering and leaving it, the progress it records,    *)
(* the sources it falls back to and the full-screen window it asks for.    *)
(* Models src/ui_x11/x11_player_bridge.c, the player part of x11_input.c   *)
(* and of the loop of x11_app.c, with the progress tables of database.c.   *)
(* mpv is seen through the snapshot that MpvPlayer keeps, the window       *)
(* manager, which is external, through its queue of requests.              *)
(* The items with progress are the episodes of a series; a film is one     *)
(* whose series nobody asks for.                                           *)
(*                                                                         *)
(* A position is whether an item is in its last part (95 % or one minute), *)
(* or unknown while mpv has not told its length: the code reads no position *)
(* without one, nor that of a record that is complete.  Where mpv is asked *)
(* to resume is left out: it may report any position.  current_channel and *)
(* the failover mean nothing after the save of leave_player, and are       *)
(* forgotten here.                                                         *)
(***************************************************************************)
EXTENDS Naturals, FiniteSets, Sequences

CONSTANTS
  Live, Episode,        \* the items of the two lists
  Alternatives,         \* static fallback variants an item has
  MaxRequests,          \* requests for full screen before the fallback (4)
  MaxQueue,             \* bound: requests the window manager is behind with
  None

ASSUME BridgeAssumption ==
  /\ Live \cap Episode = {}
  /\ None \notin Live \cup Episode
  /\ IsFiniteSet(Episode)
  /\ {Alternatives, MaxQueue} \subseteq Nat /\ MaxRequests \in Nat \ {0}

\* No mpv; the item that was loaded; one before it, while its end is ignored
\* until the load has started; another item, whose events count; or one that
\* was stopped after its load had started, or before.
Reports == {"none", "item", "before", "other", "stopped", "crossed"}
Stopped == {"stopped", "crossed"}

Item == Live \cup Episode
Position == {"unknown", "early", "end"}
Record == {"open", "done"}
\* Its own stream, the variants, and the mirror.
Own == 0
Mirror == Alternatives + 1
Source == Own .. Mirror

VARIABLES
  screen,     \* "browse", "player", or "leaving": leave_player before its stop
  list,       \* the items of ACTIVE_CHANNELS
  item,       \* current_channel
  db,         \* progress of each item
  watched,    \* watched count of the series, None when not written yet
  flags,      \* progress_flags: the items cached as complete
  refused,    \* history: the save on leaving the player was refused
  loaded,     \* history: the flags of the list were read in full
  exact,      \* history: watched was written from such flags after the last record
  \* the snapshot of the player
  state,      \* "active" is opening, playing, buffering or paused: all count as running
  pos, ended,
  reports,    \* whose events mpv may send (below)
  \* failover
  attempt, mirrored,
  hasMirror,  \* an alternate server is configured and the primary is in use
  tries,      \* history: how often each source was loaded since enter_player
  \* the window
  requested, fullscreen, fallback, requests,
  wm,         \* the window manager shows the window in full screen
  queue,      \* requests it has not handled yet
  notified    \* a PropertyNotify is on its way

progress == <<db, watched, flags, refused, loaded, exact>>
snapshot == <<state, pos, ended, reports>>
failover == <<attempt, mirrored, tries>>
window == <<requested, fullscreen, fallback, requests>>
manager == <<wm, queue, notified>>
vars == <<screen, list, item, progress, snapshot, failover, hasMirror, window, manager>>

TypeOK ==
  /\ screen \in {"browse", "player", "leaving"}
  /\ list \in {Live, Episode}
  /\ item \in Item \cup {None}
  /\ db \in [Episode -> Record]
  /\ watched \in 0 .. Cardinality(Episode) \cup {None}
  /\ flags \in SUBSET Episode
  /\ state \in {"active", "error", "stopped"}
  /\ pos \in Position /\ reports \in Reports
  /\ {refused, loaded, exact, ended, mirrored, hasMirror} \subseteq BOOLEAN
  /\ attempt \in 0 .. Alternatives
  /\ tries \in [Source -> Nat]
  /\ {requested, fullscreen, fallback, wm, notified} \subseteq BOOLEAN
  /\ requests \in 0 .. MaxRequests
  /\ queue \in Seq({"add", "remove"})

Init ==
  /\ screen = "browse" /\ list = Live /\ item = None
  /\ db = [i \in Episode |-> "open"] /\ watched = None /\ flags = {}
  /\ refused = FALSE /\ loaded = FALSE /\ exact = FALSE
  /\ state = "stopped" /\ pos = "unknown" /\ ended = FALSE
  /\ reports = "none"
  /\ attempt = 0 /\ mirrored = FALSE /\ hasMirror \in BOOLEAN
  /\ tries = [s \in Source |-> 0]
  /\ requested = FALSE /\ fullscreen = FALSE /\ fallback = FALSE /\ requests = 0
  /\ wm = FALSE /\ queue = <<>> /\ notified = FALSE

----
(* The window.                                                             *)

\* set_fullscreen; the answer of the window manager may be the one to an
\* earlier request.
SetFullscreen(enable) ==
  /\ Len(queue) < MaxQueue
  /\ requested' = enable
  /\ queue' = Append(queue, IF enable THEN "add" ELSE "remove")
  /\ requests' = IF enable THEN 1 ELSE 0
  /\ fallback' = FALSE
  /\ fullscreen' = (enable /\ wm)
  /\ UNCHANGED <<wm, notified>>

\* F11, on any screen.
ToggleFullscreen ==
  /\ screen /= "leaving"
  /\ SetFullscreen(~requested)
  /\ UNCHANGED <<screen, list, item, progress, snapshot, failover, hasMirror>>

\* maybe_enforce_fullscreen, when its 140 or 160 ms have passed.
Enforce ==
  /\ screen /= "leaving"
  /\ requested /\ ~fullscreen
  /\ \/ wm /\ fullscreen' = TRUE /\ UNCHANGED <<requests, fallback, queue>>
     \/ /\ ~wm /\ requests < MaxRequests /\ Len(queue) < MaxQueue
        /\ queue' = Append(queue, "add") /\ requests' = requests + 1
        /\ UNCHANGED <<fullscreen, fallback>>
     \/ /\ ~wm /\ requests = MaxRequests
        /\ fallback' = TRUE /\ fullscreen' = TRUE
        /\ UNCHANGED <<requests, queue>>
  /\ UNCHANGED <<screen, list, item, progress, snapshot, failover, hasMirror, requested, wm,
                 notified>>

Granted == fullscreen \/ wm
Reported == wm \/ fallback

\* handle_property_event.
PropertyNotify ==
  /\ screen /= "leaving" /\ notified
  /\ notified' = FALSE
  /\ fullscreen' = Reported
  /\ UNCHANGED <<screen, list, item, progress, snapshot, failover, hasMirror, requested, fallback,
                 requests, wm, queue>>

\* The window manager takes one request: it may not grant full screen, and
\* always ends it.
Manage ==
  /\ queue /= <<>>
  /\ queue' = Tail(queue)
  /\ wm' \in IF Head(queue) = "add" THEN {TRUE, wm} ELSE {FALSE}
  /\ notified' = (notified \/ wm' /= wm)
  /\ UNCHANGED <<screen, list, item, progress, snapshot, failover, hasMirror, window>>

----
(* Progress.                                                               *)

NearEnd == pos = "end"
Completed == ended \/ NearEnd

\* progress_snapshot_valid; the five seconds between two saves may have passed.
SnapshotValid ==
  /\ item \in Episode
  /\ ~(ended /\ item \in flags)
  /\ pos /= "unknown" \/ ended

\* update_progress_cache.
Cached == IF Completed THEN flags \cup {item} ELSE flags \ {item}

\* update_series_progress, after the cache.
WatchedBefore == Cardinality(flags)
WatchedNow == Cardinality(Cached)

\* save_current_progress(force = TRUE).  Each of its two writes may be refused; ok is
\* the result of the first.
SaveProgress(ok) ==
  \/ ~SnapshotValid /\ ok /\ UNCHANGED <<db, watched, flags, loaded, exact>>
  \/ SnapshotValid /\ ~ok /\ UNCHANGED <<db, watched, flags, loaded, exact>>
  \/ /\ SnapshotValid /\ ok
     /\ db' = [db EXCEPT ![item] = IF Completed THEN "done" ELSE "open"]
     /\ flags' = Cached /\ UNCHANGED loaded
     /\ \/ watched' = WatchedNow /\ exact' = loaded
        \/ exact' = FALSE /\ UNCHANGED watched

\* The pause key, its button, and every turn of the loop; the latter only five
\* seconds after the last save, or when the item has ended.
Save ==
  /\ screen = "player" /\ SaveProgress(TRUE)
  /\ UNCHANGED <<screen, list, refused, item, snapshot, failover, hasMirror, window, manager>>

\* Another list: load_media_state; the flags stay empty when the query fails.
OpenList(l) ==
  /\ screen = "browse"
  /\ list' = l
  /\ \/ flags' = {i \in l \cap Episode : db[i] = "done"}
     \/ flags' = {}
  /\ loaded' = (flags' = {i \in l \cap Episode : db[i] = "done"})
  /\ UNCHANGED <<screen, item, db, watched, refused, exact, snapshot, failover, hasMirror, window,
                 manager>>

----
(* Entering, leaving, and other sources.                                   *)

\* vip_mpv_player_load: sent to mpv; or not taken by it, which goes on with
\* what it did; or mpv cannot be started, or its socket does not come up.
Load ==
  \/ /\ state' = "active" /\ pos' = "unknown" /\ ended' = FALSE
     /\ reports' = CASE reports = "none" -> "item"
                     [] reports \in {"crossed", "other"} -> "other"
                     [] OTHER -> "before"
  \/ /\ state' = "error" /\ pos' = "unknown" /\ ended' = FALSE
     /\ reports' = IF reports = "none" THEN "item" ELSE "other"
  \/ /\ state' \in {state, "error"} /\ UNCHANGED <<pos, ended>>
     /\ reports' \in IF reports = "none" THEN {"none", "item"} ELSE {reports}

\* prepare_player_screen and enter_player, but for the window.
Open(i) ==
  /\ item' = i /\ screen' = "player"
  /\ attempt' = 0 /\ mirrored' = FALSE
  /\ tries' = [s \in Source |-> IF s = Own THEN 1 ELSE 0]
  /\ Load
  /\ refused' = FALSE
  /\ UNCHANGED <<list, db, watched, flags, loaded, exact, hasMirror>>

Enter(i) ==
  /\ screen = "browse" /\ i \in list
  /\ Open(i)
  /\ \/ ~requested /\ SetFullscreen(TRUE)
     \/ requested /\ UNCHANGED <<window, manager>>

\* Left and Right while a live channel is open: no progress is recorded.
SwitchChannel(i) ==
  /\ screen = "player" /\ item \in Live /\ i \in Live
  /\ Open(i)
  /\ \/ ~requested /\ SetFullscreen(TRUE)
     \/ requested /\ UNCHANGED <<window, manager>>

\* leave_player: the progress is saved ...
LeaveSave ==
  /\ screen = "player" /\ screen' = "leaving"
  /\ \E ok \in BOOLEAN : SaveProgress(ok) /\ refused' = ~ok
  /\ item' = None /\ attempt' = 0 /\ mirrored' = FALSE /\ tries' = [s \in Source |-> 0]
  /\ UNCHANGED <<list, snapshot, hasMirror, window, manager>>

\* ... before stop clears the snapshot, and with it what mpv said in between.
LeaveStop ==
  /\ screen = "leaving" /\ screen' = "browse"
  /\ state' = "stopped" /\ pos' = "unknown" /\ ended' = FALSE
  /\ reports' = CASE reports \in {"before", "other"} -> "crossed"
                  [] reports = "item" -> "stopped"
                  [] OTHER -> reports
  /\ \/ (requested \/ fullscreen) /\ SetFullscreen(FALSE)
     \/ ~requested /\ ~fullscreen /\ UNCHANGED <<window, manager>>
  /\ refused' = FALSE
  /\ UNCHANGED <<list, item, db, watched, flags, loaded, exact, failover, hasMirror>>

Failed == screen = "player" /\ state = "error"

LoadSource(s) == Load /\ tries' = [tries EXCEPT ![s] = @ + 1]

SameAttempt == attempt
NextAttempt == attempt + 1

VariantUpTo == attempt <= Alternatives
VariantLeft == attempt < Alternatives

\* try_static_player_fallback: only M3U items have variants, and only Xtream
\* servers a mirror.
LoadVariant ==
  /\ Failed /\ VariantLeft /\ ~hasMirror
  /\ attempt' = NextAttempt
  /\ LoadSource(attempt + 1)
  /\ UNCHANGED <<screen, list, item, progress, mirrored, hasMirror, window, manager>>

\* try_xtream_player_mirror, after the variants or when they cannot be fetched.
\* (Without a mirror it sets its flag, too, which nothing else reads then.)
LoadMirror ==
  /\ Failed /\ hasMirror /\ ~mirrored
  /\ mirrored' = TRUE
  /\ LoadSource(Mirror)
  /\ UNCHANGED <<screen, list, item, progress, attempt, hasMirror, window, manager>>

----
(* mpv, as its monitor thread shows it.                                    *)

Shows == UNCHANGED <<screen, list, item, progress, failover, hasMirror, window, manager>>

\* A position or duration of an item that is not the one that was loaded.
StaleEvent ==
  /\ reports \notin {"none", "item"}
  /\ pos' \in Position
  /\ Shows /\ UNCHANGED <<state, ended, reports>>

Started ==
  /\ reports \in {"before", "other"}
  /\ state' = "active" /\ reports' = "item"
  /\ Shows /\ UNCHANGED <<pos, ended>>

Running == reports = "other" \/ (reports = "item" /\ state = "active")

Plays ==
  /\ Running
  /\ state' = "active" /\ pos' \in (Position \ {"unknown"}) \cup {pos}
  /\ Shows /\ UNCHANGED <<ended, reports>>

\* end-file: the end was reached, ...
Ends ==
  /\ Running \/ reports \in Stopped
  /\ state' = "stopped" /\ ended' = TRUE
  /\ Shows /\ UNCHANGED <<pos, reports>>

\* ... the item could not be opened or read, ...
Breaks ==
  /\ Running \/ reports \in Stopped
  /\ state' = "error"
  /\ Shows /\ UNCHANGED <<pos, ended, reports>>

\* ... or mpv left it for another or at a stop.
Halts ==
  /\ reports \in Stopped \cup {"other"}
  /\ state' = "stopped"
  /\ Shows /\ UNCHANGED <<pos, ended, reports>>

\* The monitor ends because mpv did, whatever the item does, also after its end.
Dies ==
  /\ reports /= "none"
  /\ state' = "error" /\ reports' = "none"
  /\ Shows /\ UNCHANGED <<pos, ended>>

Next ==
  \/ ToggleFullscreen \/ Enforce \/ PropertyNotify \/ Manage
  \/ Save \/ LeaveSave \/ LeaveStop \/ LoadVariant \/ LoadMirror
  \/ \E l \in {Live, Episode} : OpenList(l)
  \/ \E i \in Item : Enter(i) \/ SwitchChannel(i)
  \/ StaleEvent \/ Started \/ Plays \/ Ends \/ Breaks \/ Halts \/ Dies

Spec == Init /\ [][Next]_vars

----
(* Properties.                                                             *)

\* An item whose end mpv reported before the user leaves it is recorded as
\* complete, whichever of the loop and the key sees the end first, unless the
\* database refuses the record.  An end that comes between the save of
\* leave_player and its stop is lost.
EndIsRecorded ==
  [][(screen = "player" /\ item \in Episode /\ ended /\ screen' = "leaving") =>
       (db'[item] = "done" \/ refused')]_vars

\* The count of watched episodes stored for a series is that of the records of
\* its episodes, after any sequence of films and lists in between, unless the
\* database refused the count or the flags.
WatchedExact ==
  (exact /\ watched /= None) => watched = Cardinality({i \in Episode : db[i] = "done"})

\* However mpv fails, no source of an item is opened twice.
EachSourceOnce == \A s \in Source : tries[s] <= 1

\* With no request or notification under way the program knows whether its
\* window fills the screen.
FullscreenAgrees ==
  (queue = <<>> /\ ~notified) => fullscreen = (wm \/ fallback)
====
