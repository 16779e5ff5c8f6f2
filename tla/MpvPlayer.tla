------------------------------- MODULE MpvPlayer -------------------------------
(***************************************************************************)
(* The mpv adapter of src/src/player_mpv/player_mpv.c: the user-interface   *)
(* thread that loads, stops and pauses, the monitor thread that reads      *)
(* mpv's events and notices its death, and mpv itself (external, as the    *)
(* adapter and the fake mpv of src/tests/test_player_mpv.c expect it: it   *)
(* runs commands in their order and emits end-file for the item it         *)
(* replaces before start-file for the new one).                            *)
(*                                                                         *)
(* Every action of the two threads is one critical section of `mutex`, or  *)
(* one write to the socket.  Items are numbered in the order of the loads; *)
(* the adapter does not know these numbers.  Positions (the resume seek    *)
(* among them), volume and the codec fields are left out.                  *)
(***************************************************************************)
EXTENDS Integers, Sequences, FiniteSets

CONSTANTS
  MaxLoads,    (* bounds: loads, stops, failures (mpv dies, or takes no       *)
  MaxStops,    (* command), and pauses and other property changes in one      *)
  MaxFailures, (* behaviour                                                   *)
  MaxChanges

ASSUME PlayerAssumption ==
  MaxLoads \in Nat /\ MaxStops \in Nat /\ MaxFailures \in Nat /\ MaxChanges \in Nat

VARIABLES
  (* the snapshot                                                          *)
  media_running, stop_requested, paused, buffering, natural_end, state,
  pending,        (* pending_load_starts                                      *)
  requested,      (* the item of the last load                                *)
  (* the runtime                                                           *)
  runtime_running, monitor_started, shutting_down,
  ipc,            (* ipc_fd >= 0                                              *)
  monitor,        (* where the monitor thread stands                          *)
  (* the user-interface thread                                             *)
  ui,             (* where it stands in load, stop, set_paused or destroy     *)
  wish,           (* the pause it wants from mpv                              *)
  (* mpv and the socket                                                    *)
  alive,
  playing,        (* the item mpv opened, 0 when idle                         *)
  loaded,         (* ... and whether file-loaded was emitted for it           *)
  mpv_paused,     (* mpv's `pause` property                                   *)
  cmds, evts,     (* the two directions of the socket                         *)
  loads, stops, failures, changes   (* how often, against the bounds           *)

snapshot == <<media_running, stop_requested, paused, buffering, natural_end, state,
              pending, requested>>
runtime == <<runtime_running, monitor_started, shutting_down, ipc, monitor>>
player == <<snapshot, runtime>>
caller == <<ui, wish>>
mpv == <<alive, playing, loaded, mpv_paused, cmds>>
counts == <<loads, stops, failures, changes>>
vars == <<player, caller, mpv, evts, counts>>

Active == {"OPENING", "BUFFERING", "PLAYING", "PAUSED"}
Items == 1..MaxLoads

LoadfileCommand == [op : {"loadfile"}, item : Items]
StartFileEvent == [event : {"start-file"}, item : Items]

Command ==
  LoadfileCommand \cup [op : {"stop"}] \cup [op : {"pause"}, on : BOOLEAN]

Event ==
  StartFileEvent
    \cup [event : {"file-loaded"}, item : Items]
    \cup [event : {"end-file"}, item : Items, reason : {"eof", "stop", "error"}]
    \cup [event : {"pause", "paused-for-cache"}, on : BOOLEAN]

TypeOK ==
  /\ {media_running, stop_requested, paused, buffering, natural_end} \subseteq BOOLEAN
  /\ {runtime_running, monitor_started, shutting_down, ipc} \subseteq BOOLEAN
  /\ {wish, alive, loaded, mpv_paused} \subseteq BOOLEAN
  /\ state \in Active \cup {"IDLE", "ERROR", "STOPPED"}
  /\ pending \in Nat
  /\ {requested, playing} \subseteq Items \cup {0}
  /\ monitor \in {"none", "polling", "closing", "quitting", "exited"}
  /\ ui \in {"idle", "ensure", "await", "queue", "send", "failed", "stop", "pause",
             "shutdown", "join", "gone"}
  /\ cmds \in Seq(Command) /\ evts \in Seq(Event)
  /\ loads \in 0..MaxLoads /\ stops \in 0..MaxStops
  /\ failures \in 0..MaxFailures /\ changes \in 0..MaxChanges

--------------------------------------------------------------------------------
(* Helpers.                                                                *)

(* update_state_from_flags_locked with the flags it will see.              *)
FromFlags(running, isBuffering, isPaused) ==
  CASE ~running -> state
    [] running /\ isBuffering -> "BUFFERING"
    [] running /\ ~isBuffering /\ isPaused -> "PAUSED"
    [] OTHER -> "PLAYING"

Connected == runtime_running /\ ipc

(* player_write_line: the line goes to mpv whole, or the call fails: there *)
(* is no mpv, or the one that lives has not read for 250 ms and its socket *)
(* is full (or the line could not be built).                               *)
Write(command, sent) ==
  \/ sent /\ Connected /\ alive
     /\ cmds' = Append(cmds, command) /\ UNCHANGED failures
  \/ ~sent /\ ~(Connected /\ alive)
     /\ UNCHANGED <<cmds, failures>>
  \/ ~sent /\ Connected /\ alive
     /\ failures < MaxFailures /\ failures' = failures + 1 /\ UNCHANGED cmds

Init ==
  /\ media_running = FALSE /\ stop_requested = FALSE /\ paused = FALSE
  /\ buffering = FALSE /\ natural_end = FALSE
  /\ state = "IDLE"
  /\ pending = 0 /\ requested = 0
  /\ runtime_running = FALSE /\ monitor_started = FALSE /\ shutting_down = FALSE /\ ipc = FALSE
  /\ monitor = "none"
  /\ ui = "idle" /\ wish = FALSE
  /\ alive = FALSE /\ playing = 0 /\ loaded = FALSE /\ mpv_paused = FALSE
  /\ cmds = <<>> /\ evts = <<>>
  /\ loads = 0 /\ stops = 0 /\ failures = 0 /\ changes = 0

--------------------------------------------------------------------------------
(* The user-interface thread: player_load_at_internal.                     *)

(* join_old_monitor.                                                       *)
Load ==
  LET joinable == monitor_started /\ ~runtime_running
  IN  /\ ui = "idle"
      /\ loads < MaxLoads
      /\ loads' = loads + 1
      /\ ui' = "ensure"
      /\ monitor_started' = (monitor_started /\ ~joinable)
      /\ monitor' = IF joinable THEN "none" ELSE monitor
      /\ UNCHANGED <<snapshot, runtime_running, shutting_down, ipc,
                     wish, mpv, evts, stops, failures, changes>>

(* ensure_runtime looks at runtime_running on its own, after the join.     *)
EnsureRunning ==
  /\ ui = "ensure"
  /\ runtime_running
  /\ ui' = "await"
  /\ UNCHANGED <<player, wish, mpv, evts, counts>>

(* A new mpv and a new monitor, whose handle replaces the old one's, even  *)
(* if that one ended after the join looked and was not joined.             *)
Spawn ==
  /\ ui = "ensure"
  /\ ~runtime_running
  /\ ui' = "await"
  /\ runtime_running' = TRUE /\ shutting_down' = FALSE /\ ipc' = FALSE
  /\ monitor' = "polling" /\ monitor_started' = TRUE
  /\ alive' = TRUE /\ playing' = 0 /\ loaded' = FALSE /\ mpv_paused' = FALSE
  /\ cmds' = <<>> /\ evts' = <<>>
  /\ UNCHANGED <<snapshot, wish, counts>>

(* fork fails, or pthread_create after it.                                 *)
SpawnFails ==
  /\ ui = "ensure"
  /\ ~runtime_running
  /\ ui' = "idle"
  /\ state' \in {state, "ERROR"}
  /\ UNCHANGED <<media_running, stop_requested, paused, buffering, natural_end, pending,
                 requested, runtime, wish, mpv, evts, counts>>

AwaitReady ==
  /\ ui = "await"
  /\ Connected
  /\ ui' = "queue"
  /\ UNCHANGED <<player, wish, mpv, evts, counts>>

(* Plausible slip: the wait has no deadline.                               *)
AwaitFails_NoDeadline ==
  /\ ui = "await"
  /\ ~runtime_running
  /\ ui' = "idle"
  /\ UNCHANGED <<player, wish, mpv, evts, counts>>

(* mpv died while the load waited for its socket, or 2.5 s are over.       *)
AwaitFails ==
  /\ ui = "await"
  /\ ~Connected
  /\ ui' = "idle"
  /\ UNCHANGED <<player, wish, mpv, evts, counts>>

(* reset_media_snapshot_locked, and the load is counted.                   *)
Queue ==
  /\ ui = "queue"
  /\ ui' = "send"
  /\ paused' = FALSE /\ buffering' = FALSE /\ natural_end' = FALSE
  /\ stop_requested' = FALSE
  /\ media_running' = TRUE
  /\ pending' = pending + 1
  /\ state' = "OPENING"
  /\ requested' = loads
  /\ UNCHANGED <<runtime, wish, mpv, evts, counts>>

SendLoadfile ==
  /\ ui = "send"
  /\ \E sent \in BOOLEAN :
       /\ Write([op |-> "loadfile", item |-> requested], sent)
       /\ ui' = IF sent THEN "idle" ELSE "failed"
  /\ UNCHANGED <<player, wish, alive, playing, loaded, mpv_paused, evts,
                 loads, stops, changes>>

LoadFailed ==
  /\ ui = "failed"
  /\ ui' = "idle"
  /\ pending' = IF pending > 0 THEN pending - 1 ELSE 0
  /\ media_running' = FALSE
  /\ state' = "ERROR"
  /\ UNCHANGED <<stop_requested, paused, buffering, natural_end, requested,
                 runtime, wish, mpv, evts, counts>>

--------------------------------------------------------------------------------
(* The user-interface thread: stop, set_paused, destroy.                   *)

StopFields ==
  /\ stop_requested' = TRUE
  /\ media_running' = FALSE
  /\ pending' = 0
  /\ paused' = FALSE /\ buffering' = FALSE /\ natural_end' = FALSE
  /\ state' = "STOPPED"
  /\ UNCHANGED requested

Stop ==
  /\ ui = "idle"
  /\ stops < MaxStops
  /\ stops' = stops + 1
  /\ StopFields
  /\ ui' = IF media_running /\ runtime_running THEN "stop" ELSE "idle"
  /\ UNCHANGED <<runtime, wish, mpv, evts, loads, failures, changes>>

SendStop ==
  /\ ui = "stop"
  /\ \E sent \in BOOLEAN : Write([op |-> "stop"], sent)
  /\ ui' = "idle"
  /\ UNCHANGED <<player, wish, alive, playing, loaded, mpv_paused, evts,
                 loads, stops, changes>>

SetPaused(b) ==
  /\ ui = "idle"
  /\ changes < MaxChanges
  /\ changes' = changes + 1
  /\ paused' = b
  /\ state' = FromFlags(media_running, buffering, b)
  /\ wish' = b
  /\ ui' = IF media_running THEN "pause" ELSE "idle"
  /\ UNCHANGED <<media_running, stop_requested, buffering, natural_end, pending,
                 requested, runtime, mpv, evts, loads, stops, failures>>

SendPause ==
  /\ ui = "pause"
  /\ \E sent \in BOOLEAN : Write([op |-> "pause", on |-> wish], sent)
  /\ ui' = "idle"
  /\ UNCHANGED <<player, wish, alive, playing, loaded, mpv_paused, evts,
                 loads, stops, changes>>

(* vip_mpv_player_destroy: stop, then shutdown_runtime.  The stop command  *)
(* it may send changes nothing any more.                                   *)
Destroy ==
  /\ ui = "idle"
  /\ StopFields
  /\ ui' = "shutdown"
  /\ UNCHANGED <<runtime, wish, mpv, evts, counts>>

Shutdown ==
  /\ ui = "shutdown"
  /\ shutting_down' = TRUE
  /\ ui' = "join"
  /\ UNCHANGED <<snapshot, runtime_running, monitor_started, ipc, monitor,
                 wish, mpv, evts, counts>>

(* pthread_join returned; the player is freed.                             *)
Join ==
  /\ ui = "join"
  /\ monitor_started => monitor = "exited"
  /\ monitor_started' = FALSE /\ runtime_running' = FALSE /\ shutting_down' = FALSE /\ ipc' = FALSE
  /\ monitor' = "none"
  /\ ui' = "gone"
  /\ UNCHANGED <<snapshot, wish, mpv, evts, counts>>

--------------------------------------------------------------------------------
(* The monitor thread: events, by handle_ipc_line.                         *)

(* The next complete line is event `name`.                                 *)
Receive(name) ==
  /\ monitor = "polling"
  /\ ipc
  /\ evts # <<>> /\ Head(evts).event = name
  /\ evts' = Tail(evts)
  /\ UNCHANGED <<runtime, caller, mpv, counts, requested>>

(* try_connect_ipc; send_observers makes mpv report its properties.        *)
Connect ==
  /\ monitor = "polling"
  /\ ~ipc /\ ~shutting_down
  /\ alive
  /\ ipc' = TRUE
  /\ evts' = Append(evts, [event |-> "pause", on |-> mpv_paused])
  /\ UNCHANGED <<snapshot, runtime_running, monitor_started, shutting_down, monitor,
                 caller, mpv, counts>>

(* Plausible slip: the counter is decremented without a test.              *)
StartFile_Underflow ==
  /\ Receive("start-file")
  /\ pending' = pending - 1
  /\ media_running' = (media_running \/ ~stop_requested)
  /\ state' = IF stop_requested THEN state ELSE "OPENING"
  /\ UNCHANGED <<stop_requested, paused, buffering, natural_end>>

(* Plausible slip: the counter is not decremented once the item runs.      *)
StartFile_Uncounted ==
  /\ Receive("start-file")
  /\ pending' = IF pending > 1 THEN pending - 1 ELSE pending
  /\ media_running' = (media_running \/ ~stop_requested)
  /\ state' = IF stop_requested THEN state ELSE "OPENING"
  /\ UNCHANGED <<stop_requested, paused, buffering, natural_end>>

StartFile ==
  /\ Receive("start-file")
  /\ pending' = IF pending > 0 THEN pending - 1 ELSE 0
  /\ media_running' = (media_running \/ ~stop_requested)
  /\ state' = IF stop_requested THEN state ELSE "OPENING"
  /\ UNCHANGED <<stop_requested, paused, buffering, natural_end>>

FileLoaded ==
  /\ Receive("file-loaded")
  /\ media_running' = (media_running \/ ~stop_requested)
  /\ state' = IF stop_requested THEN state ELSE FromFlags(TRUE, buffering, paused)
  /\ UNCHANGED <<stop_requested, paused, buffering, natural_end, pending>>

EndState(reason) == IF reason = "error" THEN "ERROR" ELSE "STOPPED"

(* Plausible slip: every end-file is applied.                              *)
EndFile_Always ==
  /\ Receive("end-file")
  /\ media_running' = FALSE /\ buffering' = FALSE /\ paused' = FALSE
  /\ natural_end' = (natural_end \/ Head(evts).reason = "eof")
  /\ state' = EndState(Head(evts).reason)
  /\ UNCHANGED <<stop_requested, pending>>

(* The end of the item that runs ...                                       *)
EndFile ==
  /\ Receive("end-file")
  /\ pending = 0
  /\ media_running' = FALSE /\ buffering' = FALSE /\ paused' = FALSE
  /\ natural_end' = (natural_end \/ Head(evts).reason = "eof")
  /\ state' = EndState(Head(evts).reason)
  /\ UNCHANGED <<stop_requested, pending>>

(* ... and of one that is being replaced.                                  *)
EndFileReplaced ==
  /\ Receive("end-file")
  /\ pending > 0
  /\ UNCHANGED <<media_running, stop_requested, paused, buffering, natural_end, state, pending>>

PauseChanged ==
  /\ Receive("pause")
  /\ paused' = Head(evts).on
  /\ state' = FromFlags(media_running, buffering, Head(evts).on)
  /\ UNCHANGED <<media_running, stop_requested, buffering, natural_end, pending>>

(* Any other property change, and playback-restart, ends like this too.    *)
BufferingChanged ==
  /\ Receive("paused-for-cache")
  /\ buffering' = Head(evts).on
  /\ state' = FromFlags(media_running, Head(evts).on, paused)
  /\ UNCHANGED <<media_running, stop_requested, paused, natural_end, pending>>

--------------------------------------------------------------------------------
(* The monitor thread: the end of the runtime.                             *)

(* mpv exited, or must: the loop ends, the descriptors are taken out of    *)
(* the player and closed, what was not read is lost, and an mpv that still *)
(* lives is terminated and reaped.                                         *)
CloseRuntime ==
  /\ monitor = "polling"
  /\ ~alive \/ shutting_down
  /\ monitor' = IF shutting_down THEN "quitting" ELSE "closing"
  /\ ipc' = FALSE /\ evts' = <<>>
  /\ alive' = FALSE /\ playing' = 0 /\ cmds' = <<>>
  /\ UNCHANGED <<snapshot, runtime_running, monitor_started, shutting_down,
                 caller, loaded, mpv_paused, counts>>

(* Plausible slip: the item of the dead mpv still counts as running.       *)
ExitMonitor_KeepsRunning ==
  /\ monitor \in {"closing", "quitting"}
  /\ monitor' = "exited"
  /\ runtime_running' = FALSE
  /\ state' = IF monitor = "closing" THEN "ERROR" ELSE state
  /\ UNCHANGED <<media_running, stop_requested, paused, buffering, natural_end, pending,
                 requested, monitor_started, shutting_down, ipc, caller, mpv, evts, counts>>

ExitMonitor ==
  /\ monitor \in {"closing", "quitting"}
  /\ monitor' = "exited"
  /\ runtime_running' = FALSE
  /\ media_running' = FALSE
  /\ state' = IF monitor = "closing" THEN "ERROR" ELSE state
  /\ UNCHANGED <<stop_requested, paused, buffering, natural_end, pending, requested,
                 monitor_started, shutting_down, ipc, caller, mpv, evts, counts>>

--------------------------------------------------------------------------------
(* mpv (external).                                                         *)

(* What it has emitted once the item that plays, if any, is over.          *)
Ends(reason) ==
  IF playing = 0 THEN evts
  ELSE Append(evts, [event |-> "end-file", item |-> playing, reason |-> reason])

RunCommand(op) ==
  /\ alive
  /\ cmds # <<>> /\ Head(cmds).op = op
  /\ cmds' = Tail(cmds)
  /\ UNCHANGED <<player, caller, alive, counts>>

MpvLoadfile ==
  /\ RunCommand("loadfile")
  /\ evts' = Append(Ends("stop"), [event |-> "start-file", item |-> Head(cmds).item])
  /\ playing' = Head(cmds).item
  /\ loaded' = FALSE
  /\ UNCHANGED mpv_paused

MpvStop ==
  /\ RunCommand("stop")
  /\ evts' = Ends("stop")
  /\ playing' = 0
  /\ UNCHANGED <<loaded, mpv_paused>>

(* An observed property is reported when it changes.  `pause` outlives the *)
(* item.                                                                   *)
MpvPause ==
  /\ RunCommand("pause")
  /\ mpv_paused' = Head(cmds).on
  /\ evts' = IF mpv_paused = Head(cmds).on THEN evts
             ELSE Append(evts, [event |-> "pause", on |-> Head(cmds).on])
  /\ UNCHANGED <<playing, loaded>>

MpvLoads ==
  /\ alive /\ playing # 0 /\ ~loaded
  /\ loaded' = TRUE
  /\ evts' = Append(evts, [event |-> "file-loaded", item |-> playing])
  /\ UNCHANGED <<player, caller, alive, playing, mpv_paused, cmds, counts>>

(* The item cannot be opened or read (any time), or is over.               *)
MpvEnds ==
  /\ alive /\ playing # 0
  /\ \E reason \in {"error", "eof"} :
       /\ reason = "eof" => loaded
       /\ evts' = Ends(reason)
  /\ playing' = 0
  /\ UNCHANGED <<player, caller, alive, loaded, mpv_paused, cmds, counts>>

MpvBuffers(b) ==
  /\ alive /\ playing # 0
  /\ changes < MaxChanges
  /\ changes' = changes + 1
  /\ evts' = Append(evts, [event |-> "paused-for-cache", on |-> b])
  /\ UNCHANGED <<player, caller, mpv, loads, stops, failures>>

(* mpv dies.  What it wrote can still be read, what it did not read is lost. *)
MpvDies ==
  /\ alive
  /\ failures < MaxFailures
  /\ failures' = failures + 1
  /\ alive' = FALSE /\ playing' = 0 /\ cmds' = <<>>
  /\ UNCHANGED <<player, caller, loaded, mpv_paused, evts, loads, stops, changes>>

--------------------------------------------------------------------------------

CallerStep ==
  \/ EnsureRunning \/ Spawn \/ SpawnFails \/ AwaitReady \/ AwaitFails \/ Queue
  \/ SendLoadfile \/ LoadFailed \/ SendStop \/ SendPause \/ Shutdown \/ Join

MonitorStep ==
  \/ Connect
  \/ StartFile \/ FileLoaded \/ EndFile \/ EndFileReplaced \/ PauseChanged \/ BufferingChanged
  \/ CloseRuntime \/ ExitMonitor

MpvStep ==
  \/ MpvLoadfile \/ MpvStop \/ MpvPause \/ MpvLoads \/ MpvEnds
  \/ \E b \in BOOLEAN : MpvBuffers(b)
  \/ MpvDies

Next ==
  \/ Load
  \/ Stop
  \/ \E b \in BOOLEAN : SetPaused(b)
  \/ Destroy
  \/ CallerStep
  \/ MonitorStep
  \/ MpvStep

(* Both threads run whenever they can; the user need not do anything and   *)
(* mpv need not connect, load, end or die.                                 *)
Fairness ==
  /\ WF_vars(CallerStep)
  /\ WF_vars(CloseRuntime) /\ WF_vars(ExitMonitor)

Spec == Init /\ [][Next]_vars /\ Fairness

--------------------------------------------------------------------------------
(* Correctness.                                                            *)

(* The two things the user interface reads agree at any moment, whichever  *)
(* thread wrote last: an item is running exactly in the states in which    *)
(* the video window is shown, and none after a stop, whatever mpv still    *)
(* reports before the next load.                                           *)
RunningIffActive ==
  /\ media_running <=> state \in Active
  /\ stop_requested => ~media_running

(* Nothing is in flight between the threads and mpv.                       *)
Quiet ==
  /\ ui = "idle" /\ monitor = "polling" /\ ipc /\ alive
  /\ cmds = <<>> /\ evts = <<>>

(* When all is said, and mpv neither died, which leaves its loads counted  *)
(* for ever, nor refused a command, whose old item then plays on, the      *)
(* snapshot tells what mpv does, of the right item: whatever was stopped   *)
(* before the last load, no end of it is missed and no other item is taken *)
(* for it.  After a stop mpv plays nothing, unless an earlier stop forgot  *)
(* the loads still on their way: then the end of an old item is believed,  *)
(* the program takes the new one to be over, and the next stop sends mpv   *)
(* no command.                                                             *)
AgreesWhenQuiet ==
  failures = 0 /\ Quiet /\ (stop_requested => stops <= 1) =>
    /\ media_running <=> playing # 0
    /\ playing # 0 => playing = requested

(* The end of an item that the last load replaced is read.                 *)
ReadsOldEnd ==
  /\ ~stop_requested
  /\ evts # <<>> /\ evts' = Tail(evts)
  /\ Head(evts).event = "end-file" /\ Head(evts).item # requested

ItemKept == UNCHANGED <<media_running, natural_end, state, paused>>

(* It changes nothing of the item requested after it ("those stale end-file *)
(* events must not overwrite the state of the newly requested item"), while *)
(* mpv neither died nor refused a load and nobody stopped.  A stop forgets *)
(* a start-file that is on its way, and the end of an item loaded before   *)
(* it is believed after.                                                   *)
OldEndsIgnored == [][stops = 0 /\ failures = 0 /\ ReadsOldEnd => ItemKept]_vars

(* Loads that were queued and whose start-file has not arrived.            *)
Count(seq, kind) == Cardinality({i \in DOMAIN seq : seq[i] \in kind})

Outstanding ==
  Count(cmds, LoadfileCommand) + Count(evts, StartFileEvent)
    + (IF ui \in {"send", "failed"} THEN 1 ELSE 0)

(* While mpv did not fail, every load that is counted is still on its way: *)
(* one counted too many would hide the end of the item that plays.         *)
NoPhantomLoad == failures = 0 => pending <= Outstanding

(* pending_load_starts is the "number of loadfile commands that have been  *)
(* queued but whose start-file event has not arrived yet" (its comment):   *)
(* one that went down with mpv will not arrive and cannot be counted.      *)
PendingCounted == pending <= Outstanding

(* When all is said, the snapshot shows mpv's pause of the item that plays. *)
PauseAgrees == Quiet /\ playing # 0 => paused = mpv_paused

(* The user-interface thread never hangs in load, stop or destroy: a load  *)
(* that waits for mpv's socket gives up, and the monitor ends when told to *)
(* even if mpv does not.                                                   *)
EveryCallReturns ==
  /\ ui = "await" ~> ui \in {"queue", "idle"}
  /\ ui = "shutdown" ~> ui = "gone"
================================================================================
