--------------------------- MODULE MpvPlayerProofs ---------------------------
(***************************************************************************)
(* Machine-checked proofs about MpvPlayer, for any number of loads, stops, *)
(* deaths of mpv and property changes.                                     *)
(***************************************************************************)
EXTENDS MpvPlayer, FiniteSetTheorems, FunctionTheorems, TLAPS

--------------------------------------------------------------------------------
(* What holds of the runtime whatever happens.                             *)

Closed == ui \in {"shutdown", "join", "gone"}

(* The monitor runs while the runtime does; only destroy shuts it down, and *)
(* only then, or when mpv died, does it stop polling; without it nothing is *)
(* in flight, and an item counts as running only until its load fails.     *)
RuntimeInv ==
  /\ runtime_running <=> monitor \in {"polling", "closing", "quitting"}
  /\ monitor_started <=> monitor # "none"
  /\ shutting_down => ui = "join"
  /\ Closed => stop_requested /\ ~media_running /\ pending = 0
  /\ monitor = "quitting" => shutting_down
  /\ monitor = "closing" => failures > 0
  /\ monitor = "polling" /\ ~alive => failures > 0
  /\ alive => monitor = "polling"
  /\ monitor # "polling" => cmds = <<>> /\ evts = <<>> /\ ~ipc
  /\ ~runtime_running /\ media_running => ui \in {"send", "failed"}
  /\ playing # 0 => alive
  /\ stops = 0 /\ stop_requested => Closed
  /\ ui = "send" => ~stop_requested

--------------------------------------------------------------------------------
(* While mpv does not fail.                                                *)

(* Every load reaches mpv and is counted while it is on its way, and the   *)
(* stop of an item that runs reaches mpv.                                  *)
ReliableInv ==
  failures = 0 =>
    /\ monitor # "polling" =>
         pending = 0 /\ ui \notin {"await", "queue", "send"} /\ ~media_running
    /\ ui # "failed"
    /\ ui \in {"queue", "send", "stop"} \/ media_running => ipc
    /\ pending <= Outstanding

--------------------------------------------------------------------------------
(* Until somebody stops, and again from the next load on.                  *)

Ongoing == failures = 0 /\ ~stop_requested /\ monitor = "polling"

IsLoadfile(i) == cmds[i].op = "loadfile"
IsStart(i) == evts[i].event = "start-file"
IsEnd(i) == evts[i].event = "end-file"
IsLoaded(i) == evts[i].event = "file-loaded"

After(n) == {i \in DOMAIN evts : i > n}

(* After the first n events the requested item plays on, ...               *)
Lasting(n) ==
  /\ playing = requested /\ requested # 0
  /\ \A i \in After(n) : ~IsStart(i) /\ ~IsEnd(i)

(* ... or its end is the last that is reported of it.                      *)
Over(n) ==
  /\ playing = 0
  /\ \E j \in After(n) :
       /\ IsEnd(j) /\ evts[j].item = requested
       /\ \A i \in After(n) : ~IsStart(i) /\ (IsEnd(i) => i = j) /\ (IsLoaded(i) => i < j)

Fate(n) == Lasting(n) \/ Over(n)

(* mpv is idle and has nothing to tell of an item.                         *)
Silent ==
  playing = 0 /\ \A i \in DOMAIN evts : ~IsStart(i) /\ ~IsEnd(i) /\ ~IsLoaded(i)

NoLoadfile == \A i \in DOMAIN cmds : ~IsLoadfile(i)
LastLoadfile(i) == IsLoadfile(i) /\ \A j \in DOMAIN cmds : j > i => ~IsLoadfile(j)
LastStart(i) == IsStart(i) /\ \A j \in DOMAIN evts : j > i => ~IsStart(j)

(* The last load on its way is the last requested, and what mpv reports    *)
(* after its start is what becomes of that item.                           *)
LastIsRequested == \A i \in DOMAIN cmds : LastLoadfile(i) => cmds[i].item = requested
StartedFate == \A i \in DOMAIN evts : LastStart(i) => Fate(i)
OnItsWay == ui # "send" => LastIsRequested /\ (NoLoadfile => StartedFate)

(* What is still to be read is of the item that counts as running, or of   *)
(* none.  So it is with no load on its way, however the loads of before a  *)
(* stop were taken for those after it.                                     *)
Told == IF media_running THEN Fate(0) ELSE Silent
Settled == Outstanding = 0 => Told

OngoingInv == Ongoing => OnItsWay /\ Settled

(* Until the first stop the loads are counted exactly.                     *)
CountInv ==
  Ongoing /\ stops = 0 => pending = Outstanding /\ (pending > 0 => media_running)

(* After the first stop, and until the next load, mpv has got a stop that  *)
(* follows every load, or has nothing to play.                             *)
StopFollows ==
  \E i \in DOMAIN cmds : cmds[i].op = "stop" /\ \A j \in DOMAIN cmds : j > i => ~IsLoadfile(j)
Ended == StopFollows \/ (NoLoadfile /\ playing = 0)

StoppedInv ==
  /\ failures = 0 /\ stop_requested /\ stops <= 1 /\ monitor = "polling"
  /\ ui # "stop" /\ ~Closed
  => Ended

PlayInv == OngoingInv /\ CountInv /\ StoppedInv

--------------------------------------------------------------------------------
(* Types.                                                                  *)

(* A load is requested under its number, which is not 0.                   *)
TypeInv ==
  /\ TypeOK
  /\ ui \in {"ensure", "await", "queue"} => loads > 0
  /\ ui = "send" => requested # 0

(* The threads put commands and events of these kinds on the socket only.  *)
LEMMA Messages ==
  /\ \A n \in Items : [op |-> "loadfile", item |-> n] \in LoadfileCommand
  /\ [op |-> "stop"] \in Command
  /\ \A b \in BOOLEAN : [op |-> "pause", on |-> b] \in Command
  /\ \A n \in Items : [event |-> "start-file", item |-> n] \in StartFileEvent
  /\ \A n \in Items : [event |-> "file-loaded", item |-> n] \in Event
  /\ \A n \in Items, r \in {"eof", "stop", "error"} :
       [event |-> "end-file", item |-> n, reason |-> r] \in Event
  /\ \A e \in {"pause", "paused-for-cache"}, b \in BOOLEAN : [event |-> e, on |-> b] \in Event
  /\ LoadfileCommand \subseteq Command /\ StartFileEvent \subseteq Event
BY DEF Command, Event, LoadfileCommand, StartFileEvent

(* What the fields of a command are, by its kind.                          *)
LEMMA CommandFields ==
  ASSUME NEW c \in Command
  PROVE  /\ c.op \in {"loadfile", "stop", "pause"}
         /\ c.op = "loadfile" <=> c \in LoadfileCommand
         /\ c.op = "loadfile" => c.item \in Items
         /\ c.op = "pause" => c.on \in BOOLEAN
<1>1. CASE c \in LoadfileCommand
  BY <1>1 DEF LoadfileCommand
<1>2. CASE c \in [op : {"stop"}]
  BY <1>2 DEF LoadfileCommand
<1>3. CASE c \in [op : {"pause"}, on : BOOLEAN]
  BY <1>3 DEF LoadfileCommand
<1>4. QED
  BY <1>1, <1>2, <1>3 DEF Command

(* What the fields of an event are, by its kind.                           *)
LEMMA EventFields ==
  ASSUME NEW e \in Event
  PROVE  /\ e.event = "start-file" <=> e \in StartFileEvent
         /\ e.event \in {"start-file", "file-loaded", "end-file"} => e.item \in Items
         /\ e.event \in {"pause", "paused-for-cache"} => e.on \in BOOLEAN
<1>1. CASE e \in StartFileEvent
  BY <1>1 DEF StartFileEvent
<1>2. CASE e \in [event : {"file-loaded"}, item : Items]
  BY <1>2 DEF StartFileEvent
<1>3. CASE e \in [event : {"end-file"}, item : Items, reason : {"eof", "stop", "error"}]
  BY <1>3 DEF StartFileEvent
<1>4. CASE e \in [event : {"pause", "paused-for-cache"}, on : BOOLEAN]
  BY <1>4 DEF StartFileEvent
<1>5. QED
  BY <1>1, <1>2, <1>3, <1>4 DEF Event

(* What is read from a queue leaves a queue, and the first element is one. *)
LEMMA Dequeue ==
  ASSUME NEW T, NEW s \in Seq(T), s # <<>>
  PROVE  /\ Head(s) \in T /\ Tail(s) \in Seq(T)
         /\ Len(Tail(s)) = Len(s) - 1 /\ Len(s) > 0
         /\ Head(s) = s[1]
         /\ \A i \in 1..(Len(s) - 1) : Tail(s)[i] = s[i + 1]
OBVIOUS

(* What is written to a queue makes it longer by one at its end.           *)
LEMMA Enqueue ==
  ASSUME NEW T, NEW s \in Seq(T), NEW x \in T
  PROVE  /\ Append(s, x) \in Seq(T) /\ Append(s, x) # <<>>
         /\ Len(Append(s, x)) = Len(s) + 1
         /\ Append(s, x)[Len(s) + 1] = x
         /\ \A i \in 1..Len(s) : Append(s, x)[i] = s[i]
OBVIOUS

(* The snapshot's flags always give one of its states.                     *)
LEMMA FlagState ==
  ASSUME TypeOK, NEW r, NEW b, NEW p
  PROVE  FromFlags(r, b, p) \in Active \cup {"IDLE", "ERROR", "STOPPED"}
BY DEF TypeOK, FromFlags, Active

(* A command that mpv does not take is counted; one it can take, while     *)
(* nothing is counted, reaches it.                                         *)
LEMMA WriteFails ==
  ASSUME TypeOK, NEW c, NEW sent \in BOOLEAN, Write(c, sent)
  PROVE  /\ failures' \in 0..MaxFailures
         /\ failures' = 0 => failures = 0 /\ (Connected /\ alive => sent)
<1>1. failures \in 0..MaxFailures /\ MaxFailures \in Nat
  BY PlayerAssumption DEF TypeOK
<1>2. failures' = failures \/ (failures < MaxFailures /\ failures' = failures + 1)
  BY DEF Write
<1>3. Connected /\ alive /\ ~sent => failures' = failures + 1
  BY DEF Write
<1>4. failures' \in 0..MaxFailures /\ (failures' = 0 => failures = 0)
  BY <1>1, <1>2
<1>5. failures' = 0 => ~(Connected /\ alive /\ ~sent)
  BY <1>1, <1>3
<1>6. QED
  BY <1>4, <1>5

LEMMA SendsCounted ==
  ASSUME TypeOK, SendLoadfile \/ SendStop \/ SendPause
  PROVE  failures' \in 0..MaxFailures /\ (failures' = 0 => failures = 0)
BY WriteFails DEF SendLoadfile, SendStop, SendPause

LEMMA Delivered ==
  ASSUME TypeOK, failures' = 0, Connected, alive
  PROVE  /\ SendLoadfile => /\ cmds' = Append(cmds, [op |-> "loadfile", item |-> requested])
                            /\ ui' = "idle"
         /\ SendStop => cmds' = Append(cmds, [op |-> "stop"])
<1>1. CASE SendLoadfile
  <2> DEFINE c == [op |-> "loadfile", item |-> requested]
  <2>1. PICK sent \in BOOLEAN : Write(c, sent) /\ ui' = IF sent THEN "idle" ELSE "failed"
    BY <1>1 DEF SendLoadfile
  <2>2. sent
    BY <2>1, WriteFails
  <2>3. cmds' = Append(cmds, c) /\ ui' = "idle"
    BY <2>1, <2>2 DEF Write
  <2>4. ~SendStop
    BY <1>1 DEF SendLoadfile, SendStop
  <2>5. QED
    BY <2>3, <2>4
<1>2. CASE SendStop
  <2> DEFINE c == [op |-> "stop"]
  <2>1. PICK sent \in BOOLEAN : Write(c, sent)
    BY <1>2 DEF SendStop
  <2>2. sent
    BY <2>1, WriteFails
  <2>3. cmds' = Append(cmds, c)
    BY <2>1, <2>2 DEF Write
  <2>4. ~SendLoadfile
    BY <1>2 DEF SendLoadfile, SendStop
  <2>5. QED
    BY <2>3, <2>4
<1>3. QED
  BY <1>1, <1>2

(* The kinds of command mpv is sent and runs keep the type.                *)
LEMMA CommandStep ==
  ASSUME TypeInv, Next
  PROVE  cmds' \in Seq(Command)
<1> USE DEF TypeInv, TypeOK
<1>0. <<>> \in Seq(Command)
  OBVIOUS
<1>1. CASE SendLoadfile
  <2>1. requested \in Items
    BY <1>1 DEF SendLoadfile
  <2>2. [op |-> "loadfile", item |-> requested] \in Command
    BY <2>1, Messages
  <2>3. Append(cmds, [op |-> "loadfile", item |-> requested]) \in Seq(Command)
    BY <2>2, Enqueue
  <2>4. QED
    BY <1>1, <2>3 DEF SendLoadfile, Write
<1>2. CASE SendStop
  <2>1. Append(cmds, [op |-> "stop"]) \in Seq(Command)
    BY Messages, Enqueue
  <2>2. QED
    BY <1>2, <2>1 DEF SendStop, Write
<1>3. CASE SendPause
  <2>1. [op |-> "pause", on |-> wish] \in Command
    BY Messages
  <2>2. Append(cmds, [op |-> "pause", on |-> wish]) \in Seq(Command)
    BY <2>1, Enqueue
  <2>3. QED
    BY <1>3, <2>2 DEF SendPause, Write
<1>4. ASSUME NEW op, RunCommand(op)
      PROVE  cmds' \in Seq(Command)
  BY <1>4, Dequeue DEF RunCommand
<1>5. CASE MpvLoadfile \/ MpvStop \/ MpvPause
  BY <1>4, <1>5 DEF MpvLoadfile, MpvStop, MpvPause
<1>6. CASE Spawn \/ CloseRuntime \/ MpvDies
  BY <1>0, <1>6 DEF Spawn, CloseRuntime, MpvDies
<1>7. CASE \E name : Receive(name)
  BY <1>7 DEF Receive, mpv
<1>8. CASE UNCHANGED cmds
  BY <1>8
<1>9. QED
  BY <1>1, <1>2, <1>3, <1>5, <1>6, <1>7, <1>8
  DEF Next, CallerStep, MonitorStep, MpvStep, Load, Stop, SetPaused, Destroy, EnsureRunning,
      SpawnFails, AwaitReady, AwaitFails, Queue, LoadFailed, Shutdown, Join, Connect, StartFile,
      FileLoaded, EndFile, EndFileReplaced, PauseChanged, BufferingChanged, ExitMonitor,
      MpvLoads, MpvEnds, MpvBuffers, mpv

(* ... and so do the events mpv emits and the monitor reads.               *)
LEMMA EventStep ==
  ASSUME TypeInv, Next
  PROVE  evts' \in Seq(Event)
<1> USE DEF TypeInv, TypeOK
<1>0. <<>> \in Seq(Event)
  OBVIOUS
<1>1. ASSUME NEW reason \in {"eof", "stop", "error"}
      PROVE  Ends(reason) \in Seq(Event)
  <2>1. CASE playing = 0
    BY <2>1 DEF Ends
  <2>2. CASE playing # 0
    <3>1. [event |-> "end-file", item |-> playing, reason |-> reason] \in Event
      BY <2>2, Messages
    <3>2. QED
      BY <2>2, <3>1, Enqueue DEF Ends
  <2>3. QED
    BY <2>1, <2>2
<1>2. ASSUME NEW op, RunCommand(op)
      PROVE  Head(cmds) \in Command
  BY <1>2, Dequeue DEF RunCommand
<1>3. CASE MpvLoadfile
  <2>1. Head(cmds).item \in Items
    BY <1>2, <1>3, CommandFields DEF MpvLoadfile, RunCommand
  <2>2. [event |-> "start-file", item |-> Head(cmds).item] \in Event
    BY <2>1, Messages
  <2>3. Ends("stop") \in Seq(Event)
    BY <1>1
  <2>4. QED
    BY <1>3, <2>2, <2>3, Enqueue DEF MpvLoadfile
<1>4. CASE MpvStop
  BY <1>1, <1>4 DEF MpvStop
<1>5. CASE MpvPause
  <2>1. Head(cmds).on \in BOOLEAN
    BY <1>2, <1>5, CommandFields DEF MpvPause, RunCommand
  <2>2. [event |-> "pause", on |-> Head(cmds).on] \in Event
    BY <2>1, Messages
  <2>3. QED
    BY <1>5, <2>2, Enqueue DEF MpvPause
<1>6. CASE MpvLoads
  <2>1. [event |-> "file-loaded", item |-> playing] \in Event
    BY <1>6, Messages DEF MpvLoads
  <2>2. QED
    BY <1>6, <2>1, Enqueue DEF MpvLoads
<1>7. CASE MpvEnds
  BY <1>1, <1>7 DEF MpvEnds
<1>8. CASE \E b \in BOOLEAN : MpvBuffers(b)
  <2>1. PICK b \in BOOLEAN : MpvBuffers(b)
    BY <1>8
  <2>2. [event |-> "paused-for-cache", on |-> b] \in Event
    BY Messages
  <2>3. QED
    BY <2>1, <2>2, Enqueue DEF MpvBuffers
<1>9. CASE Connect
  <2>1. [event |-> "pause", on |-> mpv_paused] \in Event
    BY Messages
  <2>2. QED
    BY <1>9, <2>1, Enqueue DEF Connect
<1>10. CASE \E name : Receive(name)
  BY <1>10, Dequeue DEF Receive
<1>11. CASE Spawn \/ CloseRuntime
  BY <1>0, <1>11 DEF Spawn, CloseRuntime
<1>12. CASE UNCHANGED evts
  BY <1>12
<1>13. QED
  BY <1>3, <1>4, <1>5, <1>6, <1>7, <1>8, <1>9, <1>10, <1>11, <1>12
  DEF Next, CallerStep, MonitorStep, MpvStep, Load, Stop, SetPaused, Destroy, EnsureRunning,
      SpawnFails, AwaitReady, AwaitFails, Queue, SendLoadfile, SendStop, SendPause, LoadFailed,
      Shutdown, Join, StartFile, FileLoaded, EndFile, EndFileReplaced, PauseChanged,
      BufferingChanged, ExitMonitor, MpvDies

(* The rest of TypeInv, action by action.                                  *)
LEMMA TypeInvStep ==
  ASSUME TypeInv, Next
  PROVE  TypeInv'
<1> USE PlayerAssumption DEF TypeInv, TypeOK, snapshot, runtime, player, caller, mpv, counts,
        Items, Active
<1>c. cmds' \in Seq(Command)
  BY CommandStep
<1>e. evts' \in Seq(Event)
  BY EventStep
<1>1. CASE Load
  BY <1>c, <1>e, <1>1 DEF Load
<1>2. CASE Stop
  <2>1. stops' \in 0..MaxStops /\ loads' \in 0..MaxLoads
    BY <1>2 DEF Stop
  <2>2. QED
    BY <1>c, <1>e, <1>2, <2>1 DEF Stop, StopFields
<1>3. ASSUME NEW b \in BOOLEAN, SetPaused(b)
      PROVE  TypeInv'
  <2>1. state' \in Active \cup {"IDLE", "ERROR", "STOPPED"}
    BY <1>3, FlagState DEF SetPaused
  <2>2. QED
    BY <1>c, <1>e, <1>3, <2>1 DEF SetPaused
<1>4. CASE Destroy
  BY <1>c, <1>e, <1>4 DEF Destroy, StopFields
<1>5. CASE EnsureRunning \/ Spawn \/ SpawnFails
  BY <1>c, <1>e, <1>5 DEF EnsureRunning, Spawn, SpawnFails
<1>6. CASE AwaitReady \/ AwaitFails
  BY <1>c, <1>e, <1>6 DEF AwaitReady, AwaitFails
<1>6q. CASE Queue
  <2>1. requested' \in Items /\ ui' = "send" /\ pending' \in Nat
    BY <1>6q DEF Queue
  <2>2. /\ {media_running', stop_requested', paused', buffering', natural_end'} \subseteq BOOLEAN
        /\ {requested', playing'} \subseteq Items \cup {0}
        /\ state' \in Active
    BY <1>6q, <2>1 DEF Queue
  <2>3. QED
    BY <1>c, <1>e, <1>6q, <2>1, <2>2 DEF Queue
<1>7. CASE SendLoadfile
  BY <1>c, <1>e, <1>7, SendsCounted DEF SendLoadfile
<1>7s. CASE SendStop \/ SendPause
  BY <1>c, <1>e, <1>7s, SendsCounted DEF SendStop, SendPause
<1>7f. CASE LoadFailed
  <2>1. pending' \in Nat
    BY <1>7f DEF LoadFailed
  <2>2. QED
    BY <1>c, <1>e, <1>7f, <2>1 DEF LoadFailed
<1>8. CASE Shutdown \/ Join
  BY <1>c, <1>e, <1>8 DEF Shutdown, Join
<1>9. CASE Connect
  BY <1>c, <1>e, <1>9 DEF Connect
<1>10. CASE StartFile
  BY <1>c, <1>e, <1>10 DEF StartFile, Receive
<1>11. CASE FileLoaded
  <2>1. state' \in Active \cup {"IDLE", "ERROR", "STOPPED"}
    BY <1>11, FlagState DEF FileLoaded
  <2>2. QED
    BY <1>c, <1>e, <1>11, <2>1 DEF FileLoaded, Receive
<1>12. CASE EndFile \/ EndFileReplaced
  BY <1>c, <1>e, <1>12 DEF EndFile, EndFileReplaced, EndState, Receive
<1>13. CASE PauseChanged \/ BufferingChanged
  <2>1. Head(evts) \in Event
    BY <1>13, Dequeue DEF PauseChanged, BufferingChanged, Receive
  <2>2. Head(evts).on \in BOOLEAN
    BY <1>13, <2>1, EventFields DEF PauseChanged, BufferingChanged, Receive
  <2>3. state' \in Active \cup {"IDLE", "ERROR", "STOPPED"}
    BY <1>13, FlagState DEF PauseChanged, BufferingChanged
  <2>4. QED
    BY <1>c, <1>e, <1>13, <2>2, <2>3 DEF PauseChanged, BufferingChanged, Receive
<1>14. CASE CloseRuntime \/ ExitMonitor
  BY <1>c, <1>e, <1>14 DEF CloseRuntime, ExitMonitor
<1>15. CASE MpvLoadfile
  <2>1. Head(cmds) \in Command
    BY <1>15, Dequeue DEF MpvLoadfile, RunCommand
  <2>2. Head(cmds).item \in Items
    BY <1>15, <2>1, CommandFields DEF MpvLoadfile, RunCommand
  <2>3. playing' \in Items \cup {0} /\ loaded' = FALSE
    BY <1>15, <2>2 DEF MpvLoadfile
  <2>4. UNCHANGED <<player, caller, alive, counts, mpv_paused>>
    BY <1>15 DEF MpvLoadfile, RunCommand
  <2>5. QED
    BY <1>c, <1>e, <2>3, <2>4
<1>16. CASE MpvStop
  BY <1>c, <1>e, <1>16 DEF MpvStop, RunCommand
<1>17. CASE MpvPause
  <2>1. Head(cmds) \in Command
    BY <1>17, Dequeue DEF MpvPause, RunCommand
  <2>2. Head(cmds).on \in BOOLEAN
    BY <1>17, <2>1, CommandFields DEF MpvPause, RunCommand
  <2>3. QED
    BY <1>c, <1>e, <1>17, <2>2 DEF MpvPause, RunCommand
<1>18. CASE MpvLoads
  BY <1>c, <1>e, <1>18 DEF MpvLoads
<1>18e. CASE MpvEnds
  BY <1>c, <1>e, <1>18e DEF MpvEnds
<1>18d. CASE MpvDies
  <2>1. failures' \in 0..MaxFailures
    BY <1>18d DEF MpvDies
  <2>2. QED
    BY <1>c, <1>e, <1>18d, <2>1 DEF MpvDies
<1>19. ASSUME NEW b \in BOOLEAN, MpvBuffers(b)
       PROVE  TypeInv'
  BY <1>c, <1>e, <1>19 DEF MpvBuffers
<1>20. QED
  BY <1>1, <1>2, <1>3, <1>4, <1>5, <1>6, <1>6q, <1>7, <1>7s, <1>7f, <1>8, <1>9, <1>10, <1>11,
     <1>12, <1>13, <1>14, <1>15, <1>16, <1>17, <1>18, <1>18d, <1>18e, <1>19
  DEF Next, CallerStep, MonitorStep, MpvStep

(* TypeInv is an invariant.                                                *)
LEMMA TypeInvAlways == Spec => []TypeInv
<1>1. Init => TypeInv
  <2>1. <<>> \in Seq(Command) /\ <<>> \in Seq(Event)
    OBVIOUS
  <2>2. Init => /\ loads \in 0..MaxLoads /\ stops \in 0..MaxStops
                /\ failures \in 0..MaxFailures /\ changes \in 0..MaxChanges
    BY PlayerAssumption DEF Init
  <2>3. Init => /\ {media_running, stop_requested, paused, buffering, natural_end} \subseteq BOOLEAN
                /\ {runtime_running, monitor_started, shutting_down, ipc} \subseteq BOOLEAN
                /\ {wish, alive, loaded, mpv_paused} \subseteq BOOLEAN
    BY DEF Init
  <2>4. Init => /\ {requested, playing} \subseteq Items \cup {0}
                /\ pending \in Nat
    BY DEF Init
  <2>5. QED
    BY <2>1, <2>2, <2>3, <2>4 DEF Init, TypeInv, TypeOK
<1>2. TypeInv /\ [Next]_vars => TypeInv'
  <2>1. TypeInv /\ UNCHANGED vars => TypeInv'
    BY DEF TypeInv, TypeOK, vars, snapshot, runtime, player, caller, mpv, counts
  <2>2. QED
    BY <2>1, TypeInvStep
<1>3. QED
  BY <1>1, <1>2, PTL DEF Spec

(* Type correctness.                                                       *)
THEOREM TypeCorrect == Spec => []TypeOK
BY TypeInvAlways, PTL DEF TypeInv

--------------------------------------------------------------------------------
(* The runtime.                                                            *)

(* TypeOK, variable by variable.                                           *)
LEMMA Typed ==
  ASSUME TypeOK
  PROVE  /\ media_running \in BOOLEAN /\ stop_requested \in BOOLEAN /\ paused \in BOOLEAN
         /\ buffering \in BOOLEAN /\ natural_end \in BOOLEAN
         /\ runtime_running \in BOOLEAN /\ monitor_started \in BOOLEAN
         /\ shutting_down \in BOOLEAN /\ ipc \in BOOLEAN
         /\ alive \in BOOLEAN /\ loaded \in BOOLEAN /\ mpv_paused \in BOOLEAN
         /\ pending \in Nat
         /\ requested \in Items \cup {0} /\ playing \in Items \cup {0}
         /\ loads \in Nat /\ stops \in Nat /\ failures \in Nat /\ changes \in Nat
         /\ cmds \in Seq(Command) /\ evts \in Seq(Event)
BY PlayerAssumption DEF TypeOK

(* RuntimeInv, action by action.                                           *)
LEMMA RuntimeStep ==
  ASSUME TypeOK, RuntimeInv, Next
  PROVE  RuntimeInv'
<1> USE Typed DEF RuntimeInv, Closed, snapshot, runtime, player, caller, mpv, counts
<1>1. CASE Load
  BY <1>1 DEF Load
<1>2. CASE Stop
  BY <1>2 DEF Stop, StopFields
<1>3. ASSUME NEW b \in BOOLEAN, SetPaused(b)
      PROVE  RuntimeInv'
  BY <1>3 DEF SetPaused
<1>4. CASE Destroy
  BY <1>4 DEF Destroy, StopFields
<1>5. CASE EnsureRunning
  BY <1>5 DEF EnsureRunning
<1>6. CASE Spawn
  BY <1>6 DEF Spawn
<1>7. CASE SpawnFails
  BY <1>7 DEF SpawnFails
<1>8. CASE AwaitReady \/ AwaitFails
  BY <1>8 DEF AwaitReady, AwaitFails
<1>9. CASE Queue
  BY <1>9 DEF Queue
<1>10. CASE SendLoadfile
  BY <1>10 DEF SendLoadfile, Write, Connected
<1>11. CASE SendStop
  BY <1>11 DEF SendStop, Write, Connected
<1>12. CASE SendPause
  BY <1>12 DEF SendPause, Write, Connected
<1>13. CASE LoadFailed
  BY <1>13 DEF LoadFailed
<1>14. CASE Shutdown
  BY <1>14 DEF Shutdown
<1>15. CASE Join
  BY <1>15 DEF Join
<1>16. CASE Connect
  BY <1>16 DEF Connect
<1>17. CASE StartFile
  BY <1>17 DEF StartFile, Receive
<1>18. CASE FileLoaded
  BY <1>18 DEF FileLoaded, Receive
<1>19. CASE EndFile
  BY <1>19 DEF EndFile, Receive
<1>20. CASE EndFileReplaced \/ PauseChanged \/ BufferingChanged
  BY <1>20 DEF EndFileReplaced, PauseChanged, BufferingChanged, Receive
<1>21. CASE CloseRuntime
  BY <1>21 DEF CloseRuntime
<1>22. CASE ExitMonitor
  BY <1>22 DEF ExitMonitor
<1>23. CASE MpvLoadfile
  BY <1>23 DEF MpvLoadfile, RunCommand
<1>24. CASE MpvStop \/ MpvPause
  BY <1>24 DEF MpvStop, MpvPause, RunCommand
<1>25. CASE MpvLoads \/ MpvEnds
  BY <1>25 DEF MpvLoads, MpvEnds
<1>26. ASSUME NEW b \in BOOLEAN, MpvBuffers(b)
       PROVE  RuntimeInv'
  BY <1>26 DEF MpvBuffers
<1>27. CASE MpvDies
  BY <1>27 DEF MpvDies
<1>28. QED
  BY <1>1, <1>2, <1>3, <1>4, <1>5, <1>6, <1>7, <1>8, <1>9, <1>10, <1>11, <1>12, <1>13, <1>14,
     <1>15, <1>16, <1>17, <1>18, <1>19, <1>20, <1>21, <1>22, <1>23, <1>24, <1>25, <1>26, <1>27
  DEF Next, CallerStep, MonitorStep, MpvStep

(* What the flags of a running item give is active; of none, what was.     *)
LEMMA FlagsActive ==
  ASSUME NEW r \in BOOLEAN, NEW b \in BOOLEAN, NEW p \in BOOLEAN, r <=> state \in Active
  PROVE  r <=> FromFlags(r, b, p) \in Active
BY DEF FromFlags, Active

(* The snapshot's two answers agree, action by action: when mpv or the     *)
(* monitor fails, the state becomes ERROR only once no item is running.    *)
LEMMA RunningStep ==
  ASSUME TypeOK, RuntimeInv, RunningIffActive, Next
  PROVE  RunningIffActive'
<1> USE Typed DEF RunningIffActive, snapshot, runtime, player, caller, mpv, counts
<1>1. CASE Load
  BY <1>1 DEF Load
<1>2. CASE Stop \/ Destroy
  BY <1>2 DEF Stop, Destroy, StopFields, Active
<1>3. ASSUME NEW b \in BOOLEAN, SetPaused(b)
      PROVE  RunningIffActive'
  BY <1>3, FlagsActive DEF SetPaused
<1>4. CASE SpawnFails
  BY <1>4 DEF SpawnFails, RuntimeInv, Active
<1>5. CASE Queue
  BY <1>5 DEF Queue, Active
<1>6. CASE LoadFailed
  BY <1>6 DEF LoadFailed, Active
<1>7. CASE StartFile
  BY <1>7 DEF StartFile, Receive, Active
<1>8. CASE FileLoaded
  <2>1. FromFlags(TRUE, buffering, paused) \in Active
    BY DEF FromFlags, Active
  <2>2. QED
    BY <1>8, <2>1 DEF FileLoaded, Receive
<1>9. CASE EndFile
  BY <1>9 DEF EndFile, EndState, Receive, Active
<1>10. CASE PauseChanged \/ BufferingChanged
  <2>1. Head(evts) \in Event
    BY <1>10, Dequeue DEF PauseChanged, BufferingChanged, Receive
  <2>2. Head(evts).on \in BOOLEAN
    BY <1>10, <2>1, EventFields DEF PauseChanged, BufferingChanged, Receive
  <2>3. media_running <=> state' \in Active
    BY <1>10, <2>2, FlagsActive DEF PauseChanged, BufferingChanged
  <2>4. QED
    BY <1>10, <2>3 DEF PauseChanged, BufferingChanged, Receive
<1>11. CASE ExitMonitor
  BY <1>11 DEF ExitMonitor, RuntimeInv, Closed, Active
<1>12. CASE UNCHANGED <<media_running, stop_requested, state>>
  BY <1>12
<1>13. QED
  BY <1>1, <1>2, <1>3, <1>4, <1>5, <1>6, <1>7, <1>8, <1>9, <1>10, <1>11, <1>12
  DEF Next, CallerStep, MonitorStep, MpvStep, EnsureRunning, Spawn, AwaitReady, AwaitFails,
      SendLoadfile, SendStop, SendPause, Shutdown, Join, Connect, EndFileReplaced, Receive,
      CloseRuntime, MpvLoadfile, MpvStop, MpvPause, MpvLoads, MpvEnds, MpvBuffers, MpvDies,
      RunCommand

(* Both are invariants.                                                    *)
LEMMA RuntimeAlways == Spec => [](TypeInv /\ RuntimeInv /\ RunningIffActive)
<1>1. Init => RuntimeInv /\ RunningIffActive
  BY DEF Init, RuntimeInv, RunningIffActive, Closed, Active
<1>2. TypeOK /\ RuntimeInv /\ RunningIffActive /\ [Next]_vars => (RuntimeInv /\ RunningIffActive)'
  <2>1. RuntimeInv /\ RunningIffActive /\ UNCHANGED vars => (RuntimeInv /\ RunningIffActive)'
    BY DEF RuntimeInv, RunningIffActive, Closed, vars, snapshot, runtime, player, caller, mpv,
           counts
  <2>2. QED
    BY <2>1, RuntimeStep, RunningStep
<1>3. TypeInv => TypeOK
  BY DEF TypeInv
<1>4. QED
  BY <1>1, <1>2, <1>3, TypeInvAlways, PTL DEF Spec

(* An item is running exactly in the states in which the video window is   *)
(* shown, whichever thread wrote last, and none after a stop.              *)
THEOREM RunningIffActiveAlways == Spec => []RunningIffActive
BY RuntimeAlways, PTL

--------------------------------------------------------------------------------
(* Counting the messages of a kind in a queue.                             *)

(* The count is a number, and 0 exactly when there is none.                *)
LEMMA CountType ==
  ASSUME NEW T, NEW s \in Seq(T), NEW K
  PROVE  /\ IsFiniteSet({i \in DOMAIN s : s[i] \in K})
         /\ Count(s, K) \in Nat
         /\ Count(s, K) = 0 <=> \A i \in DOMAIN s : s[i] \notin K
<1> DEFINE N == {i \in DOMAIN s : s[i] \in K}
<1>1. DOMAIN s = 1..Len(s) /\ Len(s) \in Nat
  OBVIOUS
<1>2. IsFiniteSet(1..Len(s))
  BY <1>1, FS_Interval
<1>3. N \in SUBSET (1..Len(s))
  BY <1>1
<1>4. IsFiniteSet(N)
  BY <1>2, <1>3, FS_Subset
<1>5. Cardinality(N) \in Nat /\ (Cardinality(N) = 0 <=> N = {})
  BY <1>4, FS_CardinalityType, FS_EmptySet
<1>6. QED
  BY <1>4, <1>5 DEF Count

(* Nothing is counted in an empty queue.                                   *)
LEMMA CountEmpty ==
  ASSUME NEW K
  PROVE  Count(<<>>, K) = 0
<1>1. {i \in DOMAIN <<>> : <<>>[i] \in K} = {}
  OBVIOUS
<1>2. QED
  BY <1>1, FS_EmptySet DEF Count

(* A message that is written is counted if it is of the kind.              *)
LEMMA CountAppend ==
  ASSUME NEW T, NEW s \in Seq(T), NEW x \in T, NEW K
  PROVE  Count(Append(s, x), K) = Count(s, K) + (IF x \in K THEN 1 ELSE 0)
<1> DEFINE n == Len(s)
           t == Append(s, x)
           N == {i \in DOMAIN s : s[i] \in K}
           M == {i \in DOMAIN t : t[i] \in K}
<1>1. /\ t \in Seq(T) /\ n \in Nat /\ DOMAIN s = 1..n /\ DOMAIN t = 1..(n + 1)
      /\ t[n + 1] = x /\ \A i \in 1..n : t[i] = s[i]
  BY Enqueue
<1>2. IsFiniteSet(N) /\ Cardinality(N) \in Nat
  BY CountType DEF Count
<1>3. n + 1 \notin N
  BY <1>1
<1>4. CASE x \in K
  <2>1. M = N \cup {n + 1}
    BY <1>1, <1>4
  <2>2. Cardinality(M) = Cardinality(N) + 1
    BY <1>2, <1>3, <2>1, FS_AddElement
  <2>3. QED
    BY <1>4, <2>2 DEF Count
<1>5. CASE x \notin K
  <2>1. M = N
    BY <1>1, <1>5
  <2>2. Count(t, K) = Count(s, K)
    BY <2>1 DEF Count
  <2>3. Count(s, K) \in Nat
    BY <1>2 DEF Count
  <2>4. QED
    BY <1>5, <2>2, <2>3
<1>6. QED
  BY <1>4, <1>5

(* A message that is read is not counted any more.                         *)
LEMMA CountTail ==
  ASSUME NEW T, NEW s \in Seq(T), s # <<>>, NEW K
  PROVE  Count(Tail(s), K) = Count(s, K) - (IF Head(s) \in K THEN 1 ELSE 0)
<1> DEFINE n == Len(s)
           t == Tail(s)
           N == {i \in DOMAIN s : s[i] \in K}
           M == {i \in DOMAIN t : t[i] \in K}
           f == [i \in M |-> i + 1]
<1>1. /\ t \in Seq(T) /\ n \in Nat \ {0} /\ DOMAIN s = 1..n /\ DOMAIN t = 1..(n - 1)
      /\ Head(s) = s[1] /\ \A i \in 1..(n - 1) : t[i] = s[i + 1]
  BY Dequeue
<1>2. IsFiniteSet(N) /\ IsFiniteSet(M) /\ Cardinality(N) \in Nat /\ Cardinality(M) \in Nat
  BY <1>1, CountType DEF Count
<1>3. Cardinality(N \ {1}) = Cardinality(M)
  <2>1. f \in [M -> N \ {1}]
    BY <1>1
  <2>2. \A i, j \in M : f[i] = f[j] => i = j
    BY <1>1
  <2>3. ASSUME NEW k \in N \ {1}
        PROVE  \E i \in M : f[i] = k
    <3>1. k - 1 \in M /\ f[k - 1] = k
      BY <1>1, <2>3
    <3>2. QED
      BY <3>1
  <2>4. ExistsBijection(M, N \ {1})
    BY <2>1, <2>2, <2>3, Fun_IsBij DEF ExistsBijection
  <2>5. QED
    BY <1>2, <2>4, FS_Bijection
<1>4. Cardinality(N \ {1}) = IF 1 \in N THEN Cardinality(N) - 1 ELSE Cardinality(N)
  BY <1>2, FS_RemoveElement
<1>5. 1 \in N <=> Head(s) \in K
  BY <1>1
<1>6. Count(s, K) = Cardinality(N) /\ Count(t, K) = Cardinality(M)
  BY DEF Count
<1> HIDE DEF M, N
<1>7. QED
  BY <1>2, <1>3, <1>4, <1>5, <1>6

--------------------------------------------------------------------------------
(* Counting the loads on their way.                                        *)

LoadsSent == Count(cmds, LoadfileCommand)
Starts == Count(evts, StartFileEvent)

(* The three counts are numbers.                                           *)
LEMMA OutstandingType ==
  ASSUME TypeOK
  PROVE  /\ LoadsSent \in Nat /\ Starts \in Nat /\ Outstanding \in Nat
         /\ Outstanding = LoadsSent + Starts + (IF ui \in {"send", "failed"} THEN 1 ELSE 0)
<1>1. LoadsSent \in Nat
  BY Typed, CountType DEF LoadsSent
<1>2. Starts \in Nat
  BY Typed, CountType DEF Starts
<1>3. Outstanding = LoadsSent + Starts + (IF ui \in {"send", "failed"} THEN 1 ELSE 0)
  BY DEF Outstanding, LoadsSent, Starts
<1>4. QED
  BY <1>1, <1>2, <1>3

(* Only the start-file the monitor reads is one less.                      *)
LEMMA ReadCounted ==
  ASSUME TypeOK, NEW name, Receive(name)
  PROVE  /\ Starts' = Starts - (IF name = "start-file" THEN 1 ELSE 0)
         /\ LoadsSent' = LoadsSent
<1>1. evts \in Seq(Event) /\ evts # <<>> /\ evts' = Tail(evts) /\ Head(evts).event = name
  BY Typed DEF Receive
<1>2. Head(evts) \in Event
  BY <1>1, Dequeue
<1>3. Head(evts) \in StartFileEvent <=> name = "start-file"
  BY <1>1, <1>2, EventFields
<1>4. Starts' = Starts - (IF Head(evts) \in StartFileEvent THEN 1 ELSE 0)
  BY <1>1, CountTail DEF Starts
<1>5. cmds' = cmds
  BY DEF Receive, mpv
<1>6. QED
  BY <1>3, <1>4, <1>5 DEF LoadsSent

(* Only the loadfile that mpv takes is one less.                           *)
LEMMA RunCounted ==
  ASSUME TypeOK, NEW op, RunCommand(op)
  PROVE  LoadsSent' = LoadsSent - (IF op = "loadfile" THEN 1 ELSE 0)
<1>1. cmds \in Seq(Command) /\ cmds # <<>> /\ cmds' = Tail(cmds) /\ Head(cmds).op = op
  BY Typed DEF RunCommand
<1>2. Head(cmds) \in Command
  BY <1>1, Dequeue
<1>3. Head(cmds) \in LoadfileCommand <=> op = "loadfile"
  BY <1>1, <1>2, CommandFields
<1>4. LoadsSent' = LoadsSent - (IF Head(cmds) \in LoadfileCommand THEN 1 ELSE 0)
  BY <1>1, CountTail DEF LoadsSent
<1>5. QED
  BY <1>3, <1>4

(* An event that is no start-file does not count.                          *)
LEMMA EmitCounted ==
  ASSUME TypeOK, NEW e \in Event, e.event # "start-file"
  PROVE  /\ Append(evts, e) \in Seq(Event)
         /\ Count(Append(evts, e), StartFileEvent) = Starts
<1>1. e \notin StartFileEvent
  BY EventFields
<1>2. Append(evts, e) \in Seq(Event)
  BY Typed, Enqueue
<1>3. Count(Append(evts, e), StartFileEvent) = Starts + 0
  BY <1>1, Typed, CountAppend DEF Starts
<1>4. QED
  BY <1>2, <1>3, OutstandingType

(* Neither does the end of what plays.                                     *)
LEMMA EndsCounted ==
  ASSUME TypeOK, NEW reason \in {"eof", "stop", "error"}
  PROVE  Ends(reason) \in Seq(Event) /\ Count(Ends(reason), StartFileEvent) = Starts
<1>1. CASE playing = 0
  BY <1>1, Typed DEF Ends, Starts
<1>2. CASE playing # 0
  <2> DEFINE e == [event |-> "end-file", item |-> playing, reason |-> reason]
  <2>1. e \in Event /\ e.event # "start-file"
    BY <1>2, Typed, Messages
  <2>2. Ends(reason) = Append(evts, e)
    BY <1>2 DEF Ends
  <2> HIDE DEF e
  <2>3. QED
    BY <2>1, <2>2, EmitCounted
<1>3. QED
  BY <1>1, <1>2

(* A command that is no loadfile does not count.                           *)
LEMMA WriteCounted ==
  ASSUME TypeOK, NEW c \in Command, c.op # "loadfile", NEW sent \in BOOLEAN, Write(c, sent)
  PROVE  LoadsSent' = LoadsSent
<1>1. c \notin LoadfileCommand
  BY CommandFields
<1>2. Count(Append(cmds, c), LoadfileCommand) = LoadsSent + 0
  BY <1>1, Typed, CountAppend DEF LoadsSent
<1>3. cmds' = cmds \/ cmds' = Append(cmds, c)
  BY DEF Write
<1>4. LoadsSent \in Nat
  BY OutstandingType
<1>5. QED
  <2>1. CASE cmds' = cmds
    BY <2>1 DEF LoadsSent
  <2>2. CASE cmds' = Append(cmds, c)
    <3>1. LoadsSent' = Count(Append(cmds, c), LoadfileCommand)
      BY <2>2 DEF LoadsSent
    <3>2. QED
      BY <1>2, <1>4, <3>1
  <2>3. QED
    BY <1>3, <2>1, <2>2

(* What a step does to the loads on their way while mpv does not fail: one *)
(* more is queued, one has started, or there were none to lose.            *)
LEMMA Balance ==
  ASSUME TypeInv, RuntimeInv, ReliableInv, failures = 0, failures' = 0, Next
  PROVE  \/ Queue /\ Outstanding' = Outstanding + 1
         \/ StartFile /\ Outstanding' = Outstanding - 1
         \/ (Spawn \/ CloseRuntime) /\ pending = 0 /\ pending' = 0 /\ Outstanding' = 0
         \/ Outstanding' = Outstanding /\ (pending' = pending \/ Stop \/ Destroy)
<1> USE Typed DEF snapshot, runtime, player, caller, mpv, counts
<1>t. TypeOK /\ TypeOK'
  BY TypeInvStep DEF TypeInv
<1>o. /\ LoadsSent \in Nat /\ Starts \in Nat /\ LoadsSent' \in Nat /\ Starts' \in Nat
      /\ Outstanding = LoadsSent + Starts + (IF ui \in {"send", "failed"} THEN 1 ELSE 0)
      /\ Outstanding' = LoadsSent' + Starts' + (IF ui' \in {"send", "failed"} THEN 1 ELSE 0)
  <2>1. TypeOK' => /\ LoadsSent' \in Nat /\ Starts' \in Nat
                   /\ Outstanding' = LoadsSent' + Starts'
                                       + (IF ui' \in {"send", "failed"} THEN 1 ELSE 0)
    <3>1. TypeOK' => cmds' \in Seq(Command) /\ evts' \in Seq(Event)
      BY DEF TypeOK
    <3>2. TypeOK' => LoadsSent' \in Nat /\ Starts' \in Nat
      BY <3>1, CountType DEF LoadsSent, Starts
    <3>3. QED
      BY <3>2 DEF Outstanding, LoadsSent, Starts
  <2>2. QED
    BY <1>t, <2>1, OutstandingType
<1>n. LoadsSent \in Nat /\ Starts \in Nat /\ LoadsSent' \in Nat /\ Starts' \in Nat
  BY <1>o
<1>k. cmds' = cmds => LoadsSent' = LoadsSent
  BY DEF LoadsSent
<1>s. evts' = evts => Starts' = Starts
  BY DEF Starts
<1>u. \A op : RunCommand(op) => ui' = ui /\ pending' = pending
  BY DEF RunCommand
<1>v. \A name : Receive(name) => ui' = ui
  BY DEF Receive
<1>1. CASE Load \/ EnsureRunning \/ SpawnFails \/ AwaitReady \/ AwaitFails \/ Shutdown \/ Join
  BY <1>o, <1>k, <1>s, <1>1
  DEF Load, EnsureRunning, SpawnFails, AwaitReady, AwaitFails, Shutdown, Join
<1>2. CASE Stop \/ Destroy
  BY <1>o, <1>k, <1>s, <1>2 DEF Stop, Destroy
<1>3. ASSUME NEW b \in BOOLEAN, SetPaused(b)
      PROVE  Outstanding' = Outstanding /\ pending' = pending
  BY <1>o, <1>k, <1>s, <1>3 DEF SetPaused
<1>4. CASE Queue
  BY <1>o, <1>k, <1>s, <1>4 DEF Queue
<1>5. CASE SendLoadfile
  <2> DEFINE c == [op |-> "loadfile", item |-> requested]
  <2>1. Connected /\ alive
    BY <1>t, <1>5 DEF SendLoadfile, ReliableInv, RuntimeInv, Connected
  <2>0. cmds' = Append(cmds, c) /\ ui' = "idle"
    BY <1>t, <1>5, <2>1, Delivered
  <2>2. requested \in Items
    BY <1>t, <1>5 DEF SendLoadfile, TypeInv
  <2>3. c \in LoadfileCommand /\ c \in Command
    BY <2>2, Messages
  <2>4. cmds' = Append(cmds, c)
    BY <2>0
  <2> HIDE DEF c
  <2>5. LoadsSent' = LoadsSent + 1
    BY <1>t, <2>3, <2>4, CountAppend DEF LoadsSent
  <2>6. QED
    BY <1>o, <1>s, <1>5, <2>0, <2>5 DEF SendLoadfile
<1>6. CASE SendStop
  <2>1. LoadsSent' = LoadsSent
    BY <1>t, <1>6, Messages, WriteCounted DEF SendStop
  <2>2. QED
    BY <1>o, <1>s, <1>6, <2>1 DEF SendStop
<1>7. CASE SendPause
  <2>1. [op |-> "pause", on |-> wish] \in Command
    BY <1>t, Messages DEF TypeOK
  <2>2. LoadsSent' = LoadsSent
    BY <1>t, <1>7, <2>1, WriteCounted DEF SendPause
  <2>3. QED
    BY <1>o, <1>s, <1>7, <2>2 DEF SendPause
<1>8. CASE LoadFailed
  BY <1>8 DEF LoadFailed, ReliableInv
<1>9. CASE Spawn \/ CloseRuntime
  <2>1. pending = 0 /\ ui \notin {"send", "failed"}
    BY <1>t, <1>9 DEF Spawn, CloseRuntime, ReliableInv, RuntimeInv, Closed
  <2>2. cmds' = <<>> /\ evts' = <<>> /\ pending' = pending /\ ui' \notin {"send", "failed"}
    BY <1>9, <2>1 DEF Spawn, CloseRuntime
  <2>3. LoadsSent' = 0 /\ Starts' = 0
    BY <2>2, CountEmpty DEF LoadsSent, Starts
  <2>4. QED
    BY <1>o, <1>9, <2>1, <2>2, <2>3
<1>10. CASE Connect
  <2>1. [event |-> "pause", on |-> mpv_paused] \in Event
    BY <1>t, Messages
  <2>2. Starts' = Starts
    BY <1>t, <1>10, <2>1, EmitCounted DEF Connect, Starts
  <2>3. QED
    BY <1>o, <1>k, <1>10, <2>2 DEF Connect
<1>11. CASE StartFile
  <2>1. Starts' = Starts - 1 /\ LoadsSent' = LoadsSent
    BY <1>t, <1>11, ReadCounted DEF StartFile
  <2>2. ui' = ui
    BY <1>v, <1>11 DEF StartFile
  <2>3. Starts' = Starts - 1
    BY <1>n, <2>1
  <2>4. QED
    BY <1>o, <1>11, <2>1, <2>2, <2>3
<1>12. CASE FileLoaded \/ EndFile \/ EndFileReplaced \/ PauseChanged \/ BufferingChanged
  <2>1. PICK name \in {"file-loaded", "end-file", "pause", "paused-for-cache"} : Receive(name)
    BY <1>12 DEF FileLoaded, EndFile, EndFileReplaced, PauseChanged, BufferingChanged
  <2>2. Starts' = Starts - 0 /\ LoadsSent' = LoadsSent
    BY <1>t, <2>1, ReadCounted
  <2>3. ui' = ui /\ pending' = pending
    BY <1>v, <1>12, <2>1
    DEF FileLoaded, EndFile, EndFileReplaced, PauseChanged, BufferingChanged
  <2>4. Starts' = Starts
    BY <1>n, <2>2
  <2>5. QED
    BY <1>o, <2>2, <2>3, <2>4
<1>13. CASE ExitMonitor
  BY <1>o, <1>k, <1>s, <1>13 DEF ExitMonitor
<1>14. CASE MpvLoadfile
  <2> DEFINE e == [event |-> "start-file", item |-> Head(cmds).item]
  <2>1. LoadsSent' = LoadsSent - 1
    BY <1>t, <1>14, RunCounted DEF MpvLoadfile
  <2>2. Head(cmds) \in Command /\ Head(cmds).op = "loadfile"
    BY <1>t, <1>14, Dequeue DEF MpvLoadfile, RunCommand
  <2>3. Head(cmds).item \in Items
    BY <2>2, CommandFields
  <2>4. e \in StartFileEvent /\ e \in Event
    BY <2>3, Messages
  <2>5. evts' = Append(Ends("stop"), e)
    BY <1>14 DEF MpvLoadfile
  <2> HIDE DEF e
  <2>6. Ends("stop") \in Seq(Event) /\ Count(Ends("stop"), StartFileEvent) = Starts
    BY <1>t, EndsCounted
  <2>7. Count(Append(Ends("stop"), e), StartFileEvent) = Count(Ends("stop"), StartFileEvent) + 1
    BY <2>4, <2>6, CountAppend
  <2>8. Starts' = Starts + 1
    BY <2>5, <2>6, <2>7 DEF Starts
  <2>9. ui' = ui /\ pending' = pending /\ LoadsSent' = LoadsSent - 1
    BY <1>n, <1>u, <1>14, <2>1 DEF MpvLoadfile
  <2>10. QED
    BY <1>o, <2>8, <2>9
<1>15. CASE MpvStop
  <2>1. LoadsSent' = LoadsSent - 0
    BY <1>t, <1>15, RunCounted DEF MpvStop
  <2>2. Starts' = Starts
    BY <1>t, <1>15, EndsCounted DEF MpvStop, Starts
  <2>3. ui' = ui /\ pending' = pending /\ LoadsSent' = LoadsSent
    BY <1>n, <1>u, <1>15, <2>1 DEF MpvStop
  <2>4. QED
    BY <1>o, <2>2, <2>3
<1>16. CASE MpvPause
  <2>1. LoadsSent' = LoadsSent - 0
    BY <1>t, <1>16, RunCounted DEF MpvPause
  <2>2. Head(cmds) \in Command /\ Head(cmds).op = "pause"
    BY <1>t, <1>16, Dequeue DEF MpvPause, RunCommand
  <2>3. [event |-> "pause", on |-> Head(cmds).on] \in Event
    BY <2>2, CommandFields, Messages
  <2>4. Starts' = Starts
    BY <1>t, <1>16, <2>3, EmitCounted DEF MpvPause, Starts
  <2>5. ui' = ui /\ pending' = pending /\ LoadsSent' = LoadsSent
    BY <1>n, <1>u, <1>16, <2>1 DEF MpvPause
  <2>6. QED
    BY <1>o, <2>4, <2>5
<1>17. CASE MpvLoads
  <2>1. [event |-> "file-loaded", item |-> playing] \in Event
    BY <1>t, <1>17, Messages DEF MpvLoads
  <2>2. Starts' = Starts
    BY <1>t, <1>17, <2>1, EmitCounted DEF MpvLoads, Starts
  <2>3. QED
    BY <1>o, <1>k, <1>17, <2>2 DEF MpvLoads
<1>18. CASE MpvEnds
  <2>1. Starts' = Starts
    BY <1>t, <1>18, EndsCounted DEF MpvEnds, Starts
  <2>2. QED
    BY <1>o, <1>k, <1>18, <2>1 DEF MpvEnds
<1>19. ASSUME NEW b \in BOOLEAN, MpvBuffers(b)
       PROVE  Outstanding' = Outstanding /\ pending' = pending
  <2>1. [event |-> "paused-for-cache", on |-> b] \in Event
    BY Messages
  <2>2. Starts' = Starts
    BY <1>t, <1>19, <2>1, EmitCounted DEF MpvBuffers, Starts
  <2>3. QED
    BY <1>o, <1>k, <1>19, <2>2 DEF MpvBuffers
<1>20. CASE MpvDies
  BY <1>t, <1>20 DEF MpvDies
<1>21. QED
  BY <1>1, <1>2, <1>3, <1>4, <1>5, <1>6, <1>7, <1>8, <1>9, <1>10, <1>11, <1>12, <1>13, <1>14,
     <1>15, <1>16, <1>17, <1>18, <1>19, <1>20
  DEF Next, CallerStep, MonitorStep, MpvStep

(* ReliableInv, action by action.                                          *)
LEMMA ReliableStep ==
  ASSUME TypeInv, RuntimeInv, ReliableInv, Next
  PROVE  ReliableInv'
<1> SUFFICES ASSUME failures' = 0
             PROVE  ReliableInv'
  BY DEF ReliableInv
<1> USE Typed DEF snapshot, runtime, player, caller, mpv, counts
<1>t. TypeOK
  BY DEF TypeInv
<1>r. RuntimeInv'
  BY <1>t, RuntimeStep
<1>0. failures = 0
  <2>1. MpvDies => failures' = failures + 1
    BY DEF MpvDies
  <2>2. SendLoadfile \/ SendStop \/ SendPause => failures = 0
    BY <1>t, SendsCounted
  <2>3. ~MpvDies /\ ~SendLoadfile /\ ~SendStop /\ ~SendPause => failures' = failures
    BY DEF Next, CallerStep, MonitorStep, MpvStep, Load, Stop, SetPaused, Destroy,
      EnsureRunning, Spawn, SpawnFails, AwaitReady, AwaitFails, Queue,
      LoadFailed, Shutdown, Join, Connect, StartFile, FileLoaded, EndFile,
      EndFileReplaced, PauseChanged, BufferingChanged, Receive, CloseRuntime, ExitMonitor,
      MpvLoadfile, MpvStop, MpvPause, MpvLoads, MpvEnds, MpvBuffers, RunCommand
  <2>4. QED
    BY <1>t, <2>1, <2>2, <2>3
<1>1. pending' <= Outstanding'
  <2>1. pending <= Outstanding /\ Outstanding \in Nat /\ pending \in Nat
    BY <1>t, <1>0, OutstandingType DEF ReliableInv
  <2>2. Queue => pending' = pending + 1
    BY DEF Queue
  <2>3. StartFile => pending' = IF pending > 0 THEN pending - 1 ELSE 0
    BY DEF StartFile
  <2>4. Stop \/ Destroy => pending' = 0
    BY DEF Stop, Destroy, StopFields
  <2>5. StartFile => Outstanding > 0
    <3>1. StartFile => Starts' = Starts - 1
      BY <1>t, ReadCounted DEF StartFile
    <3>2. Starts' \in Nat
      <4>1. evts' \in Seq(Event)
        BY EventStep
      <4>2. QED
        BY <4>1, CountType DEF Starts
    <3>3. QED
      BY <1>t, <3>1, <3>2, OutstandingType
  <2>6. QED
    BY <1>0, <2>1, <2>2, <2>3, <2>4, <2>5, Balance
<1>2. /\ monitor' # "polling" =>
           pending' = 0 /\ ui' \notin {"await", "queue", "send"} /\ ~media_running'
      /\ ui' # "failed"
      /\ ui' \in {"queue", "send", "stop"} \/ media_running' => ipc'
  <2> USE <1>t, <1>0 DEF ReliableInv, RuntimeInv, Closed
  <2>1. CASE Load
    BY <2>1 DEF Load
  <2>2. CASE Stop \/ Destroy
    BY <2>2 DEF Stop, Destroy, StopFields
  <2>3. ASSUME NEW b \in BOOLEAN, SetPaused(b)
        PROVE  /\ monitor' # "polling" =>
                    pending' = 0 /\ ui' \notin {"await", "queue", "send"} /\ ~media_running'
               /\ ui' # "failed"
               /\ ui' \in {"queue", "send", "stop"} \/ media_running' => ipc'
    BY <2>3 DEF SetPaused
  <2>4. CASE EnsureRunning
    BY <2>4 DEF EnsureRunning
  <2>5. CASE Spawn
    BY <2>5 DEF Spawn
  <2>6. CASE SpawnFails
    BY <2>6 DEF SpawnFails
  <2>7. CASE AwaitReady \/ AwaitFails
    BY <2>7 DEF AwaitReady, AwaitFails, Connected
  <2>8. CASE Queue
    BY <2>8 DEF Queue
  <2>9. CASE SendLoadfile
    <3>1. Connected /\ alive
      BY <2>9 DEF SendLoadfile, Connected
    <3>2. ui' = "idle"
      BY <2>9, <3>1, Delivered
    <3>3. QED
      BY <2>9, <3>2 DEF SendLoadfile
  <2>10. CASE SendStop \/ SendPause
    BY <2>10 DEF SendStop, SendPause
  <2>11. CASE LoadFailed
    BY <2>11 DEF LoadFailed
  <2>12. CASE Shutdown
    BY <2>12 DEF Shutdown
  <2>13. CASE Join
    BY <2>13 DEF Join
  <2>14. CASE Connect
    BY <2>14 DEF Connect
  <2>15. CASE \E name : Receive(name)
    <3>1. /\ monitor' = "polling" /\ ui' = ui /\ ipc' = ipc /\ ipc
      BY <2>15 DEF Receive
    <3>2. QED
      BY <3>1
  <2>16. CASE CloseRuntime
    BY <2>16 DEF CloseRuntime
  <2>17. CASE ExitMonitor
    BY <2>17 DEF ExitMonitor
  <2>18. CASE UNCHANGED <<player, caller>>
    BY <2>18
  <2>19. QED
    BY <2>1, <2>2, <2>3, <2>4, <2>5, <2>6, <2>7, <2>8, <2>9, <2>10, <2>11, <2>12, <2>13, <2>14,
       <2>15, <2>16, <2>17, <2>18
    DEF Next, CallerStep, MonitorStep, MpvStep, StartFile, FileLoaded, EndFile, EndFileReplaced,
        PauseChanged, BufferingChanged, MpvLoadfile, MpvStop, MpvPause, MpvLoads, MpvEnds,
        MpvBuffers, MpvDies, RunCommand
<1>3. QED
  BY <1>1, <1>2 DEF ReliableInv

(* It is an invariant.                                                     *)
LEMMA ReliableAlways == Spec => [](TypeInv /\ RuntimeInv /\ ReliableInv)
<1>1. Init => ReliableInv
  <2>1. Init => Outstanding = 0
    BY CountEmpty DEF Init, Outstanding
  <2>2. QED
    BY <2>1 DEF Init, ReliableInv
<1>2. TypeInv /\ RuntimeInv /\ ReliableInv /\ [Next]_vars => ReliableInv'
  <2>1. ReliableInv /\ UNCHANGED vars => ReliableInv'
    BY DEF ReliableInv, Outstanding, vars, snapshot, runtime, player, caller, mpv, counts
  <2>2. QED
    BY <2>1, ReliableStep
<1>3. QED
  BY <1>1, <1>2, RuntimeAlways, PTL DEF Spec

(* While mpv did not fail, every load that is counted is still on its way: *)
(* one counted too many would hide the end of the item that plays.         *)
THEOREM NoPhantomLoadAlways == Spec => []NoPhantomLoad
<1>1. ReliableInv => NoPhantomLoad
  BY DEF ReliableInv, NoPhantomLoad
<1>2. QED
  BY <1>1, ReliableAlways, PTL

--------------------------------------------------------------------------------
(* The fate of the requested item.                                         *)

(* What follows when mpv emits an event other than a start: the requested  *)
(* item plays on, or this is its end; nothing else becomes the last start. *)
LEMMA Grow ==
  ASSUME TypeOK, requested' = requested, NEW e \in Event, evts' = Append(evts, e),
         e.event # "start-file",
         \/ e.event \in {"pause", "paused-for-cache"} /\ playing' = playing
         \/ e.event = "file-loaded" /\ playing # 0 /\ playing' = playing
         \/ e.event = "end-file" /\ playing # 0 /\ e.item = playing /\ playing' = 0
  PROVE  /\ \A n \in 0..Len(evts) : Fate(n) => Fate(n)'
         /\ Silent => Silent'
         /\ \A i \in DOMAIN evts' : LastStart(i)' => i \in DOMAIN evts /\ LastStart(i)
<1>0. PICK k \in Nat : k = Len(evts)
  BY Typed
<1>1. /\ DOMAIN evts = 1..k /\ DOMAIN evts' = 1..(k + 1)
      /\ evts'[k + 1] = e /\ \A i \in 1..k : evts'[i] = evts[i]
  BY <1>0, Typed, Enqueue
<1>2. \A n \in 0..k : After(n)' = After(n) \cup {k + 1} /\ k + 1 \notin After(n)
                      /\ After(n) \subseteq 1..k
  BY <1>1 DEF After
<1>3. /\ \A i \in 1..k : /\ IsStart(i)' <=> IsStart(i)
                         /\ IsEnd(i)' <=> IsEnd(i)
                         /\ IsLoaded(i)' <=> IsLoaded(i)
      /\ ~IsStart(k + 1)' /\ (IsEnd(k + 1)' <=> e.event = "end-file")
      /\ IsLoaded(k + 1)' <=> e.event = "file-loaded"
  BY <1>1 DEF IsStart, IsEnd, IsLoaded
<1>4. ASSUME NEW n \in 0..k, Lasting(n)
      PROVE  Fate(n)'
  <2>1. CASE e.event # "end-file"
    <3>1. Lasting(n)'
      BY <1>2, <1>3, <1>4, <2>1 DEF Lasting
    <3>2. QED
      BY <3>1 DEF Fate
  <2>2. CASE e.event = "end-file"
    <3>1. /\ playing' = 0 /\ k + 1 \in After(n)' /\ IsEnd(k + 1)' /\ evts'[k + 1].item = requested'
      BY <1>1, <1>2, <1>3, <1>4, <2>2 DEF Lasting
    <3>2. \A i \in After(n)' : /\ ~IsStart(i)' /\ (IsEnd(i)' => i = k + 1)
                               /\ IsLoaded(i)' => i < k + 1
      BY <1>1, <1>2, <1>3, <1>4, <2>2 DEF Lasting
    <3>3. Over(n)'
      BY <3>1, <3>2 DEF Over
    <3>4. QED
      BY <3>3 DEF Fate
  <2>3. QED
    BY <2>1, <2>2
<1>5. ASSUME NEW n \in 0..k, Over(n)
      PROVE  Fate(n)'
  <2>1. PICK j \in After(n) :
          /\ IsEnd(j) /\ evts[j].item = requested
          /\ \A i \in After(n) : ~IsStart(i) /\ (IsEnd(i) => i = j) /\ (IsLoaded(i) => i < j)
    BY <1>5 DEF Over
  <2>2. playing = 0 /\ playing' = 0 /\ e.event \notin {"file-loaded", "end-file"}
    BY <1>5 DEF Over
  <2>3. j \in After(n)' /\ IsEnd(j)' /\ evts'[j].item = requested'
    BY <1>1, <1>2, <1>3, <2>1
  <2>4. \A i \in After(n)' : ~IsStart(i)' /\ (IsEnd(i)' => i = j) /\ (IsLoaded(i)' => i < j)
    BY <1>1, <1>2, <1>3, <2>1, <2>2
  <2>5. Over(n)'
    BY <2>2, <2>3, <2>4 DEF Over
  <2>6. QED
    BY <2>5 DEF Fate
<1>6. Silent => Silent'
  BY <1>1, <1>3 DEF Silent
<1>7. ASSUME NEW i \in DOMAIN evts', LastStart(i)'
      PROVE  i \in DOMAIN evts /\ LastStart(i)
  BY <1>1, <1>3, <1>7 DEF LastStart
<1>8. QED
  BY <1>0, <1>4, <1>5, <1>6, <1>7 DEF Fate

(* What follows when the monitor reads an event: places move by one, and   *)
(* when it reads the end of the requested item no more is to be told.      *)
LEMMA Shrink ==
  ASSUME TypeOK, UNCHANGED <<requested, playing>>, evts # <<>>, evts' = Tail(evts)
  PROVE  /\ \A i \in DOMAIN evts' : i + 1 \in DOMAIN evts
                                    /\ (LastStart(i)' => LastStart(i + 1))
                                    /\ (Fate(i + 1) => Fate(i)')
         /\ Fate(1) => Fate(0)'
         /\ Lasting(0) => Fate(0)'
         /\ Over(0) /\ ~IsEnd(1) => Fate(0)'
         /\ Over(0) /\ IsEnd(1) => Silent' /\ evts[1].item = requested
         /\ Silent => Silent'
<1> DEFINE k == Len(evts) - 1
<1>1. /\ k \in Nat /\ DOMAIN evts = 1..(k + 1) /\ DOMAIN evts' = 1..k
      /\ \A i \in 1..k : evts'[i] = evts[i + 1]
  BY Typed, Dequeue
<1> HIDE DEF k
<1>2. \A i \in 1..k : /\ IsStart(i)' <=> IsStart(i + 1)
                      /\ IsEnd(i)' <=> IsEnd(i + 1)
                      /\ IsLoaded(i)' <=> IsLoaded(i + 1)
  BY <1>1 DEF IsStart, IsEnd, IsLoaded
<1>3. \A n \in Nat, i \in Int : i \in After(n)' <=> i \in 1..k /\ i > n
  BY <1>1 DEF After
<1>4. \A n \in Nat, i \in Int : i \in After(n) <=> i \in 1..(k + 1) /\ i > n
  BY <1>1 DEF After
<1>5. \A n \in Nat : After(n)' \subseteq 1..k /\ After(n) \subseteq 1..(k + 1)
  BY <1>1 DEF After
<1>6. ASSUME NEW n \in Nat, NEW m \in {n, n + 1}, Lasting(m)
      PROVE  Lasting(n)'
  <2>1. ASSUME NEW i \in After(n)'
        PROVE  ~IsStart(i)' /\ ~IsEnd(i)'
    <3>1. i \in 1..k /\ i > n
      BY <1>3, <1>5
    <3>2. i + 1 \in After(m)
      BY <1>1, <1>4, <3>1
    <3>3. QED
      BY <1>2, <1>6, <3>1, <3>2 DEF Lasting
  <2>2. QED
    BY <1>6, <2>1 DEF Lasting
<1>7. ASSUME NEW n \in Nat, NEW m \in {n, n + 1}, Over(m), m = n => n = 0 /\ ~IsEnd(1)
      PROVE  Over(n)'
  <2>1. PICK j \in After(m) :
          /\ IsEnd(j) /\ evts[j].item = requested
          /\ \A i \in After(m) : ~IsStart(i) /\ (IsEnd(i) => i = j) /\ (IsLoaded(i) => i < j)
    BY <1>7 DEF Over
  <2>2. j \in 1..(k + 1) /\ j > m /\ j > 1
    BY <1>1, <1>4, <1>5, <1>7, <2>1
  <2>3. j - 1 \in 1..k /\ j - 1 > n /\ (j - 1) + 1 = j
    BY <1>1, <1>7, <2>2
  <2>4. j - 1 \in After(n)' /\ IsEnd(j - 1)' /\ evts'[j - 1].item = requested'
    BY <1>1, <1>2, <1>3, <2>1, <2>3
  <2>5. ASSUME NEW i \in After(n)'
        PROVE  ~IsStart(i)' /\ (IsEnd(i)' => i = j - 1) /\ (IsLoaded(i)' => i < j - 1)
    <3>1. i \in 1..k /\ i > n
      BY <1>3, <1>5
    <3>2. i + 1 \in After(m)
      BY <1>1, <1>4, <3>1
    <3>3. QED
      BY <1>1, <1>2, <2>1, <2>2, <3>1, <3>2
  <2>6. playing' = 0
    BY <1>7 DEF Over
  <2>7. QED
    BY <2>4, <2>5, <2>6 DEF Over
<1>8. ASSUME Over(0), IsEnd(1)
      PROVE  Silent' /\ evts[1].item = requested
  <2>1. PICK j \in After(0) :
          /\ IsEnd(j) /\ evts[j].item = requested
          /\ \A i \in After(0) : ~IsStart(i) /\ (IsEnd(i) => i = j) /\ (IsLoaded(i) => i < j)
    BY <1>8 DEF Over
  <2>2. 1 \in After(0)
    BY <1>1, <1>4
  <2>3. j = 1
    BY <1>8, <2>1, <2>2
  <2>4. ASSUME NEW i \in 1..k
        PROVE  ~IsStart(i)' /\ ~IsEnd(i)' /\ ~IsLoaded(i)'
    <3>1. i + 1 \in After(0) /\ i + 1 > 1
      BY <1>1, <1>4
    <3>2. QED
      BY <1>2, <2>1, <2>3, <3>1
  <2>5. playing' = 0
    BY <1>8 DEF Over
  <2>6. QED
    BY <1>1, <2>1, <2>3, <2>4, <2>5 DEF Silent
<1>9. Silent => Silent'
  BY <1>1, <1>2 DEF Silent
<1>10. ASSUME NEW i \in 1..k
       PROVE  /\ LastStart(i)' => LastStart(i + 1)
              /\ Fate(i + 1) => Fate(i)'
  <2>1. ASSUME LastStart(i)', NEW j \in 1..(k + 1), j > i + 1
        PROVE  ~IsStart(j)
    <3>1. j - 1 \in 1..k /\ j - 1 > i /\ (j - 1) + 1 = j
      BY <1>1, <2>1
    <3>2. QED
      BY <1>1, <1>2, <2>1, <3>1 DEF LastStart
  <2>2. QED
    BY <1>1, <1>2, <1>6, <1>7, <2>1 DEF LastStart, Fate
<1>11. QED
  BY <1>1, <1>6, <1>7, <1>8, <1>9, <1>10 DEF Fate

(* What follows for the loads on their way when mpv takes a command.       *)
LEMMA Taken ==
  ASSUME TypeOK, cmds # <<>>, cmds' = Tail(cmds)
  PROVE  /\ \A i \in DOMAIN cmds' : /\ i + 1 \in DOMAIN cmds /\ cmds'[i] = cmds[i + 1]
                                    /\ LastLoadfile(i)' => LastLoadfile(i + 1)
         /\ 1 \in DOMAIN cmds /\ Head(cmds) = cmds[1]
         /\ NoLoadfile' => IF IsLoadfile(1) THEN LastLoadfile(1) ELSE NoLoadfile
<1> DEFINE k == Len(cmds) - 1
<1>1. /\ k \in Nat /\ DOMAIN cmds = 1..(k + 1) /\ DOMAIN cmds' = 1..k
      /\ Head(cmds) = cmds[1] /\ \A i \in 1..k : cmds'[i] = cmds[i + 1]
  BY Typed, Dequeue
<1> HIDE DEF k
<1>2. \A i \in 1..k : IsLoadfile(i)' <=> IsLoadfile(i + 1)
  BY <1>1 DEF IsLoadfile
<1>3. ASSUME NEW i \in 1..k, LastLoadfile(i)'
      PROVE  LastLoadfile(i + 1)
  <2>1. ASSUME NEW j \in 1..(k + 1), j > i + 1
        PROVE  ~IsLoadfile(j)
    <3>1. j - 1 \in 1..k /\ j - 1 > i /\ (j - 1) + 1 = j
      BY <1>1, <2>1
    <3>2. QED
      BY <1>1, <1>2, <1>3, <3>1 DEF LastLoadfile
  <2>2. QED
    BY <1>1, <1>2, <1>3, <2>1 DEF LastLoadfile
<1>4. ASSUME NoLoadfile'
      PROVE  IF IsLoadfile(1) THEN LastLoadfile(1) ELSE NoLoadfile
  <2>1. ASSUME NEW j \in 1..(k + 1), j > 1
        PROVE  ~IsLoadfile(j)
    <3>1. j - 1 \in 1..k /\ (j - 1) + 1 = j
      BY <1>1, <2>1
    <3>2. QED
      BY <1>1, <1>2, <1>4, <3>1 DEF NoLoadfile
  <2>2. QED
    BY <1>1, <2>1 DEF NoLoadfile, LastLoadfile
<1>5. QED
  BY <1>1, <1>3, <1>4

(* ... and when it is sent one.                                            *)
LEMMA Sent ==
  ASSUME TypeOK, NEW c \in Command, cmds' = Append(cmds, c)
  PROVE  LET k == Len(cmds) + 1
         IN  /\ DOMAIN cmds' = 1..k /\ cmds'[k] = c
             /\ c.op = "loadfile" =>
                  ~NoLoadfile' /\ \A i \in DOMAIN cmds' : LastLoadfile(i)' => i = k
             /\ c.op # "loadfile" =>
                  /\ NoLoadfile' => NoLoadfile
                  /\ \A i \in DOMAIN cmds' : LastLoadfile(i)' =>
                       i \in DOMAIN cmds /\ cmds'[i] = cmds[i] /\ LastLoadfile(i)
<1>0. PICK k \in Nat : k = Len(cmds)
  BY Typed
<1>1. /\ DOMAIN cmds = 1..k /\ DOMAIN cmds' = 1..(k + 1)
      /\ cmds'[k + 1] = c /\ \A i \in 1..k : cmds'[i] = cmds[i]
  BY <1>0, Typed, Enqueue
<1>2. /\ \A i \in 1..k : IsLoadfile(i)' <=> IsLoadfile(i)
      /\ IsLoadfile(k + 1)' <=> c.op = "loadfile"
  BY <1>1 DEF IsLoadfile
<1>3. ASSUME c.op = "loadfile"
      PROVE  ~NoLoadfile' /\ \A i \in 1..(k + 1) : LastLoadfile(i)' => i = k + 1
  BY <1>1, <1>2, <1>3 DEF NoLoadfile, LastLoadfile
<1>4. ASSUME c.op # "loadfile"
      PROVE  /\ NoLoadfile' => NoLoadfile
             /\ \A i \in 1..(k + 1) : LastLoadfile(i)' =>
                  i \in 1..k /\ cmds'[i] = cmds[i] /\ LastLoadfile(i)
  BY <1>1, <1>2, <1>4 DEF NoLoadfile, LastLoadfile
<1>5. QED
  BY <1>0, <1>1, <1>3, <1>4

(* What is known of the items survives an event that mpv emits, ...        *)
LEMMA GrowKeeps ==
  ASSUME TypeOK, UNCHANGED <<requested, media_running>>,
         NEW e \in Event, evts' = Append(evts, e), e.event # "start-file",
         \/ e.event \in {"pause", "paused-for-cache"} /\ playing' = playing
         \/ e.event = "file-loaded" /\ playing # 0 /\ playing' = playing
         \/ e.event = "end-file" /\ playing # 0 /\ e.item = playing /\ playing' = 0
  PROVE  (StartedFate => StartedFate') /\ (Told => Told')
<1>1. /\ \A n \in 0..Len(evts) : Fate(n) => Fate(n)'
      /\ Silent => Silent'
      /\ \A i \in DOMAIN evts' : LastStart(i)' => i \in DOMAIN evts /\ LastStart(i)
  BY Grow
<1>2. DOMAIN evts = 1..Len(evts) /\ Len(evts) \in Nat
  BY Typed
<1>3. StartedFate => StartedFate'
  BY <1>1, <1>2 DEF StartedFate
<1>4. Fate(0) => Fate(0)'
  BY <1>1, <1>2
<1>5. QED
  BY <1>1, <1>3, <1>4, Typed DEF Told

(* ... the end of the item that plays, if any, ...                         *)
LEMMA EndsKeeps ==
  ASSUME TypeOK, UNCHANGED <<requested, media_running>>,
         NEW reason \in {"eof", "stop", "error"}, evts' = Ends(reason), playing' = 0
  PROVE  (StartedFate => StartedFate') /\ (Told => Told')
<1>1. CASE playing = 0
  <2>1. evts' = evts /\ playing' = playing
    BY <1>1 DEF Ends
  <2>2. QED
    BY <2>1 DEF StartedFate, Told, LastStart, Silent, Fate, Lasting, Over, After, IsStart,
                IsEnd, IsLoaded
<1>2. CASE playing # 0
  <2> DEFINE e == [event |-> "end-file", item |-> playing, reason |-> reason]
  <2>1. e \in Event /\ e.event = "end-file" /\ e.item = playing
    BY <1>2, Typed, Messages
  <2>2. evts' = Append(evts, e)
    BY <1>2 DEF Ends
  <2> HIDE DEF e
  <2>3. QED
    BY <1>2, <2>1, <2>2, GrowKeeps
<1>3. QED
  BY <1>1, <1>2

(* ... and a command that is no load, sent or run.                         *)
LEMMA OtherCommandKeeps ==
  ASSUME TypeOK, requested' = requested,
         \/ cmds # <<>> /\ cmds' = Tail(cmds) /\ Head(cmds).op # "loadfile"
         \/ \E c \in Command : c.op # "loadfile" /\ \E sent \in BOOLEAN : Write(c, sent)
  PROVE  (LastIsRequested => LastIsRequested') /\ (NoLoadfile' => NoLoadfile)
<1>1. CASE cmds # <<>> /\ cmds' = Tail(cmds) /\ Head(cmds).op # "loadfile"
  <2>1. ~IsLoadfile(1)
    BY <1>1, Taken DEF IsLoadfile
  <2>2. NoLoadfile' => NoLoadfile
    BY <1>1, <2>1, Taken
  <2>3. LastIsRequested => LastIsRequested'
    BY <1>1, Taken DEF LastIsRequested
  <2>4. QED
    BY <2>2, <2>3
<1>2. ASSUME NEW c \in Command, c.op # "loadfile", cmds' = Append(cmds, c)
      PROVE  (LastIsRequested => LastIsRequested') /\ (NoLoadfile' => NoLoadfile)
  <2>1. /\ NoLoadfile' => NoLoadfile
        /\ \A i \in DOMAIN cmds' : LastLoadfile(i)' =>
             i \in DOMAIN cmds /\ cmds'[i] = cmds[i] /\ LastLoadfile(i)
    BY <1>2, Sent
  <2>2. QED
    BY <2>1 DEF LastIsRequested
<1>3. CASE cmds' = cmds
  BY <1>3 DEF LastIsRequested, NoLoadfile, LastLoadfile, IsLoadfile
<1>4. QED
  BY <1>1, <1>2, <1>3 DEF Write

(* An event that is read moves the starts only.                            *)
LEMMA ReadKeeps ==
  ASSUME TypeOK, NEW name, Receive(name)
  PROVE  /\ StartedFate => StartedFate'
         /\ LastIsRequested => LastIsRequested'
         /\ NoLoadfile' => NoLoadfile
<1>1. /\ requested' = requested /\ playing' = playing /\ cmds' = cmds
      /\ evts # <<>> /\ evts' = Tail(evts)
  BY DEF Receive, mpv
<1>2. \A i \in DOMAIN evts' : i + 1 \in DOMAIN evts
                              /\ (LastStart(i)' => LastStart(i + 1))
                              /\ (Fate(i + 1) => Fate(i)')
  BY <1>1, Shrink
<1>3. StartedFate => StartedFate'
  BY <1>2 DEF StartedFate
<1>4. (LastIsRequested => LastIsRequested') /\ (NoLoadfile' => NoLoadfile)
  BY <1>1 DEF LastIsRequested, NoLoadfile, LastLoadfile, IsLoadfile
<1>5. QED
  BY <1>3, <1>4

(* A load that is queued is on its way.                                    *)
LEMMA QueueCounts ==
  ASSUME TypeInv, RuntimeInv, ReliableInv, failures = 0, Queue
  PROVE  Outstanding' # 0
<1>1. TypeOK /\ Outstanding \in Nat /\ pending \in Nat
  BY Typed, OutstandingType DEF TypeInv
<1>2. Next /\ failures' = 0
  BY DEF Next, CallerStep, Queue, counts
<1>3. ui = "queue" /\ ui' = "send" /\ pending' = pending + 1
  BY DEF Queue
<1>4. ~StartFile /\ ~Spawn /\ ~CloseRuntime /\ ~Stop /\ ~Destroy
  BY <1>3 DEF StartFile, Receive, Spawn, CloseRuntime, Stop, Destroy, caller
<1>5. QED
  BY <1>1, <1>2, <1>3, <1>4, Balance

(* OnItsWay and Settled, action by action, while nobody stops and mpv does *)
(* not fail.  Only reading the start of the last load ends the time in     *)
(* which a load is on its way.                                             *)
LEMMA FateStep ==
  ASSUME TypeInv, RuntimeInv, ReliableInv, OngoingInv, Next, Ongoing, Ongoing'
  PROVE  OnItsWay' /\ Settled'
<1> USE DEF snapshot, runtime, player, caller, mpv, counts
<1>t. TypeOK /\ TypeOK'
  BY TypeInvStep DEF TypeInv
<1>i. OnItsWay /\ Settled
  BY DEF OngoingInv
<1>r. failures = 0 /\ failures' = 0 /\ ~stop_requested /\ ~stop_requested' /\ monitor' = "polling"
  BY DEF Ongoing
<1>s. ASSUME ~StartFile, Outstanding = 0 /\ Told => Told'
      PROVE  Settled'
  <2>1. Outstanding \in Nat
    BY <1>t, OutstandingType
  <2>2. ~Spawn /\ ~CloseRuntime
    BY <1>r, <1>t, Typed DEF Spawn, CloseRuntime, Ongoing, RuntimeInv
  <2>3. Outstanding' = 0 => Outstanding = 0
    BY <1>r, <1>s, <2>1, <2>2, Balance
  <2>4. QED
    BY <1>i, <1>s, <2>3 DEF Settled
<1>w. UNCHANGED evts => ~StartFile
  <2>1. StartFile => evts \in Seq(Event) /\ evts # <<>> /\ evts' = Tail(evts)
    BY <1>t, Typed DEF StartFile, Receive
  <2>2. evts \in Seq(Event) /\ evts # <<>> => Tail(evts) # evts
    <3>1. evts \in Seq(Event) /\ evts # <<>> => Len(Tail(evts)) = Len(evts) - 1 /\ Len(evts) \in Nat
      BY Dequeue
    <3>2. QED
      BY <3>1
  <2>3. QED
    BY <2>1, <2>2
<1>m. MpvStop \/ MpvPause \/ MpvLoadfile => ~StartFile
  <2>1. MpvStop \/ MpvPause \/ MpvLoadfile => cmds # <<>> /\ cmds' = Tail(cmds)
    BY DEF MpvStop, MpvPause, MpvLoadfile, RunCommand
  <2>2. cmds # <<>> => Tail(cmds) # cmds
    <3>1. cmds # <<>> => Len(Tail(cmds)) = Len(cmds) - 1 /\ Len(cmds) \in Nat
      BY <1>t, Typed, Dequeue
    <3>2. QED
      BY <3>1
  <2>3. StartFile => cmds' = cmds
    BY DEF StartFile, Receive
  <2>4. QED
    BY <2>1, <2>2, <2>3
<1>f. ASSUME UNCHANGED <<cmds, evts, playing, requested, media_running>>,
             ui = "send" => ui' = "send"
      PROVE  OnItsWay' /\ Settled'
  <2>1. Told => Told'
    BY <1>f DEF Told, Silent, Fate, Lasting, Over, After, IsStart, IsEnd, IsLoaded
  <2>2. StartedFate => StartedFate'
    BY <1>f DEF StartedFate, LastStart, Fate, Lasting, Over, After, IsStart, IsEnd, IsLoaded
  <2>3. (LastIsRequested => LastIsRequested') /\ (NoLoadfile' => NoLoadfile)
    BY <1>f DEF LastIsRequested, NoLoadfile, LastLoadfile, IsLoadfile
  <2>4. QED
    BY <1>f, <1>i, <1>s, <1>w, <2>1, <2>2, <2>3 DEF OnItsWay
<1>1. CASE Load \/ EnsureRunning \/ SpawnFails \/ AwaitReady \/ AwaitFails \/ Shutdown \/ Join
           \/ ExitMonitor
  BY <1>1, <1>f, <1>r
  DEF Load, EnsureRunning, SpawnFails, AwaitReady, AwaitFails, Shutdown, Join, ExitMonitor
<1>2. CASE Stop \/ Destroy
  BY <1>2, <1>r DEF Stop, Destroy, StopFields
<1>3. ASSUME NEW b \in BOOLEAN, SetPaused(b)
      PROVE  OnItsWay' /\ Settled'
  BY <1>3, <1>f DEF SetPaused
<1>4. CASE Queue
  <2>1. ui' = "send" /\ Outstanding' # 0
    BY <1>4, <1>r, QueueCounts DEF Queue
  <2>2. QED
    BY <2>1 DEF OnItsWay, Settled
<1>5. CASE SendLoadfile
  <2> DEFINE c == [op |-> "loadfile", item |-> requested]
  <2>1. Connected /\ alive
    BY <1>t, <1>r, <1>5 DEF SendLoadfile, ReliableInv, RuntimeInv, Connected
  <2>2. c \in Command /\ c.op = "loadfile" /\ c.item = requested
    BY <1>t, <1>5, Typed, Messages DEF SendLoadfile, TypeInv
  <2>3. cmds' = Append(cmds, c)
    BY <1>t, <1>r, <1>5, <2>1, Delivered
  <2> HIDE DEF c
  <2>4. PICK k : cmds'[k] = c /\ ~NoLoadfile' /\ \A i \in DOMAIN cmds' : LastLoadfile(i)' => i = k
    BY <1>t, <2>2, <2>3, Sent
  <2>5. requested' = requested /\ pending' = pending /\ ui = "send"
    BY <1>5 DEF SendLoadfile
  <2>6. OnItsWay'
    BY <2>2, <2>4, <2>5 DEF OnItsWay, LastIsRequested
  <2>7. Outstanding # 0
    BY <1>t, <2>5, OutstandingType
  <2>8. UNCHANGED evts
    BY <1>5 DEF SendLoadfile
  <2>9. QED
    BY <1>s, <1>w, <2>6, <2>7, <2>8
<1>6. CASE SendStop \/ SendPause
  <2>1. \E c \in Command : c.op # "loadfile" /\ \E sent \in BOOLEAN : Write(c, sent)
    BY <1>6, <1>t, Messages DEF SendStop, SendPause, TypeOK
  <2>2. (LastIsRequested => LastIsRequested') /\ (NoLoadfile' => NoLoadfile)
    BY <1>6, <1>t, <2>1, OtherCommandKeeps DEF SendStop, SendPause
  <2>3. UNCHANGED <<evts, playing, requested, media_running>> /\ ui # "send"
    BY <1>6 DEF SendStop, SendPause
  <2>4. (StartedFate => StartedFate') /\ (Told => Told')
    BY <2>3 DEF Told, Silent, StartedFate, LastStart, Fate, Lasting, Over, After,
                      IsStart, IsEnd, IsLoaded
  <2>5. QED
    BY <1>i, <1>s, <1>w, <2>2, <2>3, <2>4 DEF OnItsWay
<1>7. CASE LoadFailed \/ Spawn \/ CloseRuntime \/ MpvDies
  BY <1>7, <1>r, <1>t, Typed
  DEF LoadFailed, Spawn, CloseRuntime, MpvDies, ReliableInv, RuntimeInv, Ongoing
<1>8. ASSUME NEW e \in Event, evts' = Append(evts, e),
             UNCHANGED <<requested, media_running, ui, cmds>>, e.event # "start-file",
             \/ e.event \in {"pause", "paused-for-cache"} /\ playing' = playing
             \/ e.event = "file-loaded" /\ playing # 0 /\ playing' = playing
      PROVE  OnItsWay' /\ Settled'
  <2>1. (StartedFate => StartedFate') /\ (Told => Told')
    BY <1>8, <1>t, GrowKeeps
  <2>2. (LastIsRequested => LastIsRequested') /\ (NoLoadfile' => NoLoadfile)
    BY <1>8 DEF LastIsRequested, NoLoadfile, LastLoadfile, IsLoadfile
  <2>3. ~StartFile
    <3>1. Len(evts') = Len(evts) + 1 /\ Len(evts) \in Nat
      BY <1>8, <1>t, Typed, Enqueue
    <3>2. StartFile => Len(evts') = Len(evts) - 1
      BY <1>t, Typed, Dequeue DEF StartFile, Receive
    <3>3. QED
      BY <3>1, <3>2
  <2>4. QED
    BY <1>8, <1>i, <1>s, <2>1, <2>2, <2>3 DEF OnItsWay
<1>9. CASE Connect
  <2> DEFINE e == [event |-> "pause", on |-> mpv_paused]
  <2>1. e \in Event /\ e.event = "pause"
    BY <1>t, Typed, Messages
  <2>2. /\ evts' = Append(evts, e)
        /\ UNCHANGED <<requested, media_running, ui, cmds, playing>>
    BY <1>9 DEF Connect
  <2> HIDE DEF e
  <2>3. QED
    BY <1>8, <2>1, <2>2
<1>10. CASE MpvLoads
  <2> DEFINE e == [event |-> "file-loaded", item |-> playing]
  <2>1. e \in Event /\ e.event = "file-loaded"
    BY <1>10, <1>t, Typed, Messages DEF MpvLoads
  <2>2. /\ evts' = Append(evts, e) /\ playing # 0
        /\ UNCHANGED <<requested, media_running, ui, cmds, playing>>
    BY <1>10 DEF MpvLoads
  <2> HIDE DEF e
  <2>3. QED
    BY <1>8, <2>1, <2>2
<1>11. ASSUME NEW b \in BOOLEAN, MpvBuffers(b)
       PROVE  OnItsWay' /\ Settled'
  <2> DEFINE e == [event |-> "paused-for-cache", on |-> b]
  <2>1. e \in Event /\ e.event = "paused-for-cache"
    BY Messages
  <2>2. /\ evts' = Append(evts, e)
        /\ UNCHANGED <<requested, media_running, ui, cmds, playing>>
    BY <1>11 DEF MpvBuffers
  <2> HIDE DEF e
  <2>3. QED
    BY <1>8, <2>1, <2>2
<1>12. CASE MpvEnds
  <2>1. PICK reason \in {"error", "eof"} : evts' = Ends(reason)
    BY <1>12 DEF MpvEnds
  <2>2. UNCHANGED <<requested, media_running, ui, cmds>> /\ playing' = 0 /\ playing # 0
    BY <1>12 DEF MpvEnds
  <2>3. (StartedFate => StartedFate') /\ (Told => Told')
    BY <1>t, <2>1, <2>2, EndsKeeps
  <2>4. (LastIsRequested => LastIsRequested') /\ (NoLoadfile' => NoLoadfile)
    BY <2>2 DEF LastIsRequested, NoLoadfile, LastLoadfile, IsLoadfile
  <2>5. ~StartFile
    BY <2>2 DEF StartFile, Receive
  <2>6. QED
    BY <1>i, <1>s, <2>2, <2>3, <2>4, <2>5 DEF OnItsWay
<1>13. CASE MpvStop
  <2>1. /\ cmds # <<>> /\ cmds' = Tail(cmds) /\ Head(cmds).op # "loadfile"
        /\ UNCHANGED <<requested, media_running, ui>>
        /\ evts' = Ends("stop") /\ playing' = 0
    BY <1>13 DEF MpvStop, RunCommand
  <2>2. (StartedFate => StartedFate') /\ (Told => Told')
    BY <1>t, <2>1, EndsKeeps
  <2>3. (LastIsRequested => LastIsRequested') /\ (NoLoadfile' => NoLoadfile)
    BY <1>t, <2>1, OtherCommandKeeps
  <2>4. ~StartFile
    BY <1>m, <1>13
  <2>5. QED
    BY <1>i, <1>s, <2>1, <2>2, <2>3, <2>4 DEF OnItsWay
<1>14. CASE MpvPause
  <2> DEFINE e == [event |-> "pause", on |-> Head(cmds).on]
  <2>1. /\ cmds # <<>> /\ cmds' = Tail(cmds) /\ Head(cmds).op = "pause"
        /\ UNCHANGED <<requested, media_running, ui, playing>>
        /\ evts' = evts \/ evts' = Append(evts, e)
    BY <1>14 DEF MpvPause, RunCommand
  <2>2. Head(cmds) \in Command
    BY <1>t, <2>1, Typed, Dequeue
  <2>3. e \in Event /\ e.event = "pause"
    BY <2>1, <2>2, CommandFields, Messages
  <2> HIDE DEF e
  <2>4. (StartedFate => StartedFate') /\ (Told => Told')
    <3>1. CASE evts' = evts
      BY <2>1, <3>1 DEF Told, Silent, StartedFate, LastStart, Fate, Lasting, Over, After,
                        IsStart, IsEnd, IsLoaded
    <3>2. CASE evts' = Append(evts, e)
      BY <1>t, <2>1, <2>3, <3>2, GrowKeeps
    <3>3. QED
      BY <2>1, <3>1, <3>2
  <2>5. (LastIsRequested => LastIsRequested') /\ (NoLoadfile' => NoLoadfile)
    BY <1>t, <2>1, OtherCommandKeeps
  <2>6. ~StartFile
    BY <1>m, <1>14
  <2>7. QED
    BY <1>i, <1>s, <2>1, <2>4, <2>5, <2>6 DEF OnItsWay
<1>15. CASE MpvLoadfile
  <2> DEFINE e == [event |-> "start-file", item |-> Head(cmds).item]
  <2>1. /\ cmds # <<>> /\ cmds' = Tail(cmds) /\ Head(cmds).op = "loadfile"
        /\ UNCHANGED <<requested, media_running, ui>>
        /\ playing' = Head(cmds).item
        /\ evts' = Append(Ends("stop"), e)
    BY <1>15 DEF MpvLoadfile, RunCommand
  <2>2. Head(cmds) \in Command /\ Head(cmds).item \in Items /\ e \in Event /\ e.event = "start-file"
    BY <1>t, <2>1, Typed, Dequeue, CommandFields, Messages
  <2> HIDE DEF e
  <2>3. Outstanding # 0
    <3>1. LoadsSent' = LoadsSent - 1
      BY <1>t, <1>15, RunCounted DEF MpvLoadfile
    <3>2. LoadsSent' \in Nat
      BY <1>t, <2>1, CommandStep, CountType DEF LoadsSent
    <3>3. QED
      BY <1>t, <3>1, <3>2, OutstandingType
  <2>4. /\ \A i \in DOMAIN cmds' : /\ i + 1 \in DOMAIN cmds /\ cmds'[i] = cmds[i + 1]
                                   /\ LastLoadfile(i)' => LastLoadfile(i + 1)
        /\ 1 \in DOMAIN cmds /\ Head(cmds) = cmds[1]
        /\ NoLoadfile' => IF IsLoadfile(1) THEN LastLoadfile(1) ELSE NoLoadfile
    BY <1>t, <2>1, Taken
  <2>5. LastIsRequested => LastIsRequested'
    BY <2>1, <2>4 DEF LastIsRequested
  <2>6. ASSUME LastIsRequested, NoLoadfile'
        PROVE  StartedFate'
    <3>1. Head(cmds).item = requested
      BY <2>1, <2>4, <2>6 DEF LastIsRequested, IsLoadfile
    <3>2. PICK k \in Nat : /\ k = Len(Ends("stop")) + 1
                           /\ DOMAIN evts' = 1..k /\ evts'[k] = e
      <4>1. Ends("stop") \in Seq(Event)
        BY <1>t, EndsCounted
      <4>2. QED
        BY <2>1, <2>2, <4>1, Enqueue
    <3>3. IsStart(k)' /\ k \in DOMAIN evts'
      <4>1. k \in 1..k
        BY <2>1, <3>2, EndsCounted, <1>t
      <4>2. QED
        BY <2>2, <3>2, <4>1 DEF IsStart
    <3>4. \A i \in DOMAIN evts' : LastStart(i)' => i = k
      BY <3>2, <3>3 DEF LastStart
    <3>5. After(k)' = {}
      BY <3>2 DEF After
    <3>6. playing' = requested' /\ requested' # 0
      BY <2>1, <2>2, <3>1 DEF Items
    <3>7. Fate(k)'
      BY <3>5, <3>6 DEF Fate, Lasting
    <3>8. QED
      BY <3>4, <3>7 DEF StartedFate
  <2>7. OnItsWay'
    BY <1>i, <2>1, <2>5, <2>6 DEF OnItsWay
  <2>8. QED
    BY <1>m, <1>s, <1>15, <2>3, <2>7
<1>16. ASSUME NEW name, Receive(name)
       PROVE  OnItsWay'
  <2>1. ui' = ui
    BY <1>16 DEF Receive
  <2>2. QED
    BY <1>16, <1>i, <1>t, <2>1, ReadKeeps DEF OnItsWay
<1>17. ASSUME NEW name, Receive(name)
       PROVE  /\ Fate(1) => Fate(0)'
              /\ Lasting(0) => Fate(0)'
              /\ Over(0) /\ ~IsEnd(1) => Fate(0)'
              /\ Over(0) /\ IsEnd(1) => Silent' /\ evts[1].item = requested
              /\ Silent => Silent'
              /\ 1 \in DOMAIN evts /\ 1 \in After(0) /\ evts[1].event = name
  <2>1. /\ requested' = requested /\ playing' = playing
        /\ evts # <<>> /\ evts' = Tail(evts) /\ Head(evts).event = name
    BY <1>17 DEF Receive
  <2>2. Head(evts) = evts[1] /\ 1 \in DOMAIN evts
    BY <1>t, <2>1, Typed, Dequeue
  <2>3. 1 \in After(0)
    BY <2>2 DEF After
  <2>4. QED
    BY <1>t, <2>1, <2>2, <2>3, Shrink
<1>e. \A name : Receive(name) /\ name # "start-file" => ~StartFile
  BY DEF Receive, StartFile
<1>18. CASE StartFile
  <2>1. OnItsWay'
    BY <1>16, <1>18 DEF StartFile
  <2>2. ASSUME Outstanding' = 0
        PROVE  media_running' /\ Fate(0)'
    <3>1. media_running'
      BY <1>18, <1>r, <1>t DEF StartFile
    <3>2. Starts' = Starts - 1 /\ LoadsSent' = LoadsSent
      BY <1>18, <1>t, ReadCounted DEF StartFile
    <3>3. Starts' \in Nat
      BY EventStep, CountType DEF Starts
    <3>4. LoadsSent' \in Nat
      BY CommandStep, CountType DEF LoadsSent
    <3>5. Starts' = 0 /\ LoadsSent = 0 /\ ui # "send"
      <4>1. Outstanding' = LoadsSent' + Starts' + (IF ui' \in {"send", "failed"} THEN 1 ELSE 0)
        BY DEF Outstanding, LoadsSent, Starts
      <4>2. ui' = ui
        BY <1>18 DEF StartFile, Receive
      <4>3. Starts' = 0 /\ LoadsSent' = 0 /\ ui' \notin {"send", "failed"}
        <5>1. PICK n \in Nat : n = IF ui' \in {"send", "failed"} THEN 1 ELSE 0
          OBVIOUS
        <5>2. PICK m \in Nat, l \in Nat : m = Starts' /\ l = LoadsSent'
          BY <3>3, <3>4
        <5>3. l + m + n = 0
          BY <2>2, <4>1, <5>1, <5>2
        <5>4. l = 0 /\ m = 0 /\ n = 0
          BY <5>3
        <5>5. QED
          BY <5>1, <5>2, <5>4
      <4>4. QED
        BY <3>2, <4>2, <4>3
    <3>6. NoLoadfile
      <4>1. \A i \in DOMAIN cmds : cmds[i] \notin LoadfileCommand
        BY <1>t, <3>5, Typed, CountType DEF LoadsSent
      <4>2. \A i \in DOMAIN cmds : cmds[i] \in Command
        BY <1>t, Typed
      <4>3. QED
        BY <4>1, <4>2, CommandFields DEF NoLoadfile, IsLoadfile
    <3>7. StartedFate
      BY <1>i, <3>5, <3>6 DEF OnItsWay
    <3>8. PICK k \in Nat : DOMAIN evts = 1..(k + 1) /\ DOMAIN evts' = 1..k
                           /\ \A i \in 1..k : evts'[i] = evts[i + 1]
      <4>1. evts # <<>> /\ evts' = Tail(evts)
        BY <1>18 DEF StartFile, Receive
      <4>2. Len(evts) - 1 \in Nat
        BY <1>t, <4>1, Typed, Dequeue
      <4>3. /\ DOMAIN evts = 1..((Len(evts) - 1) + 1) /\ DOMAIN evts' = 1..(Len(evts) - 1)
            /\ \A i \in 1..(Len(evts) - 1) : evts'[i] = evts[i + 1]
        BY <1>t, <4>1, Typed, Dequeue
      <4>4. QED
        BY <4>2, <4>3
    <3>9. \A i \in 1..k : evts[i + 1].event # "start-file"
      <4>1. evts' \in Seq(Event) /\ Count(evts', StartFileEvent) = 0
        BY <3>5, EventStep DEF Starts
      <4>2. \A i \in 1..k : evts'[i] \notin StartFileEvent
        BY <3>8, <4>1, CountType
      <4>3. \A i \in 1..k : evts'[i] \in Event
        BY <3>8, <4>1
      <4>4. QED
        BY <3>8, <4>2, <4>3, EventFields
    <3>10. LastStart(1)
      <4>1. IsStart(1)
        BY <1>17, <1>18 DEF StartFile, IsStart
      <4>2. ASSUME NEW j \in 1..(k + 1), j > 1
            PROVE  ~IsStart(j)
        <5>1. j - 1 \in 1..k /\ (j - 1) + 1 = j
          BY <3>8, <4>2
        <5>2. QED
          BY <3>9, <5>1 DEF IsStart
      <4>3. QED
        BY <3>8, <4>1, <4>2 DEF LastStart
    <3>11. Fate(1)
      BY <3>7, <3>8, <3>10 DEF StartedFate
    <3>12. QED
      BY <1>17, <1>18, <3>1, <3>11 DEF StartFile
  <2>3. QED
    BY <2>1, <2>2 DEF Settled, Told
<1>19. CASE FileLoaded
  <2>1. OnItsWay' /\ media_running'
    BY <1>16, <1>19, <1>r DEF FileLoaded
  <2>2. IsLoaded(1) /\ ~IsEnd(1)
    BY <1>17, <1>19 DEF FileLoaded, IsLoaded, IsEnd
  <2>3. ~Silent
    BY <1>17, <1>19, <2>2 DEF FileLoaded, Silent
  <2>4. Told => Told'
    BY <1>17, <1>19, <2>1, <2>2, <2>3 DEF FileLoaded, Told, Fate
  <2>5. QED
    BY <1>19, <1>e, <1>s, <2>1, <2>4 DEF FileLoaded
<1>20. CASE EndFile
  <2>1. OnItsWay' /\ ~media_running'
    BY <1>16, <1>20 DEF EndFile
  <2>2. IsEnd(1) /\ 1 \in After(0)
    BY <1>17, <1>20 DEF EndFile, IsEnd
  <2>3. ~Silent /\ ~Lasting(0)
    BY <1>17, <1>20, <2>2 DEF EndFile, Silent, Lasting
  <2>4. Told => Over(0)
    BY <2>3 DEF Told, Fate
  <2>5. Told => Silent'
    BY <1>17, <1>20, <2>2, <2>4 DEF EndFile
  <2>6. Told => Told'
    BY <2>1, <2>5 DEF Told
  <2>7. QED
    BY <1>20, <1>e, <1>s, <2>1, <2>6 DEF EndFile
<1>21. CASE EndFileReplaced
  <2>1. OnItsWay' /\ pending > 0
    BY <1>16, <1>21, <1>t, Typed DEF EndFileReplaced
  <2>2. Outstanding # 0
    BY <1>r, <1>t, <2>1, Typed DEF ReliableInv
  <2>3. QED
    BY <1>21, <1>e, <1>s, <2>1, <2>2 DEF EndFileReplaced
<1>22. CASE PauseChanged \/ BufferingChanged
  <2>1. PICK name \in {"pause", "paused-for-cache"} : Receive(name)
    BY <1>22 DEF PauseChanged, BufferingChanged
  <2>2. OnItsWay' /\ UNCHANGED media_running
    BY <1>16, <1>22, <2>1 DEF PauseChanged, BufferingChanged
  <2>3. ~IsEnd(1)
    BY <1>17, <2>1 DEF IsEnd
  <2>4. Told => Told'
    BY <1>17, <2>1, <2>2, <2>3 DEF Told, Fate
  <2>5. QED
    BY <1>e, <1>s, <2>1, <2>2, <2>4
<1>23. QED
  BY <1>1, <1>2, <1>3, <1>4, <1>5, <1>6, <1>7, <1>9, <1>10, <1>11, <1>12, <1>13, <1>14, <1>15,
     <1>18, <1>19, <1>20, <1>21, <1>22
  DEF Next, CallerStep, MonitorStep, MpvStep

(* Failures of mpv and stops are counted.                                  *)
LEMMA Counted ==
  ASSUME TypeOK, Next
  PROVE  /\ failures' = 0 => failures = 0
         /\ stops' = (IF Stop THEN stops + 1 ELSE stops)
         /\ stops \in Nat
<1> USE DEF counts
<1>1. MpvDies => failures' = failures + 1 /\ stops' = stops /\ ~Stop
  BY DEF MpvDies, Stop
<1>2. Stop => stops' = stops + 1 /\ failures' = failures
  BY DEF Stop
<1>s. SendLoadfile \/ SendStop \/ SendPause =>
        (failures' = 0 => failures = 0) /\ stops' = stops /\ ~Stop
  BY SendsCounted DEF SendLoadfile, SendStop, SendPause, Stop
<1>3. ~MpvDies /\ ~Stop /\ ~SendLoadfile /\ ~SendStop /\ ~SendPause =>
        failures' = failures /\ stops' = stops
  BY DEF Next, CallerStep, MonitorStep, MpvStep, Load, SetPaused, Destroy,
    EnsureRunning, Spawn, SpawnFails, AwaitReady, AwaitFails, Queue, LoadFailed, Shutdown, Join, Connect, StartFile, FileLoaded, EndFile,
    EndFileReplaced, PauseChanged, BufferingChanged, Receive, CloseRuntime, ExitMonitor,
    MpvLoadfile, MpvStop, MpvPause, MpvLoads, MpvEnds, MpvBuffers, RunCommand
<1>4. failures \in Nat /\ stops \in Nat
  BY Typed
<1>5. QED
  BY <1>1, <1>2, <1>3, <1>4, <1>s

(* Only a load or a new mpv begins such a time.                            *)
LEMMA OngoingBefore ==
  ASSUME TypeInv, RuntimeInv, Next, Ongoing', ~Spawn
  PROVE  monitor = "polling" /\ failures = 0 /\ (~stop_requested \/ Queue)
<1> USE DEF snapshot, runtime, player, caller, mpv, counts
<1>1. ~stop_requested' /\ monitor' = "polling" /\ failures' = 0
  BY DEF Ongoing
<1>2. ~stop_requested \/ Queue
  BY <1>1 DEF Next, CallerStep, MonitorStep, MpvStep, Load, Stop, SetPaused, Destroy,
  EnsureRunning, Spawn, SpawnFails, AwaitReady, AwaitFails, SendLoadfile, SendStop,
  SendPause, LoadFailed, Shutdown, Join, Connect, StartFile, FileLoaded, EndFile,
  EndFileReplaced, PauseChanged, BufferingChanged, Receive, CloseRuntime, ExitMonitor,
  MpvLoadfile, MpvStop, MpvPause, MpvLoads, MpvEnds, MpvBuffers, MpvDies, RunCommand,
  StopFields
<1>3. monitor = "polling"
  BY <1>1 DEF Next, CallerStep, MonitorStep, MpvStep, Load, Stop, SetPaused, Destroy,
    EnsureRunning, SpawnFails, AwaitReady, AwaitFails, Queue, SendLoadfile, SendStop,
    SendPause, LoadFailed, Shutdown, Join, Connect, StartFile, FileLoaded, EndFile,
    EndFileReplaced, PauseChanged, BufferingChanged, Receive, CloseRuntime, ExitMonitor,
    MpvLoadfile, MpvStop, MpvPause, MpvLoads, MpvEnds, MpvBuffers, MpvDies, RunCommand
<1>4. QED
  BY <1>1, <1>2, <1>3, Counted DEF TypeInv

(* OngoingInv.  A load that begins such a time is on its way, whatever is  *)
(* still to be read; a new mpv has nothing to tell.                        *)
LEMMA OngoingStep ==
  ASSUME TypeInv, RuntimeInv, ReliableInv, OngoingInv, Next
  PROVE  OngoingInv'
<1> SUFFICES ASSUME Ongoing'
             PROVE  OnItsWay' /\ Settled'
  BY DEF OngoingInv
<1>t. TypeOK
  BY DEF TypeInv
<1>0. failures = 0
  BY <1>t, Counted DEF Ongoing
<1>1. CASE Spawn
  <2>1. ~media_running
    BY <1>0, <1>1, <1>t DEF Spawn, ReliableInv, RuntimeInv
  <2>2. ~media_running' /\ playing' = 0 /\ cmds' = <<>> /\ evts' = <<>>
    BY <1>1, <2>1 DEF Spawn, snapshot
  <2>3. QED
    BY <2>2 DEF OnItsWay, LastIsRequested, StartedFate, Settled, Told, Silent
<1>2. CASE Queue
  <2>1. Outstanding' # 0 /\ ui' = "send"
    BY <1>0, <1>2, QueueCounts DEF Queue
  <2>2. QED
    BY <2>1 DEF OnItsWay, Settled
<1>3. CASE ~Spawn /\ ~Queue
  BY <1>3, OngoingBefore, FateStep DEF Ongoing
<1>4. QED
  BY <1>1, <1>2, <1>3

(* CountInv.                                                               *)
LEMMA CountStep ==
  ASSUME TypeInv, RuntimeInv, ReliableInv, CountInv, Next
  PROVE  CountInv'
<1> USE DEF snapshot, runtime, player, caller, mpv, counts
<1> SUFFICES ASSUME Ongoing', stops' = 0
             PROVE  pending' = Outstanding' /\ (pending' > 0 => media_running')
  BY DEF CountInv
<1>t. TypeOK
  BY DEF TypeInv
<1>0. failures = 0 /\ stops = 0 /\ failures' = 0 /\ ~Stop
  BY <1>t, Counted DEF Ongoing
<1>1. ~stop_requested' /\ monitor' = "polling"
  BY DEF Ongoing
<1>2. CASE Spawn
  <2>1. pending = 0 /\ ~media_running
    BY <1>0, <1>2, <1>t DEF Spawn, ReliableInv, RuntimeInv
  <2>2. pending' = 0 /\ ui' # "send" /\ cmds' = <<>> /\ evts' = <<>>
    BY <1>2, <2>1 DEF Spawn
  <2>3. LoadsSent' = 0 /\ Starts' = 0 /\ ui' \notin {"send", "failed"}
    BY <1>2, <2>2, CountEmpty DEF LoadsSent, Starts, Spawn
  <2>4. Outstanding' = 0
    BY <2>3 DEF Outstanding, LoadsSent, Starts
  <2>5. QED
    BY <2>2, <2>4
<1>3. CASE ~Spawn
  <2>1. ~stop_requested
    BY <1>0, <1>3, OngoingBefore DEF Queue, RuntimeInv, Closed
  <2>2. Ongoing /\ monitor = "polling"
    BY <1>0, <1>3, <2>1, OngoingBefore DEF Ongoing
  <2>3. pending = Outstanding /\ (pending > 0 => media_running) /\ pending \in Nat
    BY <1>0, <1>t, <2>2, Typed DEF CountInv
  <2>4. ~Stop /\ ~Destroy /\ ~CloseRuntime
    BY <1>0, <1>1 DEF Destroy, StopFields, CloseRuntime
  <2>5. pending' = Outstanding'
    <3>1. Queue => pending' = pending + 1
      BY DEF Queue
    <3>2. StartFile => pending' = IF pending > 0 THEN pending - 1 ELSE 0
      BY DEF StartFile
    <3>3. StartFile => pending > 0
      <4>1. StartFile => Starts' = Starts - 1
        BY <1>t, ReadCounted DEF StartFile
      <4>2. Starts' \in Nat
        BY EventStep, CountType DEF Starts
      <4>3. QED
        BY <1>t, <2>3, <4>1, <4>2, OutstandingType
    <3>4. QED
      BY <1>0, <1>3, <2>3, <2>4, <3>1, <3>2, <3>3, Balance
  <2>6. pending' > 0 => media_running'
    <3>1. CASE Queue \/ StartFile
      BY <2>1, <3>1 DEF Queue, StartFile
    <3>2. CASE FileLoaded
      BY <2>1, <3>2 DEF FileLoaded
    <3>3. CASE EndFile
      BY <2>3, <3>3 DEF EndFile
    <3>4. CASE LoadFailed \/ ExitMonitor
      BY <1>0, <2>2, <3>4 DEF LoadFailed, ExitMonitor, ReliableInv
    <3>5. CASE UNCHANGED <<pending, media_running>>
      BY <2>3, <3>5
    <3>6. QED
      BY <1>3, <2>4, <3>1, <3>2, <3>3, <3>4, <3>5
      DEF Next, CallerStep, MonitorStep, MpvStep, Load, SetPaused, EnsureRunning, SpawnFails,
        AwaitReady, AwaitFails, SendLoadfile, SendStop, SendPause, Shutdown, Join, Connect,
        EndFileReplaced, PauseChanged, BufferingChanged, Receive, MpvLoadfile, MpvStop,
        MpvPause, MpvLoads, MpvEnds, MpvBuffers, MpvDies, RunCommand
  <2>7. QED
    BY <2>5, <2>6
<1>4. QED
  BY <1>2, <1>3

--------------------------------------------------------------------------------
(* After a stop.                                                           *)

(* A stop that is sent follows every load; another command that is sent    *)
(* and is no load changes nothing of that.                                 *)
LEMMA SentEnded ==
  ASSUME TypeOK, NEW c \in Command, c.op # "loadfile", cmds' = Append(cmds, c)
  PROVE  /\ c.op = "stop" => StopFollows'
         /\ StopFollows => StopFollows'
         /\ NoLoadfile => NoLoadfile'
<1>0. PICK k \in Nat : k = Len(cmds)
  BY Typed
<1>1. /\ DOMAIN cmds = 1..k /\ DOMAIN cmds' = 1..(k + 1)
      /\ cmds'[k + 1] = c /\ \A i \in 1..k : cmds'[i] = cmds[i]
  BY <1>0, Typed, Enqueue
<1>2. /\ \A i \in 1..k : IsLoadfile(i)' <=> IsLoadfile(i)
      /\ ~IsLoadfile(k + 1)'
  BY <1>1 DEF IsLoadfile
<1>3. c.op = "stop" => StopFollows'
  <2>1. k + 1 \in DOMAIN cmds' /\ \A j \in DOMAIN cmds' : ~(j > k + 1)
    BY <1>1
  <2>2. QED
    BY <1>1, <2>1 DEF StopFollows
<1>4. ASSUME StopFollows
      PROVE  StopFollows'
  <2>1. PICK i \in 1..k : cmds[i].op = "stop" /\ \A j \in 1..k : j > i => ~IsLoadfile(j)
    BY <1>1, <1>4 DEF StopFollows
  <2>2. i \in DOMAIN cmds' /\ cmds'[i].op = "stop"
    BY <1>1, <2>1
  <2>3. \A j \in DOMAIN cmds' : j > i => ~IsLoadfile(j)'
    BY <1>1, <1>2, <2>1
  <2>4. QED
    BY <2>2, <2>3 DEF StopFollows
<1>5. NoLoadfile => NoLoadfile'
  BY <1>1, <1>2 DEF NoLoadfile
<1>6. QED
  BY <1>3, <1>4, <1>5

(* mpv comes to the stop, or takes it.                                     *)
LEMMA TakenEnded ==
  ASSUME TypeOK, cmds # <<>>, cmds' = Tail(cmds)
  PROVE  /\ StopFollows => StopFollows' \/ (Head(cmds).op = "stop" /\ NoLoadfile')
         /\ NoLoadfile => NoLoadfile' /\ Head(cmds).op # "loadfile"
<1> DEFINE k == Len(cmds) - 1
<1>1. /\ k \in Nat /\ DOMAIN cmds = 1..(k + 1) /\ DOMAIN cmds' = 1..k
      /\ Head(cmds) = cmds[1] /\ \A i \in 1..k : cmds'[i] = cmds[i + 1]
  BY Typed, Dequeue
<1> HIDE DEF k
<1>2. \A i \in 1..k : (IsLoadfile(i)' <=> IsLoadfile(i + 1)) /\ i + 1 \in 1..(k + 1)
  BY <1>1 DEF IsLoadfile
<1>3. ASSUME StopFollows
      PROVE  StopFollows' \/ (Head(cmds).op = "stop" /\ NoLoadfile')
  <2>1. PICK i \in 1..(k + 1) :
          cmds[i].op = "stop" /\ \A j \in 1..(k + 1) : j > i => ~IsLoadfile(j)
    BY <1>1, <1>3 DEF StopFollows
  <2>2. CASE i = 1
    <3>1. \A j \in 1..k : ~IsLoadfile(j)'
      BY <1>1, <1>2, <2>1, <2>2
    <3>2. QED
      BY <1>1, <2>1, <2>2, <3>1 DEF NoLoadfile
  <2>3. CASE i # 1
    <3>1. i - 1 \in 1..k /\ (i - 1) + 1 = i
      BY <1>1, <2>3
    <3>2. i - 1 \in DOMAIN cmds' /\ cmds'[i - 1].op = "stop"
      BY <1>1, <2>1, <3>1
    <3>3. ASSUME NEW j \in 1..k, j > i - 1
          PROVE  ~IsLoadfile(j)'
      <4>1. j + 1 \in 1..(k + 1) /\ j + 1 > i
        BY <1>1, <3>1, <3>3
      <4>2. QED
        BY <1>2, <2>1, <4>1
    <3>4. QED
      BY <1>1, <3>2, <3>3 DEF StopFollows
  <2>4. QED
    BY <2>2, <2>3
<1>4. ASSUME NoLoadfile
      PROVE  NoLoadfile' /\ Head(cmds).op # "loadfile"
  <2>1. \A j \in 1..(k + 1) : ~IsLoadfile(j)
    BY <1>1, <1>4 DEF NoLoadfile
  <2>2. Head(cmds).op # "loadfile"
    BY <1>1, <2>1 DEF IsLoadfile
  <2>3. NoLoadfile'
    BY <1>1, <1>2, <2>1 DEF NoLoadfile
  <2>4. QED
    BY <2>2, <2>3
<1>5. QED
  BY <1>3, <1>4

(* StoppedInv, action by action.  The first stop sends no command only     *)
(* when no item runs, and then no load is on its way and mpv plays none.   *)
LEMMA StoppedStep ==
  ASSUME TypeInv, RuntimeInv, ReliableInv, PlayInv, Next
  PROVE  StoppedInv'
<1> USE DEF snapshot, runtime, player, caller, mpv, counts
<1> DEFINE Stopped == failures = 0 /\ stop_requested /\ stops <= 1 /\ monitor = "polling"
<1> SUFFICES ASSUME Stopped', ui' # "stop", ~Closed'
             PROVE  Ended'
  BY DEF StoppedInv
<1>t. TypeOK
  BY DEF TypeInv
<1>0. failures = 0 /\ stops \in Nat /\ stops' = (IF Stop THEN stops + 1 ELSE stops)
  BY <1>t, Counted
<1>i. Stopped /\ ui # "stop" /\ ~Closed => Ended
  BY DEF PlayInv, StoppedInv
<1>c. ~Closed /\ ~Destroy /\ ~Shutdown /\ ~Join
  BY DEF Closed, Next, CallerStep, MonitorStep, MpvStep, Load, Stop, SetPaused, Destroy,
    EnsureRunning, Spawn, SpawnFails, AwaitReady, AwaitFails, Queue, SendLoadfile, SendStop,
    SendPause, LoadFailed, Shutdown, Join, Connect, StartFile, FileLoaded, EndFile,
    EndFileReplaced, PauseChanged, BufferingChanged, Receive, CloseRuntime, ExitMonitor,
    MpvLoadfile, MpvStop, MpvPause, MpvLoads, MpvEnds, MpvBuffers, MpvDies, RunCommand
<1>1. CASE Stop
  <2>1. stops = 0
    BY <1>0, <1>1
  <2>2. ~stop_requested /\ ~media_running /\ monitor = "polling"
    BY <1>c, <1>1, <2>1, <1>t, Typed DEF Stop, StopFields, RuntimeInv
  <2>3. Ongoing
    BY <1>0, <2>2 DEF Ongoing
  <2>4. Outstanding = 0
    BY <1>t, <2>1, <2>2, <2>3, OutstandingType DEF PlayInv, CountInv
  <2>5. Silent
    BY <2>2, <2>3, <2>4 DEF PlayInv, OngoingInv, Settled, Told
  <2>6. NoLoadfile
    <3>1. LoadsSent = 0
      BY <1>t, <2>4, OutstandingType
    <3>2. \A i \in DOMAIN cmds : cmds[i] \notin LoadfileCommand
      BY <1>t, <3>1, Typed, CountType DEF LoadsSent
    <3>3. \A i \in DOMAIN cmds : cmds[i] \in Command
      BY <1>t, Typed
    <3>4. QED
      BY <3>2, <3>3, CommandFields DEF NoLoadfile, IsLoadfile
  <2>7. cmds' = cmds /\ playing' = playing
    BY <1>1 DEF Stop
  <2>8. QED
    BY <2>5, <2>6, <2>7 DEF Ended, Silent, NoLoadfile, IsLoadfile
<1>2. CASE SendStop
  <2>1. ipc /\ alive /\ runtime_running
    <3>1. monitor = "polling"
      BY <1>2 DEF SendStop
    <3>2. QED
      BY <1>0, <1>2, <3>1 DEF SendStop, ReliableInv, RuntimeInv
  <2>2. cmds' = Append(cmds, [op |-> "stop"])
    BY <1>0, <1>t, <1>2, <2>1, Delivered DEF Connected
  <2>3. QED
    BY <1>t, <2>2, Messages, SentEnded DEF Ended
<1>3. CASE Spawn
  <2>1. cmds' = <<>> /\ playing' = 0
    BY <1>3 DEF Spawn
  <2>2. QED
    BY <2>1 DEF Ended, NoLoadfile
<1>4. CASE Queue \/ CloseRuntime \/ MpvDies
  BY <1>0, <1>4, <1>t, Typed DEF Queue, CloseRuntime, MpvDies
<1>5. CASE ~Stop /\ ~SendStop /\ ~Spawn /\ ~Queue /\ ~CloseRuntime /\ ~MpvDies
  <2>1. stop_requested /\ monitor = "polling" /\ ui # "stop"
    BY <1>5, <1>c DEF Next, CallerStep, MonitorStep, MpvStep, Load, SetPaused,
      EnsureRunning, SpawnFails, AwaitReady, AwaitFails, SendLoadfile,
      SendPause, LoadFailed, Connect, StartFile, FileLoaded, EndFile,
      EndFileReplaced, PauseChanged, BufferingChanged, Receive, ExitMonitor,
      MpvLoadfile, MpvStop, MpvPause, MpvLoads, MpvEnds, MpvBuffers, RunCommand
  <2>2. Ended
    BY <1>0, <1>5, <1>c, <1>i, <2>1
  <2>3. CASE UNCHANGED cmds /\ playing' \in {playing, 0}
    <3>1. StopFollows => StopFollows'
      BY <2>3 DEF StopFollows, IsLoadfile
    <3>2. NoLoadfile => NoLoadfile'
      BY <2>3 DEF NoLoadfile, IsLoadfile
    <3>3. QED
      BY <2>2, <2>3, <3>1, <3>2 DEF Ended
  <2>4. CASE SendPause
    <3>1. [op |-> "pause", on |-> wish] \in Command
      BY <1>t, Messages DEF TypeOK
    <3>2. playing' = playing
      BY <2>4 DEF SendPause
    <3>3. CASE UNCHANGED cmds
      BY <2>3, <3>2, <3>3
    <3>4. CASE cmds' = Append(cmds, [op |-> "pause", on |-> wish])
      BY <1>t, <2>2, <3>1, <3>2, <3>4, SentEnded DEF Ended
    <3>5. QED
      BY <2>4, <3>3, <3>4 DEF SendPause, Write
  <2>5. CASE MpvLoadfile \/ MpvStop \/ MpvPause
    <3>1. /\ cmds # <<>> /\ cmds' = Tail(cmds)
          /\ MpvLoadfile => Head(cmds).op = "loadfile"
          /\ MpvStop => playing' = 0
          /\ MpvPause => Head(cmds).op = "pause" /\ playing' = playing
      BY <2>5 DEF MpvLoadfile, MpvStop, MpvPause, RunCommand
    <3>2. StopFollows => StopFollows' \/ (Head(cmds).op = "stop" /\ NoLoadfile')
      BY <1>t, <3>1, TakenEnded
    <3>3. NoLoadfile => NoLoadfile' /\ Head(cmds).op # "loadfile"
      BY <1>t, <3>1, TakenEnded
    <3>4. Head(cmds).op = "stop" => MpvStop
      BY <2>5, <3>1 DEF RunCommand
    <3>5. QED
      BY <2>2, <2>5, <3>1, <3>2, <3>3, <3>4 DEF Ended
  <2>6. ~SendLoadfile
    BY <2>1 DEF SendLoadfile, RuntimeInv
  <2>7. QED
    BY <1>5, <1>c, <2>3, <2>4, <2>5, <2>6
    DEF Next, CallerStep, MonitorStep, MpvStep, Load, SetPaused,
        EnsureRunning, SpawnFails, AwaitReady, AwaitFails, LoadFailed, Connect, StartFile,
        FileLoaded, EndFile, EndFileReplaced, PauseChanged, BufferingChanged, Receive,
        ExitMonitor, MpvLoads, MpvEnds, MpvBuffers
<1>6. QED
  BY <1>1, <1>2, <1>3, <1>4, <1>5

(* PlayInv is an invariant.                                                *)
LEMMA PlayAlways ==
  Spec => [](TypeInv /\ RuntimeInv /\ RunningIffActive /\ ReliableInv /\ PlayInv)
<1>1. Init => PlayInv
  BY DEF Init, PlayInv, OngoingInv, CountInv, StoppedInv, Ongoing
<1>2. TypeInv /\ RuntimeInv /\ ReliableInv /\ PlayInv /\ [Next]_vars => PlayInv'
  <2> USE DEF vars, snapshot, runtime, player, caller, mpv, counts
  <2>1. OngoingInv /\ UNCHANGED vars => OngoingInv'
    BY DEF OngoingInv, Ongoing, OnItsWay, LastIsRequested, StartedFate, Settled, Told,
           Silent, NoLoadfile, LastLoadfile, LastStart, Fate, Lasting, Over, After, IsLoadfile,
           IsStart, IsEnd, IsLoaded, Outstanding
  <2>2. CountInv /\ UNCHANGED vars => CountInv'
    BY DEF CountInv, Ongoing, Outstanding
  <2>3. StoppedInv /\ UNCHANGED vars => StoppedInv'
    BY DEF StoppedInv, Closed, Ended, StopFollows, NoLoadfile, IsLoadfile
  <2>4. TypeInv /\ RuntimeInv /\ ReliableInv /\ PlayInv /\ Next => PlayInv'
    BY OngoingStep, CountStep, StoppedStep DEF PlayInv
  <2>5. QED
    BY <2>1, <2>2, <2>3, <2>4 DEF PlayInv
<1>3. QED
  BY <1>1, <1>2, RuntimeAlways, ReliableAlways, PTL DEF Spec

(* When nothing is in flight and mpv did not fail, an item counts as running *)
(* exactly when mpv plays one, and it is the one that was requested last:  *)
(* whatever was stopped before the last load, and after the first stop.    *)
THEOREM AgreesWhenQuietAlways == Spec => []AgreesWhenQuiet
<1>1. TypeInv /\ RuntimeInv /\ RunningIffActive /\ PlayInv => AgreesWhenQuiet
  <2> SUFFICES ASSUME TypeInv, RuntimeInv, RunningIffActive, PlayInv, failures = 0, Quiet,
                      stop_requested => stops <= 1
               PROVE  /\ media_running <=> playing # 0
                      /\ playing # 0 => playing = requested
    BY DEF AgreesWhenQuiet
  <2>1. CASE ~stop_requested
    <3>1. Ongoing
      BY <2>1 DEF Ongoing, Quiet
    <3>2. Outstanding = 0
      BY CountEmpty DEF Quiet, Outstanding
    <3>3. Told
      BY <3>1, <3>2 DEF PlayInv, OngoingInv, Settled
    <3>4. ~Over(0)
      BY DEF Quiet, Over, After
    <3>5. QED
      BY <3>3, <3>4 DEF Told, Fate, Lasting, Silent
  <2>2. CASE stop_requested
    <3>1. Ended
      BY <2>2 DEF PlayInv, StoppedInv, Quiet, Closed
    <3>2. ~StopFollows
      BY DEF StopFollows, Quiet
    <3>3. playing = 0 /\ ~media_running
      BY <2>2, <3>1, <3>2 DEF Ended, RunningIffActive
    <3>4. QED
      BY <3>3
  <2>3. QED
    BY <2>1, <2>2, Typed DEF TypeInv
<1>2. QED
  BY <1>1, PlayAlways, PTL

(* The end-file of an item that has been replaced changes nothing of the   *)
(* item requested after it, until the first stop.                          *)
THEOREM OldEndsIgnoredAlways == Spec => OldEndsIgnored
<1> DEFINE OldEnd == stops = 0 /\ failures = 0 /\ ReadsOldEnd
<1>1. TypeInv /\ RuntimeInv /\ PlayInv /\ Next => (OldEnd => ItemKept)
  <2> SUFFICES ASSUME TypeInv, RuntimeInv, PlayInv, Next, OldEnd
               PROVE  ItemKept
    OBVIOUS
  <2> USE DEF ReadsOldEnd, ItemKept, snapshot, runtime, player, caller, mpv, counts
  <2>t. TypeOK
    BY DEF TypeInv
  <2>1. /\ evts \in Seq(Event) /\ Len(evts) > 0 /\ Len(evts') = Len(evts) - 1
        /\ Head(evts) = evts[1] /\ 1 \in DOMAIN evts /\ evts' # evts
    BY <2>t, Typed, Dequeue
  <2>2. CASE EndFile
    <3>1. Ongoing /\ pending = 0
      BY <2>2 DEF EndFile, Receive, Ongoing
    <3>2. IsEnd(1) /\ 1 \in After(0)
      <4>1. IsEnd(1)
        BY <2>1 DEF IsEnd
      <4>2. 1 \in After(0)
        <5> HIDE DEF OldEnd
        <5>1. 1 \in DOMAIN evts /\ 1 > 0
          BY <2>1
        <5>2. QED
          BY <5>1 DEF After
      <4>3. QED
        BY <4>1, <4>2
    <3>3. ~Silent /\ ~Lasting(0)
      BY <2>1, <3>2 DEF Silent, Lasting
    <3>4. Over(0)
      BY <3>1, <3>3 DEF PlayInv, OngoingInv, CountInv, Settled, Told, Fate
    <3>5. evts[1].item = requested
      BY <3>2, <3>4 DEF Over
    <3>6. QED
      BY <2>1, <3>5
  <2>3. CASE EndFileReplaced
    BY <2>3 DEF EndFileReplaced
  <2>4. CASE Spawn \/ CloseRuntime
    BY <2>4 DEF Spawn, CloseRuntime
  <2>5. CASE MpvStep \/ Connect
    BY <2>5 DEF MpvStep, Connect, MpvLoadfile, MpvStop, MpvPause, MpvLoads, MpvEnds, MpvBuffers,
                MpvDies, RunCommand
  <2>6. CASE StartFile \/ FileLoaded \/ PauseChanged \/ BufferingChanged
    BY <2>6 DEF StartFile, FileLoaded, PauseChanged, BufferingChanged, Receive
  <2>7. CASE evts' = evts
    BY <2>1, <2>7
  <2>8. QED
    BY <2>2, <2>3, <2>4, <2>5, <2>6, <2>7
    DEF Next, CallerStep, MonitorStep, Load, Stop, SetPaused, Destroy, EnsureRunning, SpawnFails,
        AwaitReady, AwaitFails, Queue, SendLoadfile, SendStop, SendPause, LoadFailed, Shutdown,
        Join, ExitMonitor
<1>2. TypeInv /\ RuntimeInv /\ PlayInv /\ [Next]_vars => [OldEnd => ItemKept]_vars
  BY <1>1
<1>3. QED
  BY <1>2, PlayAlways, PTL DEF Spec, OldEndsIgnored
====
