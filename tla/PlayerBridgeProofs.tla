---- MODULE PlayerBridgeProofs ----
(***************************************************************************)
(* Machine-checked proofs about PlayerBridge, for every finite series, any *)
(* number of channels and fallback variants, and any bounds on requests.   *)
(***************************************************************************)
EXTENDS PlayerBridge, FiniteSetTheorems, TLAPS

----
(* Type correctness.                                                       *)

\* What set_fullscreen does to the window's variables.
LEMMA SetFullscreenType ==
  ASSUME TypeOK, NEW b \in BOOLEAN, SetFullscreen(b)
  PROVE  /\ {requested', fullscreen', fallback', wm', notified'} \subseteq BOOLEAN
         /\ requests' \in 0 .. MaxRequests
         /\ queue' \in Seq({"add", "remove"})
<1>1. queue' = Append(queue, IF b THEN "add" ELSE "remove")
  BY DEF SetFullscreen
<1>2. queue' \in Seq({"add", "remove"})
  BY <1>1 DEF TypeOK
<1>3. requests' \in 0 .. MaxRequests
  BY BridgeAssumption DEF SetFullscreen
<1> QED
  BY <1>2, <1>3 DEF SetFullscreen, TypeOK

\* What save_current_progress does to the records and the count.
LEMMA SaveProgressType ==
  ASSUME TypeOK, NEW ok \in BOOLEAN, SaveProgress(ok)
  PROVE  /\ db' \in [Episode -> Record]
         /\ watched' \in 0 .. Cardinality(Episode) \cup {None}
         /\ flags' \in SUBSET Episode
         /\ {loaded', exact'} \subseteq BOOLEAN
<1>1. CASE UNCHANGED <<db, watched, flags, loaded, exact>>
  BY <1>1 DEF TypeOK
<1>2. CASE /\ SnapshotValid
           /\ db' = [db EXCEPT ![item] = IF Completed THEN "done" ELSE "open"]
           /\ flags' = Cached /\ UNCHANGED loaded
           /\ \/ watched' = WatchedNow /\ exact' = loaded
              \/ exact' = FALSE /\ UNCHANGED watched
  <2>1. Cached \in SUBSET Episode
    BY <1>2 DEF TypeOK, Cached, SnapshotValid
  <2>2. Cardinality(Cached) \in 0 .. Cardinality(Episode)
    BY <2>1, BridgeAssumption, FS_Subset, FS_CardinalityType
  <2>3. db' \in [Episode -> Record]
    BY <1>2 DEF TypeOK, Record
  <2> QED
    BY <1>2, <2>1, <2>2, <2>3 DEF TypeOK, WatchedNow
<1> QED
  BY <1>1, <1>2 DEF SaveProgress

\* What vip_mpv_player_load shows at once, sent or not.
LEMMA LoadType ==
  ASSUME TypeOK, Load
  PROVE  /\ state' \in {"active", "error", "stopped"}
         /\ pos' \in Position /\ reports' \in Reports
         /\ ended' \in BOOLEAN
<1>1. CASE reports' \in {reports, "none", "item", "other", "before"}
  BY <1>1 DEF TypeOK, Load, Reports, Position
<1>2. CASE reports' \notin {reports, "none", "item", "other", "before"}
  BY <1>2 DEF Load
<1> QED
  BY <1>1, <1>2

\* Opening an item, from the list or from another channel.
LEMMA OpenType ==
  ASSUME TypeOK, NEW c \in Item, Open(c)
  PROVE  /\ screen' = "player" /\ item' = c /\ list' \in {Live, Episode}
         /\ UNCHANGED <<db, watched, flags, loaded, exact, hasMirror>>
         /\ refused' = FALSE
         /\ state' \in {"active", "error", "stopped"}
         /\ pos' \in Position /\ reports' \in Reports
         /\ ended' \in BOOLEAN
         /\ attempt' = 0 /\ mirrored' = FALSE
         /\ tries' = [s \in Source |-> IF s = Own THEN 1 ELSE 0]
BY LoadType DEF Open, TypeOK

\* The sources that are tried in turn.
LEMMA TriesType ==
  ASSUME TypeOK, NEW s, LoadSource(s)
  PROVE  tries' \in [Source -> Nat]
<1>1. tries \in [Source -> Nat] /\ tries' = [tries EXCEPT ![s] = tries[s] + 1]
  BY DEF TypeOK, LoadSource
<1>2. CASE s \in Source
  BY <1>1, <1>2
<1>3. CASE s \notin Source
  BY <1>1, <1>3
<1> QED
  BY <1>2, <1>3

\* Every step keeps the types.
LEMMA TypeStep == TypeOK /\ [Next]_vars => TypeOK'
<1> SUFFICES ASSUME TypeOK, [Next]_vars PROVE TypeOK'
  OBVIOUS
<1> USE DEF progress, snapshot, failover, window, manager
<1>a. Alternatives \in Nat /\ MaxRequests \in Nat \ {0}
  BY BridgeAssumption
<1>1. CASE ToggleFullscreen
  BY <1>1, SetFullscreenType DEF ToggleFullscreen, TypeOK
<1>2. CASE Enforce
  <2>1. Append(queue, "add") \in Seq({"add", "remove"})
    BY DEF TypeOK
  <2>2. requests < MaxRequests => requests + 1 \in 0 .. MaxRequests
    BY <1>a DEF TypeOK
  <2> QED
    BY <1>2, <2>1, <2>2 DEF Enforce, TypeOK
<1>3. CASE PropertyNotify
  BY <1>3 DEF PropertyNotify, Reported, TypeOK
<1>4. CASE Manage
  <2>1. queue' \in Seq({"add", "remove"})
    BY <1>4 DEF Manage, TypeOK
  <2> QED
    BY <1>4, <2>1 DEF Manage, TypeOK
<1>5. CASE Save
  BY <1>5, SaveProgressType DEF Save, TypeOK
<1>6. CASE LeaveSave
  <2>1. PICK ok \in BOOLEAN : SaveProgress(ok) /\ refused' = ~ok
    BY <1>6 DEF LeaveSave
  <2>2. /\ db' \in [Episode -> Record]
        /\ watched' \in 0 .. Cardinality(Episode) \cup {None}
        /\ flags' \in SUBSET Episode
        /\ {loaded', exact'} \subseteq BOOLEAN
    BY <2>1, SaveProgressType
  <2>3. /\ screen' = "leaving" /\ item' = None /\ attempt' \in 0 .. Alternatives
        /\ mirrored' = FALSE /\ tries' \in [Source -> Nat]
    BY <1>a, <1>6 DEF LeaveSave
  <2> QED
    BY <1>6, <2>1, <2>2, <2>3 DEF LeaveSave, TypeOK
<1>6s. CASE LeaveStop
  <2>1. /\ {requested', fullscreen', fallback', wm', notified'} \subseteq BOOLEAN
        /\ requests' \in 0 .. MaxRequests
        /\ queue' \in Seq({"add", "remove"})
    BY <1>6s, SetFullscreenType DEF LeaveStop, TypeOK
  <2>2. tries' \in [Source -> Nat]
    BY <1>6s DEF LeaveStop, TypeOK
  <2>3. reports' \in Reports
    BY <1>6s DEF LeaveStop, TypeOK, Reports
  <2>4. /\ screen' \in {"browse", "player", "leaving"}
        /\ state' \in {"active", "error", "stopped"}
        /\ pos' \in Position /\ item' \in Item \cup {None} /\ attempt' \in 0 .. Alternatives
    BY <1>a, <1>6s DEF LeaveStop, Position, TypeOK
  <2>5. UNCHANGED <<list, db, watched, flags, loaded, exact, hasMirror>>
    BY <1>6s DEF LeaveStop
  <2>6. {refused', ended', mirrored'} \subseteq BOOLEAN
    BY <1>6s DEF LeaveStop, TypeOK
  <2> QED
    BY <2>1, <2>2, <2>3, <2>4, <2>5, <2>6 DEF TypeOK
<1>7. CASE LoadVariant
  <2>1. LoadSource(attempt + 1)
    BY <1>7 DEF LoadVariant
  <2>2. tries' \in [Source -> Nat]
    BY <2>1, TriesType
  <2>3. attempt' \in 0 .. Alternatives
    BY <1>7, <1>a DEF LoadVariant, VariantLeft, NextAttempt, TypeOK
  <2> QED
    BY <1>7, <2>1, <2>2, <2>3, LoadType DEF LoadVariant, LoadSource, TypeOK, Position
<1>8. CASE LoadMirror
  <2>1. LoadSource(Mirror)
    BY <1>8 DEF LoadMirror
  <2>2. tries' \in [Source -> Nat]
    BY <2>1, TriesType
  <2> QED
    BY <1>8, <2>1, <2>2, LoadType DEF LoadMirror, LoadSource, TypeOK, Position
<1>9. ASSUME NEW l \in {Live, Episode}, OpenList(l) PROVE TypeOK'
  BY <1>9 DEF OpenList, TypeOK
<1>10. ASSUME NEW c \in Item, Enter(c) PROVE TypeOK'
  <2>1. Open(c)
    BY <1>10 DEF Enter
  <2>2. /\ {requested', fullscreen', fallback', wm', notified'} \subseteq BOOLEAN
        /\ requests' \in 0 .. MaxRequests
        /\ queue' \in Seq({"add", "remove"})
    BY <1>10, SetFullscreenType DEF Enter, TypeOK
  <2>3. tries' \in [Source -> Nat]
    <3>1. tries' = [s \in Source |-> IF s = Own THEN 1 ELSE 0]
      BY <2>1, OpenType
    <3> QED
      BY <3>1
  <2>4. /\ screen' = "player" /\ item' \in Item /\ list' \in {Live, Episode}
        /\ UNCHANGED <<db, watched, flags, loaded, exact, hasMirror>>
        /\ {refused', ended', mirrored'} \subseteq BOOLEAN
        /\ state' \in {"active", "error", "stopped"}
        /\ pos' \in Position /\ reports' \in Reports
        /\ attempt' = 0
    BY <2>1, OpenType
  <2> QED
    BY <1>a, <2>2, <2>3, <2>4 DEF TypeOK
<1>11. ASSUME NEW c \in Item, SwitchChannel(c) PROVE TypeOK'
  <2>1. Open(c)
    BY <1>11 DEF SwitchChannel
  <2>2. /\ {requested', fullscreen', fallback', wm', notified'} \subseteq BOOLEAN
        /\ requests' \in 0 .. MaxRequests
        /\ queue' \in Seq({"add", "remove"})
    BY <1>11, SetFullscreenType DEF SwitchChannel, TypeOK
  <2>3. tries' \in [Source -> Nat]
    <3>1. tries' = [s \in Source |-> IF s = Own THEN 1 ELSE 0]
      BY <2>1, OpenType
    <3> QED
      BY <3>1
  <2>4. /\ screen' = "player" /\ item' \in Item /\ list' \in {Live, Episode}
        /\ UNCHANGED <<db, watched, flags, loaded, exact, hasMirror>>
        /\ {refused', ended', mirrored'} \subseteq BOOLEAN
        /\ state' \in {"active", "error", "stopped"}
        /\ pos' \in Position /\ reports' \in Reports
        /\ attempt' = 0
    BY <2>1, OpenType
  <2> QED
    BY <1>a, <2>2, <2>3, <2>4 DEF TypeOK
<1>12. CASE StaleEvent \/ Started \/ Plays \/ Ends \/ Breaks \/ Halts \/ Dies
  BY <1>12 DEF StaleEvent, Started, Plays, Ends, Breaks, Halts, Dies, Shows, TypeOK, Position, Reports
<1>13. CASE UNCHANGED vars
  BY <1>13 DEF vars, TypeOK
<1> QED
  BY <1>1, <1>2, <1>3, <1>4, <1>5, <1>6, <1>6s, <1>7, <1>8, <1>9, <1>10, <1>11, <1>12,
     <1>13
  DEF Next

\* The initial state has them.
LEMMA TypeInit == Init => TypeOK
<1> SUFFICES ASSUME Init PROVE TypeOK
  OBVIOUS
<1>1. 0 \in 0 .. Alternatives /\ 0 \in 0 .. MaxRequests
  BY BridgeAssumption
<1>2. tries \in [Source -> Nat] /\ db \in [Episode -> Record] /\ queue \in Seq({"add", "remove"})
  BY DEF Init, Record
<1> QED
  BY <1>1, <1>2 DEF Init, TypeOK, Position, Reports

\* The range of every variable of the player screen, in every reachable state.
THEOREM TypeCorrect == Spec => []TypeOK
<1> QED
  BY TypeInit, TypeStep, PTL DEF Spec

----
(* Progress.                                                               *)

\* There is an item in the player only, one of the list that is open, and the
\* list only changes while browsing: an episode is saved against the flags of
\* its series.
ItemOfList ==
  /\ screen /= "player" => item = None
  /\ item /= None => item \in list

Done == {e \in Episode : db[e] = "done"}

\* What the cached flags know: nothing that is not recorded, and all that is
\* if they were read in full.
FlagsAreDone ==
  /\ flags \subseteq Done
  /\ loaded => flags = list \cap Done

ProgressInv == ItemOfList /\ FlagsAreDone /\ WatchedExact

\* save_current_progress keeps record, cache and count together.
LEMMA SaveKeepsProgress ==
  ASSUME TypeOK, ProgressInv, NEW ok \in BOOLEAN, SaveProgress(ok), list' = list
  PROVE  /\ FlagsAreDone' /\ WatchedExact'
         /\ item \in Episode /\ ended /\ ok => db'[item] = "done"
<1> USE DEF ProgressInv
<1>1. CASE UNCHANGED <<db, watched, flags, loaded, exact>>
  <2>1. FlagsAreDone' /\ WatchedExact'
    BY <1>1 DEF FlagsAreDone, WatchedExact, Done
  <2>2. ASSUME item \in Episode, ended, ok PROVE db'[item] = "done"
    <3>1. item \in flags
      BY <1>1, <2>2 DEF SaveProgress, SnapshotValid, TypeOK, Cached, Completed
    <3> QED
      BY <1>1, <3>1 DEF FlagsAreDone, Done
  <2> QED
    BY <2>1, <2>2
<1>2. CASE /\ SnapshotValid
           /\ db' = [db EXCEPT ![item] = IF Completed THEN "done" ELSE "open"]
           /\ flags' = Cached /\ UNCHANGED loaded
           /\ \/ watched' = WatchedNow /\ exact' = loaded
              \/ exact' = FALSE /\ UNCHANGED watched
  <2>1. item \in Episode /\ item \in list /\ list = Episode
    BY <1>2, BridgeAssumption DEF SnapshotValid, ItemOfList, TypeOK
  <2>2. Done' = IF Completed THEN Done \cup {item} ELSE Done \ {item}
    BY <1>2, <2>1 DEF Done, TypeOK
  <2>3. FlagsAreDone'
    BY <1>2, <2>1, <2>2 DEF FlagsAreDone, Cached, Done
  <2>4. exact' => watched' = Cardinality(Done')
    <3>1. exact' => loaded' /\ watched' = Cardinality(flags')
      BY <1>2 DEF WatchedNow
    <3>2. loaded' => flags' = Done'
      BY <2>1, <2>3 DEF FlagsAreDone, Done
    <3> QED
      BY <3>1, <3>2
  <2>5. ended => db'[item] = "done"
    BY <1>2, <2>1 DEF Completed, TypeOK
  <2> QED
    BY <2>3, <2>4, <2>5 DEF WatchedExact, Done
<1> QED
  BY <1>1, <1>2 DEF SaveProgress

\* Every step keeps record, cache and count together.
LEMMA ProgressStep == TypeOK /\ ProgressInv /\ [Next]_vars => ProgressInv'
<1> SUFFICES ASSUME TypeOK, ProgressInv, [Next]_vars PROVE ProgressInv'
  OBVIOUS
<1> USE DEF progress, snapshot, failover, window, manager
<1>a. ASSUME UNCHANGED <<screen, list, item, db, watched, flags, loaded, exact>> PROVE ProgressInv'
  BY <1>a DEF ProgressInv, ItemOfList, FlagsAreDone, WatchedExact, Done
<1>b. ASSUME NEW c \in Item, Open(c), c \in list PROVE ProgressInv'
  BY <1>b DEF Open, ProgressInv, ItemOfList, FlagsAreDone, WatchedExact, Done
<1>1. CASE ToggleFullscreen \/ Enforce \/ PropertyNotify \/ Manage
  BY <1>1, <1>a DEF ToggleFullscreen, Enforce, PropertyNotify, Manage
<1>2. CASE Save
  <2>1. SaveProgress(TRUE) /\ UNCHANGED <<screen, list, item>>
    BY <1>2 DEF Save
  <2> QED
    BY <2>1, SaveKeepsProgress DEF ProgressInv, ItemOfList
<1>3. CASE LeaveSave
  <2>1. (\E ok \in BOOLEAN : SaveProgress(ok)) /\ list' = list /\ item' = None
    BY <1>3 DEF LeaveSave
  <2> QED
    BY <2>1, SaveKeepsProgress DEF ProgressInv, ItemOfList
<1>3s. CASE LeaveStop
  BY <1>3s DEF LeaveStop, ProgressInv, ItemOfList, FlagsAreDone, WatchedExact, Done
<1>4. CASE LoadVariant \/ LoadMirror
  BY <1>4, <1>a DEF LoadVariant, LoadMirror
<1>5. ASSUME NEW l \in {Live, Episode}, OpenList(l) PROVE ProgressInv'
  <2>1. FlagsAreDone' /\ WatchedExact'
    BY <1>5 DEF OpenList, ProgressInv, FlagsAreDone, WatchedExact, Done
  <2>2. ItemOfList'
    BY <1>5 DEF OpenList, ProgressInv, ItemOfList
  <2> QED
    BY <2>1, <2>2 DEF ProgressInv
<1>6. ASSUME NEW c \in Item, Enter(c) PROVE ProgressInv'
  BY <1>6, <1>b DEF Enter
<1>7. ASSUME NEW c \in Item, SwitchChannel(c) PROVE ProgressInv'
  BY <1>7, <1>b, BridgeAssumption DEF SwitchChannel, ProgressInv, ItemOfList, TypeOK
<1>8. CASE StaleEvent \/ Started \/ Plays \/ Ends \/ Breaks \/ Halts \/ Dies
  BY <1>8, <1>a DEF StaleEvent, Started, Plays, Ends, Breaks, Halts, Dies, Shows
<1>9. CASE UNCHANGED vars
  BY <1>9, <1>a DEF vars
<1> QED
  BY <1>1, <1>2, <1>3, <1>3s, <1>4, <1>5, <1>6, <1>7, <1>8, <1>9 DEF Next

\* They are together at first.
LEMMA ProgressInit == Init => ProgressInv
BY DEF Init, ProgressInv, ItemOfList, FlagsAreDone, WatchedExact, Done

\* ProgressInv is an invariant.
LEMMA ProgressAlways == Spec => []ProgressInv
<1> QED
  BY ProgressInit, ProgressStep, TypeCorrect, PTL DEF Spec

\* The count of watched episodes stored for a series is that of its records,
\* for a series of any length and whatever was opened in between.
THEOREM WatchedExactAlways == Spec => []WatchedExact
<1>1. ProgressInv => WatchedExact
  BY DEF ProgressInv
<1> QED
  BY <1>1, ProgressAlways, PTL

\* An item that played to its end is recorded as complete on leaving it, unless
\* the database refuses the record.
THEOREM EndIsRecordedAlways == Spec => EndIsRecorded
<1>1. TypeOK /\ ProgressInv /\ [Next]_vars =>
        [(screen = "player" /\ item \in Episode /\ ended /\ screen' = "leaving") =>
            (db'[item] = "done" \/ refused')]_vars
  <2> SUFFICES ASSUME TypeOK, ProgressInv, Next,
                      screen = "player", item \in Episode, ended, screen' = "leaving"
               PROVE  db'[item] = "done" \/ refused'
    OBVIOUS
  <2> USE DEF progress, snapshot, failover, window, manager
  <2>1. CASE LeaveSave
    <3>1. PICK ok \in BOOLEAN : SaveProgress(ok) /\ refused' = ~ok
      BY <2>1 DEF LeaveSave
    <3>2. list' = list
      BY <2>1 DEF LeaveSave
    <3> QED
      BY <3>1, <3>2, SaveKeepsProgress
  <2>2. ASSUME screen' = screen \/ screen' = "player" \/ screen' = "browse" PROVE FALSE
    BY <2>2
  <2>3. CASE ToggleFullscreen \/ Enforce \/ PropertyNotify \/ Manage \/ Save
               \/ LeaveStop \/ LoadVariant \/ LoadMirror \/ (\E l \in {Live, Episode} : OpenList(l))
    BY <2>2, <2>3 DEF ToggleFullscreen, Enforce, PropertyNotify, Manage, Save, LeaveStop,
                      LoadVariant, LoadMirror, OpenList
  <2>4. CASE \E c \in Item : Enter(c) \/ SwitchChannel(c)
    BY <2>2, <2>4 DEF Enter, SwitchChannel, Open
  <2>5. CASE StaleEvent \/ Started \/ Plays \/ Ends \/ Breaks \/ Halts \/ Dies
    BY <2>2, <2>5 DEF StaleEvent, Started, Plays, Ends, Breaks, Halts, Dies, Shows
  <2> QED
    BY <2>1, <2>3, <2>4, <2>5 DEF Next
<1> QED
  BY <1>1, TypeCorrect, ProgressAlways, PTL DEF Spec, EndIsRecorded

----
(* Failover.                                                               *)

\* A source has been opened at most once, a variant only if the attempts have
\* come so far, the mirror only if its flag is set.
SourcesTried ==
  \A s \in Source :
    /\ tries[s] \in {0, 1}
    /\ tries[s] = 1 => s <= attempt \/ (s = Mirror /\ mirrored)

\* Every step keeps the sources tried in order.
LEMMA SourcesStep == TypeOK /\ SourcesTried /\ [Next]_vars => SourcesTried'
<1> SUFFICES ASSUME TypeOK, SourcesTried, [Next]_vars PROVE SourcesTried'
  OBVIOUS
<1> USE DEF progress, snapshot, failover, window, manager
<1>n. Alternatives \in Nat /\ attempt \in 0 .. Alternatives /\ mirrored \in BOOLEAN
      /\ tries \in [Source -> Nat]
  BY BridgeAssumption DEF TypeOK
<1>a. ASSUME UNCHANGED <<attempt, mirrored, tries>> PROVE SourcesTried'
  BY <1>a DEF SourcesTried
<1>1. CASE ToggleFullscreen \/ Enforce \/ PropertyNotify \/ Manage \/ Save \/ LeaveStop
  BY <1>1, <1>a DEF ToggleFullscreen, Enforce, PropertyNotify, Manage, Save, LeaveStop
<1>2. CASE LeaveSave
  <2>1. tries' = [s \in Source |-> 0]
    BY <1>2 DEF LeaveSave
  <2> QED
    BY <2>1 DEF SourcesTried
<1>3. CASE LoadVariant
  <2>1. /\ attempt' = attempt + 1 /\ attempt < Alternatives /\ UNCHANGED mirrored
        /\ tries' = [tries EXCEPT ![attempt + 1] = tries[attempt + 1] + 1]
    BY <1>3 DEF LoadVariant, NextAttempt, VariantLeft, LoadSource
  <2>2. tries[attempt + 1] = 0
    BY <1>n, <2>1 DEF SourcesTried, Source, Own, Mirror
  <2> QED
    BY <1>n, <2>1, <2>2 DEF SourcesTried, Source, Own, Mirror
<1>4. CASE LoadMirror
  <2>1. ~mirrored /\ mirrored' = TRUE /\ UNCHANGED attempt
    BY <1>4 DEF LoadMirror
  <2>2. tries[Mirror] = 0
    BY <1>n, <2>1 DEF SourcesTried, Source, Own, Mirror
  <2>3. tries' = [tries EXCEPT ![Mirror] = tries[Mirror] + 1]
    BY <1>4 DEF LoadMirror, LoadSource
  <2> QED
    BY <1>n, <2>1, <2>2, <2>3 DEF SourcesTried, Source, Own, Mirror
<1>5. ASSUME NEW l \in {Live, Episode}, OpenList(l) PROVE SourcesTried'
  BY <1>5, <1>a DEF OpenList
<1>6. ASSUME NEW c \in Item, Enter(c) \/ SwitchChannel(c) PROVE SourcesTried'
  <2>1. tries' = [s \in Source |-> IF s = Own THEN 1 ELSE 0] /\ attempt' = 0
    BY <1>6 DEF Enter, SwitchChannel, Open
  <2> QED
    BY <2>1 DEF SourcesTried, Own
<1>7. CASE StaleEvent \/ Started \/ Plays \/ Ends \/ Breaks \/ Halts \/ Dies
  BY <1>7, <1>a DEF StaleEvent, Started, Plays, Ends, Breaks, Halts, Dies, Shows
<1>8. CASE UNCHANGED vars
  BY <1>8, <1>a DEF vars
<1> QED
  BY <1>1, <1>2, <1>3, <1>4, <1>5, <1>6, <1>7, <1>8 DEF Next

\* However mpv fails, and whatever the number of variants, no source of an item
\* is opened twice.
THEOREM EachSourceOnceAlways == Spec => []EachSourceOnce
<1>1. Init => SourcesTried
  BY DEF Init, SourcesTried
<1>2. SourcesTried => EachSourceOnce
  BY DEF SourcesTried, EachSourceOnce
<1> QED
  BY <1>1, <1>2, SourcesStep, TypeCorrect, PTL DEF Spec

----
(* The window.                                                             *)

\* Full screen was ended, and the request that ends it is the last in the queue
\* of a window manager that still shows it.
Ending ==
  /\ ~requested /\ ~fullscreen /\ ~fallback /\ wm
  /\ queue /= <<>> /\ queue[Len(queue)] = "remove"

\* With no notification under way the flag is right, or about to be.
FullscreenKnown == ~notified => (fullscreen = (wm \/ fallback) \/ Ending)

\* set_fullscreen keeps what is known of the window.
LEMMA SetFullscreenKeeps ==
  ASSUME TypeOK, FullscreenKnown, NEW b \in BOOLEAN, SetFullscreen(b)
  PROVE  FullscreenKnown'
<1>1. queue' /= <<>> /\ queue'[Len(queue')] = IF b THEN "add" ELSE "remove"
  BY DEF SetFullscreen, TypeOK
<1> QED
  BY <1>1 DEF SetFullscreen, FullscreenKnown, Ending, TypeOK

\* Every step keeps it.
LEMMA FullscreenStep == TypeOK /\ FullscreenKnown /\ [Next]_vars => FullscreenKnown'
<1> SUFFICES ASSUME TypeOK, FullscreenKnown, [Next]_vars PROVE FullscreenKnown'
  OBVIOUS
<1> USE DEF progress, snapshot, failover, window, manager
<1>a. ASSUME UNCHANGED <<window, manager>> PROVE FullscreenKnown'
  BY <1>a DEF FullscreenKnown, Ending
<1>1. CASE ToggleFullscreen
  BY <1>1, SetFullscreenKeeps DEF ToggleFullscreen, TypeOK
<1>2. CASE Enforce
  BY <1>2 DEF Enforce, FullscreenKnown, Ending, TypeOK
<1>3. CASE PropertyNotify
  BY <1>3 DEF PropertyNotify, Reported, FullscreenKnown, TypeOK
<1>4. CASE Manage
  <2>1. ASSUME ~notified', fullscreen /= (wm \/ fallback) PROVE Ending'
    <3>1. Ending /\ wm' = wm /\ ~notified
      BY <1>4, <2>1 DEF Manage, FullscreenKnown, TypeOK
    <3>2. Head(queue) /= "remove"
      BY <1>4, <3>1 DEF Manage, Ending
    <3>3. Len(queue) > 1
      BY <3>1, <3>2 DEF Ending, TypeOK
    <3>4. queue' /= <<>> /\ queue'[Len(queue')] = queue[Len(queue)]
      <4>1. queue \in Seq({"add", "remove"}) /\ queue' = Tail(queue)
        BY <1>4 DEF Manage, TypeOK
      <4>2. Len(queue) \in Nat /\ Len(queue') = Len(queue) - 1
        BY <3>3, <4>1
      <4>3. queue'[Len(queue) - 1] = queue[Len(queue) - 1 + 1]
        BY <3>3, <4>1, <4>2
      <4> QED
        BY <3>3, <4>2, <4>3
    <3> QED
      BY <1>4, <3>1, <3>4 DEF Manage, Ending
  <2>2. ASSUME ~notified' PROVE wm' = wm
    BY <1>4, <2>2 DEF Manage
  <2> QED
    BY <1>4, <2>1, <2>2 DEF Manage, FullscreenKnown
<1>5. CASE Save \/ LoadVariant \/ LoadMirror
  BY <1>5, <1>a DEF Save, LoadVariant, LoadMirror
<1>6. CASE LeaveSave
  BY <1>6, <1>a DEF LeaveSave
<1>6s. CASE LeaveStop
  BY <1>6s, <1>a, SetFullscreenKeeps DEF LeaveStop
<1>7. ASSUME NEW l \in {Live, Episode}, OpenList(l) PROVE FullscreenKnown'
  BY <1>7, <1>a DEF OpenList
<1>8. ASSUME NEW c \in Item, Enter(c) \/ SwitchChannel(c) PROVE FullscreenKnown'
  BY <1>8, <1>a, SetFullscreenKeeps DEF Enter, SwitchChannel
<1>9. CASE StaleEvent \/ Started \/ Plays \/ Ends \/ Breaks \/ Halts \/ Dies
  BY <1>9, <1>a DEF StaleEvent, Started, Plays, Ends, Breaks, Halts, Dies, Shows
<1>10. CASE UNCHANGED vars
  BY <1>10, <1>a DEF vars
<1> QED
  BY <1>1, <1>2, <1>3, <1>4, <1>5, <1>6, <1>6s, <1>7, <1>8, <1>9, <1>10 DEF Next

\* With nothing under way the program knows whether its window fills the
\* screen, however far behind the window manager was.
THEOREM FullscreenAgreesAlways == Spec => []FullscreenAgrees
<1>1. Init => FullscreenKnown
  BY DEF Init, FullscreenKnown
<1>2. FullscreenKnown => FullscreenAgrees
  BY DEF FullscreenKnown, FullscreenAgrees, Ending
<1> QED
  BY <1>1, <1>2, FullscreenStep, TypeCorrect, PTL DEF Spec
====
