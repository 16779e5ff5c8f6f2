------------------------ MODULE ThumbnailCaptureProofs ------------------------
(***************************************************************************)
(* Machine-checked proofs about ThumbnailCapture, for every set of cards   *)
(* and workers, every number of frame slots and every number of crashes.   *)
(***************************************************************************)
EXTENDS ThumbnailCapture, FiniteSetTheorems, TLAPS

--------------------------------------------------------------------------------
(* The calls.                                                              *)

(* As TypeOK, but the count of slots might be negative: that it is not     *)
(* takes SlotsInv.                                                         *)
TypeInv ==
  /\ want \in [Keys -> Priorities \cup {NoPriority}]
  /\ running \in [Workers -> Keys \cup {NoKey}]
  /\ open \in BOOLEAN
  /\ file \in [Paths -> Cover]
  /\ marker \in [Paths -> {"none", "young", "old"}]
  /\ slots \in Int
  /\ pc \in [Workers -> CallPC]
  /\ asked \in [Workers -> Priorities \cup {NoPriority}]
  /\ resolved \in [Workers -> BOOLEAN]
  /\ holds \in [Workers -> BOOLEAN]
  /\ ready \in [Workers -> Paths \cup {NoPath}]
  /\ looked \in (Keys \X Priorities) \cup {NoKey}
  /\ removing \in Keys \cup {NoKey}
  /\ calm \in BOOLEAN
  /\ crashes \in 0..MaxCrashes
  /\ powerLost \in BOOLEAN
  /\ lately \subseteq Keys

(* No card is captured by two workers, or captured and wanted.             *)
Exclusive ==
  /\ \A v, w \in Workers : running[v] = running[w] /\ running[v] # NoKey => v = w
  /\ \A k \in Keys : want[k] # NoPriority => \A w \in Workers : running[w] # k

(* A call has a card; the lookup comes before anything is resolved and is  *)
(* for cards without artwork; a slot is held exactly while a frame may be  *)
(* captured.                                                               *)
CallAt(w) ==
  /\ running[w] = NoKey <=> pc[w] = "idle"
  /\ pc[w] \in {"idle", "policy", "lookup", "gate"} => ~resolved[w]
  /\ pc[w] \in {"lookup", "gate"} => running[w] \notin Artwork
  /\ resolved[w] => running[w] \notin Artwork
  /\ pc[w] \in {"unlink", "rename"} => resolved[w]
  /\ holds[w] <=> CapturesFrame(w)

CallInv == \A w \in Workers : CallAt(w)

(* What a call hands out is the cover of its card, and the resolved cover  *)
(* until it has the card's name.                                           *)
ReadyAt(w) ==
  /\ ready[w] # NoPath => ready[w] \in {Card(running[w]), Art(running[w])}
  /\ pc[w] \in {"unlink", "rename"} => ready[w] = Art(running[w])
  /\ pc[w] \notin {"unlink", "rename", "return"} => ready[w] = NoPath

ReadyInv == \A w \in Workers : ReadyAt(w)

SlotsInv ==
  LET holders == {w \in Workers : holds[w]}
  IN /\ IsFiniteSet(holders)
     /\ slots = Cardinality(holders)
     /\ slots <= MaxFrames

(* Without a power loss there is no damaged cover, none is being removed,  *)
(* and what a call found, published or hands out is there.                 *)
CoverAt(w) ==
  /\ pc[w] = "kept" => file[Target(w)] = "good"
  /\ pc[w] \in {"unlink", "rename", "return"} /\ ready[w] # NoPath => file[ready[w]] = "good"

CoverInv ==
  ~powerLost =>
    /\ removing = NoKey
    /\ \A p \in Paths : file[p] \in {"absent", "good"}
    /\ \A w \in Workers : CoverAt(w)

(* A card whose attempt failed within 30 s has its marker and no cover, and *)
(* nobody is beyond the tests of either.  While a call works with what the *)
(* resolver found, the card itself has no cover: there is none to unlink.  *)
LeftAlone(k) == marker[Shown(k)] = "young" /\ file[Shown(k)] = "absent"

LatelyAt(w) ==
  /\ pc[w] \in {"lookup", "fetch", "write", "publish", "kept", "failed", "unlink", "rename"}
       => running[w] \notin lately
  /\ pc[w] = "stat" /\ resolved[w] => running[w] \notin lately
  /\ pc[w] = "lookup" => file[Card(running[w])] = "absent"
  /\ resolved[w] /\ pc[w] \notin {"idle", "policy", "return"} =>
       file[Card(running[w])] = "absent"
  /\ pc[w] \in {"fetch", "write", "publish", "failed"} => file[Target(w)] = "absent"

LatelyInv == (\A k \in lately : LeftAlone(k)) /\ (\A w \in Workers : LatelyAt(w))

(* The names of a card are two files, and those of two cards are four.     *)
LEMMA Names ==
  /\ \A k \in Keys : Card(k) \in Paths /\ Art(k) \in Paths /\ Shown(k) \in Paths
  /\ \A j, k : /\ Card(j) # Art(k)
               /\ Card(j) = Card(k) => j = k
               /\ Art(j) = Art(k) => j = k
  /\ \A p \in Paths : \E k \in Keys : p = Card(k) \/ p = Art(k)
  /\ \A k : Card(k)[1] = k /\ Art(k)[1] = k
  /\ NoPath \notin Paths
<1>1. \A k \in Keys : Card(k) \in Paths /\ Art(k) \in Paths
  BY DEF Paths, Card, Art
<1>2. \A k \in Keys : Shown(k) \in Paths
  BY <1>1 DEF Shown
<1>3. \A j, k : /\ Card(j) # Art(k)
                /\ Card(j) = Card(k) => j = k
                /\ Art(j) = Art(k) => j = k
  BY DEF Card, Art
<1>4. \A p \in Paths : \E k \in Keys : p = Card(k) \/ p = Art(k)
  BY DEF Paths, Card, Art
<1>5. \A k : Card(k)[1] = k /\ Art(k)[1] = k
  BY DEF Card, Art
<1>6. NoPath \notin Paths
  BY CaptureAssumption DEF Paths
<1> QED
  BY <1>1, <1>2, <1>3, <1>4, <1>5, <1>6

(* A working call writes under the names of its card only.                 *)
LEMMA Targets ==
  ASSUME NEW w, running[w] \in Keys
  PROVE  /\ Target(w) \in {Card(running[w]), Art(running[w])}
         /\ Target(w) \in Paths
         /\ ~resolved[w] => Target(w) = Shown(running[w])
         /\ resolved[w] => Target(w) = Art(running[w])
         /\ running[w] \notin Artwork => Shown(running[w]) = Card(running[w])
BY Names DEF Target, Shown

(* Markers are renewed under the names given, except where the disk        *)
(* refuses, and under no other.                                            *)
LEMMA Marking ==
  ASSUME TypeInv, NEW ps, NEW refused
  PROVE  /\ Marked(ps, refused) \in [Paths -> {"none", "young", "old"}]
         /\ \A p \in Paths : p \notin ps \/ p \in refused => Marked(ps, refused)[p] = marker[p]
         /\ \A p \in Paths : p \in ps /\ p \notin refused => Marked(ps, refused)[p] = "young"
BY DEF Marked, TypeInv

(* What the three places that mark a failure do to the markers and to what *)
(* is known of late failures.                                              *)
LEMMA Marks ==
  ASSUME TypeInv, NEW w \in Workers, running[w] \in Keys,
         LookupFails(w) \/ StatBackedOff(w) \/ Failed(w)
  PROVE  /\ marker' \in [Paths -> {"none", "young", "old"}]
         /\ \A p \in Paths \ {Card(running[w]), Art(running[w])} : marker'[p] = marker[p]
         /\ lately' \subseteq lately \cup {running[w]}
<1>1. Target(w) \in {Card(running[w]), Art(running[w])}
  BY Targets
<1>2. CASE LookupFails(w)
  <2>1. PICK refused : /\ marker' = Marked({Card(running[w])}, refused)
                       /\ lately' = Recorded(running[w], refused)
    BY <1>2 DEF LookupFails
  <2> QED
    BY <2>1, Marking DEF Recorded
<1>3. CASE StatBackedOff(w)
  <2> DEFINE names == IF resolved[w] THEN {Card(running[w])} ELSE {}
  <2>1. PICK refused : marker' = Marked(names, refused)
    BY <1>3 DEF StatBackedOff
  <2>2. lately' = lately
    BY <1>3 DEF StatBackedOff
  <2> QED
    BY <2>1, <2>2, Marking
<1>4. CASE Failed(w)
  <2>1. PICK refused : /\ marker' = Marked(FailedNames(w), refused)
                       /\ lately' = Recorded(running[w], refused)
    BY <1>4 DEF Failed
  <2> QED
    BY <1>1, <2>1, Marking DEF Recorded, FailedNames
<1> QED
  BY <1>2, <1>3, <1>4

(* A call that has begun has a card.                                       *)
LEMMA CallHasCard ==
  ASSUME TypeInv, CallInv, NEW w \in Workers, pc[w] # "idle"
  PROVE  running[w] \in Keys /\ running[w] # NoKey
BY DEF TypeInv, CallInv, CallAt

--------------------------------------------------------------------------------
(* Types.                                                                  *)

(* No statement of a call takes a variable out of its range.               *)
LEMMA CallTypes ==
  ASSUME TypeInv, CallInv, NEW w \in Workers, CallStep(w)
  PROVE  TypeInv'
<1>1. pc[w] # "idle"
  BY DEF CallStep, PolicyArtwork, PolicyCached, PolicyUncached, PolicyUntitled, LookupFinds,
         LookupFails, Gate, StatValid, StatMissing, StatBackedOff, Fetch, Write, Publish, Kept,
         Failed, Unlink, Rename, Return
<1>2. /\ running[w] \in Keys /\ Target(w) \in Paths
      /\ Card(running[w]) \in Paths /\ Art(running[w]) \in Paths
  BY <1>1, CallHasCard, Targets, Names
<1> USE DEF TypeInv, Goto, jobs, calls, ui, world, CallPC, Cover
<1>r. ASSUME Release(w) PROVE slots' \in Int /\ holds' \in [Workers -> BOOLEAN]
  BY <1>r DEF Release
<1>3. CASE PolicyArtwork(w) \/ PolicyUntitled(w)
  BY <1>3 DEF PolicyArtwork, PolicyUntitled
<1>4. CASE PolicyCached(w) \/ PolicyUncached(w)
  BY <1>2, <1>4 DEF PolicyCached, PolicyUncached, Expired
<1>5. CASE LookupFinds(w) \/ LookupFails(w)
  <2>1. CASE LookupFinds(w)
    BY <1>2, <2>1 DEF LookupFinds
  <2>2. CASE LookupFails(w)
    <3>1. marker' \in [Paths -> {"none", "young", "old"}] /\ lately' \subseteq Keys
      BY <1>2, <2>2, Marks
    <3> QED
      BY <1>2, <2>2, <3>1 DEF LookupFails
  <2> QED
    BY <1>5, <2>1, <2>2
<1>6. CASE Gate(w)
  <2> DEFINE passes == (running[w] \in Remote => OptIn) /\ SlotFree
  <2>1. passes \in BOOLEAN
    BY DEF SlotFree
  <2>2. /\ slots' = (IF passes THEN slots + 1 ELSE slots)
        /\ holds' = [holds EXCEPT ![w] = passes]
        /\ Goto(w, IF passes THEN "stat" ELSE "return")
        /\ UNCHANGED <<jobs, file, marker, asked, resolved, ready, ui, world, lately>>
    BY <1>6 DEF Gate
  <2> HIDE DEF passes
  <2>3. holds' \in [Workers -> BOOLEAN]
    BY <2>1, <2>2
  <2>4. pc' \in [Workers -> CallPC] /\ slots' \in Int
    BY <2>2
  <2> QED
    BY <2>2, <2>3, <2>4
<1>7. CASE StatValid(w) \/ StatMissing(w)
  BY <1>2, <1>7 DEF StatValid, StatMissing, Expired
<1>8. CASE StatBackedOff(w)
  <2>1. slots' \in Int /\ holds' \in [Workers -> BOOLEAN]
    BY <1>8, <1>r DEF StatBackedOff
  <2>2. file' \in [Paths -> Cover] /\ marker' \in [Paths -> {"none", "young", "old"}]
    BY <1>2, <1>8, Marks DEF StatBackedOff
  <2>3. pc' \in [Workers -> CallPC]
    BY <1>8 DEF StatBackedOff
  <2> QED
    BY <1>8, <2>1, <2>2, <2>3 DEF StatBackedOff
<1>9. CASE Fetch(w) \/ Write(w) \/ Publish(w)
  BY <1>2, <1>9 DEF Fetch, Write, Publish
<1>10. CASE Kept(w) \/ Failed(w)
  <2>1. slots' \in Int /\ holds' \in [Workers -> BOOLEAN]
    BY <1>10, <1>r DEF Kept, Failed
  <2>2. marker' \in [Paths -> {"none", "young", "old"}]
    BY <1>2, <1>10, Marks DEF Kept
  <2>3. pc' \in [Workers -> CallPC] /\ ready' \in [Workers -> Paths \cup {NoPath}]
    BY <1>2, <1>10 DEF Kept, Failed
  <2>4. lately' \subseteq Keys
    BY <1>2, <1>10, Marks DEF Kept
  <2> QED
    BY <1>10, <2>1, <2>2, <2>3, <2>4 DEF Kept, Failed
<1>11. CASE Unlink(w)
  BY <1>2, <1>11 DEF Unlink
<1>12. CASE Rename(w)
  <2>1. /\ file' \in [Paths -> Cover] /\ marker' \in [Paths -> {"none", "young", "old"}]
        /\ ready' \in [Workers -> Paths \cup {NoPath}]
    <3>1. CASE /\ file' = [file EXCEPT ![Card(running[w])] = file[Art(running[w])],
                                       ![Art(running[w])] = "absent"]
               /\ ready' = [ready EXCEPT ![w] = Card(running[w])]
               /\ marker' = [marker EXCEPT ![Card(running[w])] = "none"]
      BY <1>2, <3>1
    <3>2. CASE marker' = [marker EXCEPT ![Art(running[w])] = "none"] /\ UNCHANGED <<file, ready>>
      BY <1>2, <3>2
    <3> QED
      BY <1>12, <3>1, <3>2 DEF Rename
  <2>2. pc' \in [Workers -> CallPC]
    BY <1>12 DEF Rename
  <2> QED
    BY <1>12, <2>1, <2>2 DEF Rename
<1>13. CASE Return(w)
  BY <1>2, <1>13 DEF Return, Jobs!Finish
<1> QED
  BY <1>3, <1>4, <1>5, <1>6, <1>7, <1>8, <1>9, <1>10, <1>11, <1>12, <1>13 DEF CallStep

(* Nor does any other step.                                                *)
LEMMA TypeStep == TypeInv /\ CallInv /\ [Next]_vars => TypeInv'
<1> SUFFICES ASSUME TypeInv, CallInv, [Next]_vars PROVE TypeInv'
  OBVIOUS
<1> USE DEF TypeInv, jobs, calls, ui, world, CallPC, Cover
<1>1. CASE Quit \/ Reopen \/ CancelPending
  <2>1. CASE Quit
    BY <2>1 DEF Quit, Jobs!Close
  <2>2. CASE Reopen
    BY <2>2 DEF Reopen, NewScheduler
  <2>3. CASE CancelPending
    BY <2>3 DEF CancelPending, Jobs!Cancel
  <2> QED
    BY <1>1, <2>1, <2>2, <2>3
<1>2. ASSUME NEW k \in Keys, NEW p \in Priorities, Look(k, p) PROVE TypeInv'
  BY <1>2 DEF Look
<1>3. CASE Enqueue
  <2>1. looked \in Keys \X Priorities
    BY <1>3 DEF Enqueue
  <2>2. looked[1] \in Keys /\ looked[2] \in Priorities
    BY <2>1
  <2> QED
    BY <1>3, <2>2 DEF Enqueue, Jobs!Submit
<1>4. ASSUME NEW k \in Keys, DrawBroken(k) PROVE TypeInv'
  BY <1>4 DEF DrawBroken
<1>5. CASE RemoveBroken
  BY <1>5, Names DEF RemoveBroken
<1>6. ASSUME NEW w \in Workers, NEW k \in Keys, Start(w, k) PROVE TypeInv'
  BY <1>6 DEF Start, Jobs!Start, Goto
<1>7. ASSUME NEW k \in Keys, Age(k) PROVE TypeInv'
  BY <1>7 DEF Age
<1>8. ASSUME NEW damaged \in SUBSET {p \in Paths : file[p] # "absent"},
             NEW how \in {"broken", "corrupt"}, NEW lost, Crash(damaged, how, lost)
      PROVE  TypeInv'
  <2>1. crashes' \in 0..MaxCrashes
    BY <1>8, CaptureAssumption DEF Crash
  <2> QED
    BY <1>8, <2>1 DEF Crash, NewScheduler
<1>9. CASE Calm
  BY <1>9 DEF Calm
<1>10. CASE UNCHANGED vars
  BY <1>10 DEF vars
<1> QED
  BY <1>1, <1>2, <1>3, <1>4, <1>5, <1>6, <1>7, <1>8, <1>9, <1>10, CallTypes DEF Next

(* Everything is idle, empty and absent at first.                          *)
LEMMA TypeInit == Init => TypeInv
<1> SUFFICES ASSUME Init PROVE TypeInv
  OBVIOUS
<1>1. want \in [Keys -> Priorities \cup {NoPriority}] /\ running \in [Workers -> Keys \cup {NoKey}]
  BY DEF Init, Jobs!Init
<1>2. open \in BOOLEAN /\ crashes \in 0..MaxCrashes
  BY CaptureAssumption DEF Init, Jobs!Init
<1>3. file \in [Paths -> Cover] /\ marker \in [Paths -> {"none", "young", "old"}]
  BY DEF Init, Cover
<1>4. pc \in [Workers -> CallPC] /\ asked \in [Workers -> Priorities \cup {NoPriority}]
  BY DEF Init, CallPC
<1>5. resolved \in [Workers -> BOOLEAN] /\ holds \in [Workers -> BOOLEAN]
  BY DEF Init
<1>6. ready \in [Workers -> Paths \cup {NoPath}]
  BY DEF Init
<1>7. slots \in Int /\ lately \subseteq Keys
  BY DEF Init
<1>8. looked \in (Keys \X Priorities) \cup {NoKey} /\ removing \in Keys \cup {NoKey}
  BY DEF Init
<1>9. calm \in BOOLEAN /\ powerLost \in BOOLEAN
  BY DEF Init
<1> QED
  BY <1>1, <1>2, <1>3, <1>4, <1>5, <1>6, <1>7, <1>8, <1>9 DEF TypeInv

--------------------------------------------------------------------------------
(* The calls, and who has which card.                                      *)

(* A call disturbs no other call, no other card's files and nothing that   *)
(* the user interface decides on.                                          *)
LEMMA CallFrame ==
  ASSUME TypeInv, CallInv, NEW w \in Workers, CallStep(w)
  PROVE  /\ pc[w] # "idle"
         /\ UNCHANGED <<want, open, looked, removing, calm, crashes, powerLost>>
         /\ \A v \in Workers \ {w} :
              /\ pc'[v] = pc[v] /\ running'[v] = running[v] /\ resolved'[v] = resolved[v]
              /\ holds'[v] = holds[v] /\ ready'[v] = ready[v]
         /\ \A p \in Paths \ {Card(running[w]), Art(running[w])} :
              file'[p] = file[p] /\ marker'[p] = marker[p]
         /\ running' = running \/ (running' = [running EXCEPT ![w] = NoKey] /\ pc'[w] = "idle")
<1>1. pc[w] # "idle"
  BY DEF CallStep, PolicyArtwork, PolicyCached, PolicyUncached, PolicyUntitled, LookupFinds,
         LookupFails, Gate, StatValid, StatMissing, StatBackedOff, Fetch, Write, Publish, Kept,
         Failed, Unlink, Rename, Return
<1>2. Target(w) \in {Card(running[w]), Art(running[w])}
  BY <1>1, CallHasCard, Targets
<1> USE DEF TypeInv, Goto, jobs, calls, ui, world
<1>3. UNCHANGED <<want, open, looked, removing, calm, crashes, powerLost>>
  BY DEF CallStep, PolicyArtwork, PolicyCached, PolicyUncached, PolicyUntitled, LookupFinds,
         LookupFails, Gate, StatValid, StatMissing, StatBackedOff, Fetch, Write, Publish, Kept,
         Failed, Unlink, Rename, Return, Jobs!Finish
<1>4. \A v \in Workers \ {w} : pc'[v] = pc[v]
  BY DEF CallStep, PolicyArtwork, PolicyCached, PolicyUncached, PolicyUntitled, LookupFinds,
         LookupFails, Gate, StatValid, StatMissing, StatBackedOff, Fetch, Write, Publish, Kept,
         Failed, Unlink, Rename, Return
<1>5. running' = running \/ (running' = [running EXCEPT ![w] = NoKey] /\ pc'[w] = "idle")
  BY DEF CallStep, PolicyArtwork, PolicyCached, PolicyUncached, PolicyUntitled, LookupFinds,
         LookupFails, Gate, StatValid, StatMissing, StatBackedOff, Fetch, Write, Publish, Kept,
         Failed, Unlink, Rename, Return, Jobs!Finish
<1>6. \A v \in Workers \ {w} : resolved'[v] = resolved[v] /\ ready'[v] = ready[v]
  BY DEF CallStep, PolicyArtwork, PolicyCached, PolicyUncached, PolicyUntitled, LookupFinds,
         LookupFails, Gate, StatValid, StatMissing, StatBackedOff, Fetch, Write, Publish, Kept,
         Failed, Unlink, Rename, Return
<1>7. \A v \in Workers \ {w} : holds'[v] = holds[v]
  BY DEF CallStep, PolicyArtwork, PolicyCached, PolicyUncached, PolicyUntitled, LookupFinds,
         LookupFails, Gate, StatValid, StatMissing, StatBackedOff, Fetch, Write, Publish, Kept,
         Failed, Unlink, Rename, Return, Release
<1>8. \A p \in Paths \ {Card(running[w]), Art(running[w])} : file'[p] = file[p]
  <2>1. CASE StatMissing(w) \/ StatBackedOff(w) \/ Publish(w) \/ Unlink(w)
    BY <1>2, <2>1 DEF StatMissing, StatBackedOff, Publish, Unlink
  <2>2. CASE Rename(w)
    BY <2>2 DEF Rename
  <2>3. CASE ~(StatMissing(w) \/ StatBackedOff(w) \/ Publish(w) \/ Unlink(w) \/ Rename(w))
    <3>1. file' = file
      BY <2>3
         DEF CallStep, PolicyArtwork, PolicyCached, PolicyUncached, PolicyUntitled, LookupFinds,
             LookupFails, Gate, StatValid, Fetch, Write, Kept, Failed, Return
    <3> QED
      BY <3>1
  <2> QED
    BY <2>1, <2>2, <2>3
<1>9. \A p \in Paths \ {Card(running[w]), Art(running[w])} : marker'[p] = marker[p]
  <2>1. CASE LookupFails(w) \/ StatBackedOff(w) \/ Failed(w)
    BY <1>1, <2>1, CallHasCard, Marks
  <2>2. CASE ~(LookupFails(w) \/ StatBackedOff(w) \/ Failed(w))
    BY <1>2, <2>2
       DEF CallStep, PolicyArtwork, PolicyCached, PolicyUncached, PolicyUntitled, LookupFinds,
           Gate, StatValid, StatMissing, Fetch, Write, Publish, Kept, Unlink, Rename, Return,
           Expired
  <2> QED
    BY <2>1, <2>2
<1> QED
  BY <1>1, <1>3, <1>4, <1>5, <1>6, <1>7, <1>8, <1>9

(* The calls' places, resolved flags and slots go together.                *)
LEMMA CallStepKeepsCall ==
  ASSUME TypeInv, CallInv, NEW w \in Workers, CallStep(w)
  PROVE  CallInv'
<1>1. ASSUME NEW v \in Workers \ {w} PROVE CallAt(v)'
  BY <1>1, CallFrame DEF CallInv, CallAt, CapturesFrame
<1>2. CallAt(w) /\ pc[w] # "idle" /\ running[w] \in Keys /\ running[w] # NoKey
  BY CallFrame, CallHasCard DEF CallInv
<1> SUFFICES CallAt(w)'
  BY <1>1 DEF CallInv
<1> USE DEF TypeInv, Goto, jobs, calls, CallAt, CapturesFrame
<1>3. CASE PolicyArtwork(w) \/ PolicyUntitled(w)
  BY <1>2, <1>3 DEF PolicyArtwork, PolicyUntitled
<1>4. CASE PolicyCached(w) \/ PolicyUncached(w)
  BY <1>2, <1>4 DEF PolicyCached, PolicyUncached
<1>5. CASE LookupFinds(w) \/ LookupFails(w)
  <2>1. CASE LookupFinds(w)
    BY <1>2, <2>1 DEF LookupFinds
  <2>2. CASE LookupFails(w)
    BY <1>2, <2>2 DEF LookupFails
  <2> QED
    BY <1>5, <2>1, <2>2
<1>6. CASE Gate(w)
  BY <1>2, <1>6 DEF Gate
<1>7. CASE StatValid(w) \/ StatMissing(w) \/ StatBackedOff(w)
  BY <1>2, <1>7 DEF StatValid, StatMissing, StatBackedOff, Release
<1>8. CASE Fetch(w) \/ Write(w) \/ Publish(w)
  <2>1. CASE Fetch(w)
    BY <1>2, <2>1 DEF Fetch
  <2>2. CASE Write(w)
    BY <1>2, <2>2 DEF Write
  <2>3. CASE Publish(w)
    BY <1>2, <2>3 DEF Publish
  <2> QED
    BY <1>8, <2>1, <2>2, <2>3
<1>9. CASE Kept(w) \/ Failed(w)
  BY <1>2, <1>9 DEF Kept, Failed, Release
<1>10. CASE Unlink(w) \/ Rename(w)
  BY <1>2, <1>10 DEF Unlink, Rename
<1>11. CASE Return(w)
  BY <1>2, <1>11 DEF Return, Jobs!Finish
<1> QED
  BY <1>3, <1>4, <1>5, <1>6, <1>7, <1>8, <1>9, <1>10, <1>11 DEF CallStep

(* What the user interface, the clock and a restart do to the calls: they  *)
(* leave them alone, or end them all.                                      *)
Interrupted ==
  /\ pc' = [w \in Workers |-> "idle"] /\ running' = [w \in Workers |-> NoKey]
  /\ resolved' = [w \in Workers |-> FALSE] /\ holds' = [w \in Workers |-> FALSE]
  /\ ready' = [w \in Workers |-> NoPath] /\ slots' = 0
  /\ want' = [k \in Keys |-> NoPriority]

(* The steps that leave the call in progress alone.                        *)
LEMMA OtherSteps ==
  ASSUME TypeInv, CallInv, [Next]_vars, \A w \in Workers : ~CallStep(w),
         \A w \in Workers, k \in Keys : ~Start(w, k)
  PROVE  \/ Interrupted
         \/ UNCHANGED <<pc, running, resolved, holds, ready, slots>>
<1> USE DEF jobs, calls
<1>1. CASE Reopen
  <2>1. \A w \in Workers : running[w] = NoKey
    BY <1>1 DEF Reopen
  <2>2. running' = running
    BY <1>1, <2>1 DEF Reopen, NewScheduler, TypeInv
  <2> QED
    BY <1>1, <2>2 DEF Reopen
<1>2. CASE Quit \/ CancelPending \/ Enqueue \/ RemoveBroken \/ Calm
  BY <1>2 DEF Quit, CancelPending, Enqueue, RemoveBroken, Calm, Jobs!Close, Jobs!Cancel,
              Jobs!Submit
<1>3. ASSUME NEW k \in Keys, NEW p \in Priorities, Look(k, p) \/ DrawBroken(k) \/ Age(k)
      PROVE  UNCHANGED <<pc, running, resolved, holds, ready, slots>>
  BY <1>3 DEF Look, DrawBroken, Age
<1>4. ASSUME NEW k \in Keys, DrawBroken(k) \/ Age(k)
      PROVE  UNCHANGED <<pc, running, resolved, holds, ready, slots>>
  BY <1>4 DEF DrawBroken, Age
<1>5. ASSUME NEW damaged, NEW how, NEW lost, Crash(damaged, how, lost) PROVE Interrupted
  BY <1>5 DEF Crash, NewScheduler, Interrupted
<1>6. CASE UNCHANGED vars
  BY <1>6 DEF vars
<1> QED
  BY <1>1, <1>2, <1>3, <1>4, <1>5, <1>6 DEF Next

(* A worker begins with the card it was given and nothing else.            *)
LEMMA StartShape ==
  ASSUME TypeInv, CallInv, NEW w \in Workers, NEW k \in Keys, Start(w, k)
  PROVE  /\ pc[w] = "idle" /\ pc' = [pc EXCEPT ![w] = "policy"]
         /\ running[w] = NoKey /\ running' = [running EXCEPT ![w] = k]
         /\ want[k] # NoPriority /\ want' = [want EXCEPT ![k] = NoPriority]
         /\ UNCHANGED <<resolved, holds, ready, slots, file, marker, lately, ui, world>>
BY DEF Start, Jobs!Start, Jobs!Wanted, Goto, CallInv, CallAt

(* The steps that start a capture.                                         *)
LEMMA StartKeepsCall ==
  ASSUME TypeInv, CallInv, NEW w \in Workers, NEW k \in Keys, Start(w, k)
  PROVE  CallInv'
<1>1. /\ pc[w] = "idle" /\ pc' = [pc EXCEPT ![w] = "policy"]
      /\ running' = [running EXCEPT ![w] = k] /\ k # NoKey
      /\ UNCHANGED <<resolved, holds>>
  BY StartShape, CaptureAssumption
<1>2. ASSUME NEW v \in Workers \ {w} PROVE CallAt(v)'
  BY <1>1, <1>2 DEF CallInv, CallAt, CapturesFrame, TypeInv
<1>3. CallAt(w)'
  BY <1>1 DEF CallInv, CallAt, CapturesFrame, TypeInv
<1> QED
  BY <1>2, <1>3 DEF CallInv

(* The calls' places, resolved flags and slots go together, always.        *)
LEMMA CallInvStep == TypeInv /\ CallInv /\ [Next]_vars => CallInv'
<1> SUFFICES ASSUME TypeInv, CallInv, [Next]_vars PROVE CallInv'
  OBVIOUS
<1>1. CASE Interrupted
  BY <1>1 DEF Interrupted, CallInv, CallAt, CapturesFrame
<1>2. CASE UNCHANGED <<pc, running, resolved, holds, ready, slots>>
  BY <1>2 DEF CallInv, CallAt, CapturesFrame
<1> QED
  BY <1>1, <1>2, OtherSteps, CallStepKeepsCall, StartKeepsCall

(* A request for a card that is being captured is not recorded, and a card *)
(* that is taken is wanted no more: no two workers capture the same card.  *)
LEMMA ExclusiveStep == TypeInv /\ CallInv /\ Exclusive /\ [Next]_vars => Exclusive'
<1> SUFFICES ASSUME TypeInv, CallInv, Exclusive, [Next]_vars PROVE Exclusive'
  OBVIOUS
<1>1. ASSUME NEW w \in Workers, CallStep(w) PROVE Exclusive'
  <2>1. want' = want
    BY <1>1, CallFrame
  <2>2. running' = running \/ running' = [running EXCEPT ![w] = NoKey]
    BY <1>1, CallFrame
  <2>3. \A v \in Workers : running'[v] = running[v] \/ running'[v] = NoKey
    BY <2>2 DEF TypeInv
  <2> QED
    BY <2>1, <2>3, CaptureAssumption DEF Exclusive
<1>2. ASSUME NEW w \in Workers, NEW k \in Keys, Start(w, k) PROVE Exclusive'
  <2>1. /\ running[w] = NoKey /\ running' = [running EXCEPT ![w] = k]
        /\ want[k] # NoPriority /\ want' = [want EXCEPT ![k] = NoPriority]
    BY <1>2, StartShape
  <2>2. \A v \in Workers : running[v] # k
    BY <2>1 DEF Exclusive
  <2> QED
    BY <2>1, <2>2 DEF Exclusive, TypeInv
<1>3. CASE Interrupted
  BY <1>3 DEF Interrupted, Exclusive
<1>4. ASSUME NEW k \in Keys, NEW p \in Priorities, Look(k, p) \/ DrawBroken(k) \/ Age(k)
      PROVE  Exclusive'
  BY <1>4 DEF Look, DrawBroken, Age, jobs, Exclusive
<1>5. ASSUME NEW k \in Keys, DrawBroken(k) \/ Age(k) PROVE Exclusive'
  BY <1>5 DEF DrawBroken, Age, jobs, Exclusive
<1>6. CASE Quit \/ RemoveBroken \/ Calm \/ UNCHANGED vars
  BY <1>6 DEF Quit, RemoveBroken, Calm, vars, Jobs!Close, jobs, Exclusive
<1>7. CASE CancelPending
  BY <1>7 DEF CancelPending, Jobs!Cancel, Exclusive
<1>8. CASE Reopen
  BY <1>8 DEF Reopen, NewScheduler, Exclusive
<1>9. CASE Enqueue
  BY <1>9 DEF Enqueue, Jobs!Submit, jobs, Exclusive, TypeInv
<1>10. ASSUME NEW damaged, NEW how, NEW lost, Crash(damaged, how, lost) PROVE Exclusive'
  BY <1>10 DEF Crash, NewScheduler, Exclusive
<1> QED
  BY <1>1, <1>2, <1>4, <1>5, <1>6, <1>7, <1>8, <1>9, <1>10 DEF Next

--------------------------------------------------------------------------------
(* The frame slots.                                                        *)

Holders == {w \in Workers : holds[w]}

(* One call takes a slot or gives its own back.                            *)
LEMMA CallStepKeepsSlots ==
  ASSUME TypeInv, CallInv, SlotsInv, NEW w \in Workers, CallStep(w)
  PROVE  SlotsInv'
<1>1. IsFiniteSet(Holders) /\ slots = Cardinality(Holders) /\ slots <= MaxFrames
  BY DEF SlotsInv, Holders
<1>2. Cardinality(Holders) \in Nat
  BY <1>1, FS_CardinalityType
<1>3. ASSUME UNCHANGED <<holds, slots>> PROVE SlotsInv'
  BY <1>3 DEF SlotsInv
<1>4. ASSUME Release(w) PROVE SlotsInv'
  <2>1. CASE holds[w]
    <3>1. Holders' = Holders \ {w} /\ w \in Holders /\ slots' = slots - 1
      BY <1>4, <2>1 DEF Release, Holders, TypeInv
    <3>2. IsFiniteSet(Holders') /\ Cardinality(Holders') = Cardinality(Holders) - 1
      BY <1>1, <3>1, FS_RemoveElement
    <3> QED
      BY <1>1, <1>2, <3>1, <3>2, CaptureAssumption DEF SlotsInv, Holders
  <2>2. CASE ~holds[w]
    <3>1. holds' = holds /\ slots' = slots
      BY <1>4, <2>2 DEF Release, TypeInv
    <3> QED
      BY <1>3, <3>1
  <2> QED
    BY <2>1, <2>2
<1>5. CASE Gate(w)
  <2>1. ~holds[w]
    BY <1>5 DEF Gate, CallInv, CallAt, CapturesFrame
  <2>2. CASE (running[w] \in Remote => OptIn) /\ SlotFree
    <3>1. slots' = slots + 1 /\ holds' = [holds EXCEPT ![w] = TRUE] /\ slots < MaxFrames
      BY <1>5, <2>2 DEF Gate, SlotFree
    <3>2. Holders' = Holders \cup {w} /\ w \notin Holders
      BY <2>1, <3>1 DEF Holders, TypeInv
    <3>3. IsFiniteSet(Holders') /\ Cardinality(Holders') = Cardinality(Holders) + 1
      BY <1>1, <3>2, FS_AddElement
    <3>4. slots' <= MaxFrames
      BY <1>1, <1>2, <3>1, CaptureAssumption
    <3> QED
      BY <1>1, <3>1, <3>3, <3>4 DEF SlotsInv, Holders
  <2>3. CASE ~((running[w] \in Remote => OptIn) /\ SlotFree)
    <3>1. slots' = slots /\ holds' = [holds EXCEPT ![w] = FALSE]
      BY <1>5, <2>3 DEF Gate
    <3>2. holds' = holds
      BY <2>1, <3>1 DEF TypeInv
    <3> QED
      BY <1>3, <3>1, <3>2
  <2> QED
    BY <2>2, <2>3
<1>6. CASE StatBackedOff(w) \/ Kept(w) \/ Failed(w)
  BY <1>4, <1>6 DEF StatBackedOff, Kept, Failed
<1>7. CASE ~(Gate(w) \/ StatBackedOff(w) \/ Kept(w) \/ Failed(w))
  <2>1. UNCHANGED <<holds, slots>>
    BY <1>7 DEF CallStep, PolicyArtwork, PolicyCached, PolicyUncached, PolicyUntitled,
                LookupFinds, LookupFails, StatValid, StatMissing, Fetch, Write, Publish, Unlink,
                Rename, Return
  <2> QED
    BY <1>3, <2>1
<1> QED
  BY <1>5, <1>6, <1>7

(* Every step keeps the slots.                                             *)
LEMMA SlotsStep == TypeInv /\ CallInv /\ SlotsInv /\ [Next]_vars => SlotsInv'
<1> SUFFICES ASSUME TypeInv, CallInv, SlotsInv, [Next]_vars PROVE SlotsInv'
  OBVIOUS
<1>1. CASE Interrupted
  <2>1. Holders' = {} /\ slots' = 0
    BY <1>1 DEF Interrupted, Holders
  <2> QED
    BY <2>1, FS_EmptySet, CaptureAssumption DEF SlotsInv, Holders
<1>2. CASE UNCHANGED <<pc, running, resolved, holds, ready, slots>>
  BY <1>2 DEF SlotsInv
<1>3. ASSUME NEW w \in Workers, NEW k \in Keys, Start(w, k) PROVE SlotsInv'
  BY <1>3, StartShape DEF SlotsInv
<1> QED
  BY <1>1, <1>2, <1>3, OtherSteps, CallStepKeepsSlots

--------------------------------------------------------------------------------
(* What is handed out, and what stands under the final names.              *)

(* Every step keeps what is ready.                                         *)
LEMMA ReadyStep == TypeInv /\ CallInv /\ ReadyInv /\ [Next]_vars => ReadyInv'
<1> SUFFICES ASSUME TypeInv, CallInv, ReadyInv, [Next]_vars PROVE ReadyInv'
  OBVIOUS
<1>1. CASE Interrupted
  BY <1>1 DEF Interrupted, ReadyInv, ReadyAt
<1>2. CASE UNCHANGED <<pc, running, resolved, holds, ready, slots>>
  BY <1>2 DEF ReadyInv, ReadyAt
<1>3. ASSUME NEW w \in Workers, NEW k \in Keys, Start(w, k) PROVE ReadyInv'
  <2>1. /\ pc[w] = "idle" /\ pc' = [pc EXCEPT ![w] = "policy"]
        /\ running' = [running EXCEPT ![w] = k] /\ ready' = ready
    BY <1>3, StartShape
  <2> QED
    BY <2>1 DEF ReadyInv, ReadyAt, TypeInv
<1>4. ASSUME NEW w \in Workers, CallStep(w) PROVE ReadyInv'
  <2>1. ASSUME NEW v \in Workers \ {w} PROVE ReadyAt(v)'
    BY <1>4, <2>1, CallFrame DEF ReadyInv, ReadyAt
  <2> SUFFICES ReadyAt(w)'
    BY <2>1 DEF ReadyInv
  <2>2. /\ ReadyAt(w) /\ running[w] \in Keys
        /\ Target(w) \in {Card(running[w]), Art(running[w])}
        /\ resolved[w] => Target(w) = Art(running[w])
    BY <1>4, CallFrame, CallHasCard, Targets DEF ReadyInv
  <2> USE DEF TypeInv, Goto, jobs, calls, ReadyAt
  <2>3. CASE PolicyArtwork(w) \/ PolicyUntitled(w) \/ PolicyCached(w) \/ PolicyUncached(w)
    BY <2>2, <2>3 DEF PolicyArtwork, PolicyUntitled, PolicyCached, PolicyUncached
  <2>4. CASE LookupFinds(w) \/ LookupFails(w) \/ Gate(w)
    BY <2>2, <2>4 DEF LookupFinds, LookupFails, Gate
  <2>5. CASE StatValid(w) \/ StatMissing(w) \/ StatBackedOff(w)
    BY <2>2, <2>5 DEF StatValid, StatMissing, StatBackedOff
  <2>6. CASE Fetch(w) \/ Write(w) \/ Publish(w) \/ Failed(w)
    BY <2>2, <2>6 DEF Fetch, Write, Publish, Failed
  <2>7. CASE Kept(w)
    BY <2>2, <2>7 DEF Kept
  <2>8. CASE Unlink(w)
    BY <2>2, <2>8 DEF Unlink
  <2>9. CASE Return(w)
    BY <2>2, <2>9 DEF Return
  <2>10. CASE Rename(w)
    <3>1. /\ pc'[w] = "return" /\ running'[w] = running[w]
          /\ ready' = [ready EXCEPT ![w] = Card(running[w])] \/ ready' = ready
      BY <2>10 DEF Rename
    <3> QED
      BY <2>2, <3>1
  <2> QED
    BY <1>4, <2>3, <2>4, <2>5, <2>6, <2>7, <2>8, <2>9, <2>10 DEF CallStep
<1> QED
  BY <1>1, <1>2, <1>3, <1>4, OtherSteps

(* Two calls that have begun work under different names.                   *)
LEMMA NamesApart ==
  ASSUME TypeInv, CallInv, Exclusive, NEW v \in Workers, NEW w \in Workers \ {v},
         pc[v] # "idle", pc[w] # "idle"
  PROVE  /\ running[v] # running[w]
         /\ Card(running[v]) \notin {Card(running[w]), Art(running[w])}
         /\ Art(running[v]) \notin {Card(running[w]), Art(running[w])}
         /\ Target(v) \notin {Card(running[w]), Art(running[w])}
         /\ Target(v) \in Paths /\ Card(running[v]) \in Paths /\ Art(running[v]) \in Paths
<1>1. running[v] # running[w] /\ running[v] \in Keys
  BY CallHasCard DEF Exclusive
<1> QED
  BY <1>1, Names, Targets

(* A call takes away no cover but one that is damaged or that it replaces.  *)
LEMMA CoverOwn ==
  ASSUME TypeInv, CallInv, ReadyInv, CoverInv, NEW w \in Workers, CallStep(w), ~powerLost
  PROVE  /\ \A p \in Paths : file'[p] \in {"absent", "good"}
         /\ CoverAt(w)'
<1>1. /\ pc[w] # "idle" /\ running[w] \in Keys /\ Target(w) \in Paths
      /\ Card(running[w]) \in Paths /\ Art(running[w]) \in Paths
      /\ Card(running[w]) # Art(running[w])
      /\ resolved[w] => Target(w) = Art(running[w])
      /\ ReadyAt(w) /\ CallAt(w) /\ CoverAt(w) /\ NoPath \notin Paths
  BY CallFrame, CallHasCard, Targets, Names DEF ReadyInv, CallInv, CoverInv
<1>2. \A p \in Paths : file[p] \in {"absent", "good"}
  BY DEF CoverInv
<1>f. file \in [Paths -> Cover] /\ pc \in [Workers -> CallPC]
  BY DEF TypeInv
<1>g. /\ resolved \in [Workers -> BOOLEAN] /\ ready \in [Workers -> Paths \cup {NoPath}]
      /\ running \in [Workers -> Keys \cup {NoKey}]
  BY DEF TypeInv
<1> USE DEF Goto, jobs, calls, CoverAt
<1>3. CASE PolicyArtwork(w) \/ PolicyUntitled(w) \/ PolicyUncached(w)
  BY <1>1, <1>2, <1>3, <1>f, <1>g DEF PolicyArtwork, PolicyUntitled, PolicyUncached, ReadyAt
<1>4. CASE PolicyCached(w)
  BY <1>1, <1>2, <1>4, <1>f, <1>g DEF PolicyCached
<1>5. CASE LookupFinds(w) \/ LookupFails(w) \/ Gate(w)
  BY <1>1, <1>2, <1>5, <1>f, <1>g DEF LookupFinds, LookupFails, Gate, ReadyAt
<1>6. CASE StatValid(w)
  <2>1. file[Target(w)] = "good" /\ Target(w)' = Target(w) /\ file' = file /\ pc'[w] = "kept"
    BY <1>1, <1>2, <1>6, <1>f DEF StatValid, Valid, Target
  <2> QED
    BY <1>2, <2>1
<1>7. CASE StatMissing(w)
  <2>1. file' = [file EXCEPT ![Target(w)] = "absent"] /\ pc'[w] = "fetch"
    BY <1>7, <1>f DEF StatMissing
  <2> QED
    BY <1>1, <1>2, <1>f, <2>1
<1>8. CASE StatBackedOff(w)
  <2>1. /\ file' = [file EXCEPT ![Target(w)] = "absent"] /\ pc'[w] = "return"
        /\ ready'[w] = NoPath
    BY <1>1, <1>8, <1>f DEF StatBackedOff, ReadyAt
  <2> QED
    BY <1>1, <1>2, <1>f, <2>1
<1>9. CASE Fetch(w) \/ Write(w)
  BY <1>1, <1>2, <1>9, <1>f, <1>g DEF Fetch, Write
<1>10. CASE Publish(w)
  <2>1. Target(w)' = Target(w)
    BY <1>10 DEF Publish, Target
  <2>2. CASE file' = [file EXCEPT ![Target(w)] = "good"] /\ pc' = [pc EXCEPT ![w] = "kept"]
    BY <1>1, <1>2, <1>f, <2>1, <2>2
  <2>3. CASE file' = file /\ pc' = [pc EXCEPT ![w] = "failed"]
    BY <1>2, <1>f, <2>3
  <2> QED
    BY <1>10, <2>2, <2>3 DEF Publish
<1>11. CASE Kept(w)
  <2>1. file' = file /\ ready'[w] = Target(w) /\ pc'[w] \in {"unlink", "return"}
    BY <1>11, <1>f, <1>g DEF Kept
  <2>2. file[Target(w)] = "good"
    BY <1>1, <1>11 DEF Kept
  <2> QED
    BY <1>2, <2>1, <2>2
<1>12. CASE Failed(w)
  <2>1. file' = file /\ ready'[w] = NoPath /\ pc'[w] = "return"
    BY <1>1, <1>12, <1>f, <1>g DEF Failed, ReadyAt
  <2> QED
    BY <1>2, <2>1
<1>13. CASE Unlink(w)
  <2>1. /\ file' = [file EXCEPT ![Card(running[w])] = "absent"] /\ pc'[w] = "rename"
        /\ ready'[w] = Art(running[w]) /\ file[Art(running[w])] = "good"
    BY <1>1, <1>13, <1>f, <1>g DEF Unlink, ReadyAt
  <2> QED
    BY <1>1, <1>2, <1>f, <2>1
<1>14. CASE Rename(w)
  <2>1. ready[w] = Art(running[w]) /\ file[Art(running[w])] = "good" /\ pc'[w] = "return"
    BY <1>1, <1>14, <1>f, <1>g DEF Rename, ReadyAt
  <2>2. CASE /\ file' = [file EXCEPT ![Card(running[w])] = file[Art(running[w])],
                                     ![Art(running[w])] = "absent"]
             /\ ready' = [ready EXCEPT ![w] = Card(running[w])]
    BY <1>1, <1>2, <1>f, <1>g, <2>1, <2>2
  <2>3. CASE UNCHANGED <<file, ready>>
    BY <1>2, <2>1, <2>3
  <2> QED
    BY <1>14, <2>2, <2>3 DEF Rename
<1>15. CASE Return(w)
  BY <1>1, <1>2, <1>15, <1>f, <1>g DEF Return
<1> QED
  BY <1>3, <1>4, <1>5, <1>6, <1>7, <1>8, <1>9, <1>10, <1>11, <1>12, <1>13, <1>14, <1>15
     DEF CallStep

(* Nor does it touch the covers of another card.                           *)
LEMMA CoverStep ==
  TypeInv /\ CallInv /\ Exclusive /\ ReadyInv /\ CoverInv /\ [Next]_vars => CoverInv'
<1> SUFFICES ASSUME TypeInv, CallInv, Exclusive, ReadyInv, CoverInv, [Next]_vars, ~powerLost'
             PROVE  CoverInv'
  BY DEF CoverInv
<1>a. powerLost' = powerLost => /\ removing = NoKey
                                /\ \A p \in Paths : file[p] \in {"absent", "good"}
                                /\ \A w \in Workers : CoverAt(w)
  BY DEF CoverInv
<1> USE DEF jobs, calls, ui, world
<1>1. ASSUME powerLost' = powerLost,
             UNCHANGED <<removing, file, pc, running, resolved, ready>>
      PROVE  CoverInv'
  BY <1>a, <1>1 DEF CoverInv, CoverAt, Target
<1>2. CASE Quit \/ CancelPending \/ Enqueue \/ Calm \/ UNCHANGED vars
  <2>1. powerLost' = powerLost /\ UNCHANGED <<removing, file, pc, running, resolved, ready>>
    BY <1>2 DEF Quit, CancelPending, Enqueue, Calm, vars, Jobs!Close, Jobs!Cancel, Jobs!Submit
  <2> QED
    BY <1>1, <2>1
<1>3. CASE Reopen
  <2>1. \A w \in Workers : running[w] = NoKey
    BY <1>3 DEF Reopen
  <2>2. running' = running
    BY <1>3, <2>1 DEF Reopen, NewScheduler, TypeInv
  <2>3. powerLost' = powerLost /\ UNCHANGED <<removing, file, pc, resolved, ready>>
    BY <1>3 DEF Reopen
  <2> QED
    BY <1>1, <2>2, <2>3
<1>4. ASSUME NEW k \in Keys, NEW p \in Priorities, Look(k, p) PROVE CoverInv'
  <2>1. powerLost' = powerLost /\ UNCHANGED <<removing, file, pc, running, resolved, ready>>
    BY <1>4 DEF Look
  <2> QED
    BY <1>1, <2>1
<1>5. ASSUME NEW k \in Keys, Age(k) PROVE CoverInv'
  <2>1. powerLost' = powerLost /\ UNCHANGED <<removing, file, pc, running, resolved, ready>>
    BY <1>5 DEF Age
  <2> QED
    BY <1>1, <2>1
<1>6. ASSUME NEW k \in Keys, DrawBroken(k) PROVE CoverInv'
  <2>1. file[Shown(k)] \in {"broken", "corrupt"} /\ Shown(k) \in Paths /\ powerLost' = powerLost
    BY <1>6, Names DEF DrawBroken
  <2> QED
    BY <1>a, <2>1
<1>7. CASE RemoveBroken
  BY <1>a, <1>7 DEF RemoveBroken
<1>8. ASSUME NEW damaged \in SUBSET {p \in Paths : file[p] # "absent"}, NEW how, NEW lost,
             Crash(damaged, how, lost)
      PROVE  CoverInv'
  <2>1. ~powerLost /\ damaged = {} /\ powerLost' = powerLost
    BY <1>8 DEF Crash, TypeInv
  <2>2. /\ removing' = NoKey /\ pc' = [w \in Workers |-> "idle"]
        /\ file' = [p \in Paths |-> IF p \in damaged THEN how ELSE file[p]]
    BY <1>8 DEF Crash
  <2> QED
    BY <1>a, <2>1, <2>2 DEF CoverInv, CoverAt
<1>9. ASSUME NEW w \in Workers, NEW k \in Keys, Start(w, k) PROVE CoverInv'
  <2>1. /\ pc[w] = "idle" /\ pc' = [pc EXCEPT ![w] = "policy"]
        /\ running' = [running EXCEPT ![w] = k]
        /\ UNCHANGED <<resolved, ready, file, removing, powerLost>>
    BY <1>9, StartShape
  <2>2. ASSUME NEW v \in Workers PROVE CoverAt(v)'
    <3>1. CASE v = w
      BY <2>1, <3>1 DEF CoverAt, TypeInv
    <3>2. CASE v # w
      <4>1. pc'[v] = pc[v] /\ running'[v] = running[v]
        BY <2>1, <3>2 DEF TypeInv
      <4> QED
        BY <1>a, <2>1, <4>1 DEF CoverAt, Target
    <3> QED
      BY <3>1, <3>2
  <2> QED
    BY <1>a, <2>1, <2>2 DEF CoverInv
<1>10. ASSUME NEW w \in Workers, CallStep(w) PROVE CoverInv'
  <2>1. ~powerLost /\ removing' = NoKey /\ pc[w] # "idle"
    BY <1>10, <1>a, CallFrame
  <2>2. (\A p \in Paths : file'[p] \in {"absent", "good"}) /\ CoverAt(w)'
    BY <1>10, <2>1, CoverOwn
  <2>3. ASSUME NEW v \in Workers \ {w} PROVE CoverAt(v)'
    <3>1. /\ pc'[v] = pc[v] /\ running'[v] = running[v] /\ resolved'[v] = resolved[v]
          /\ ready'[v] = ready[v]
      BY <1>10, <2>3, CallFrame
    <3>2. CASE pc[v] = "idle"
      BY <3>1, <3>2 DEF CoverAt
    <3>3. CASE pc[v] # "idle"
      <4>1. /\ Target(v) \notin {Card(running[w]), Art(running[w])} /\ Target(v) \in Paths
            /\ Card(running[v]) \notin {Card(running[w]), Art(running[w])}
            /\ Art(running[v]) \notin {Card(running[w]), Art(running[w])}
            /\ Card(running[v]) \in Paths /\ Art(running[v]) \in Paths
        BY <2>1, <3>3, NamesApart
      <4>2. file'[Target(v)] = file[Target(v)]
        BY <1>10, <4>1, CallFrame
      <4>3. ready[v] # NoPath => file'[ready[v]] = file[ready[v]]
        BY <1>10, <4>1, CallFrame DEF ReadyInv, ReadyAt
      <4>4. Target(v)' = Target(v)
        BY <3>1 DEF Target
      <4>5. CoverAt(v)
        BY <2>1 DEF CoverInv
      <4> QED
        BY <3>1, <4>2, <4>3, <4>4, <4>5 DEF CoverAt
    <3> QED
      BY <3>2, <3>3
  <2> QED
    BY <2>1, <2>2, <2>3 DEF CoverInv
<1> QED
  BY <1>2, <1>3, <1>4, <1>5, <1>6, <1>7, <1>8, <1>9, <1>10 DEF Next

--------------------------------------------------------------------------------
(* The thirty seconds after a failure.                                     *)

(* A call that fails leaves its card marked and without a cover.           *)
LEMMA LatelyOwn ==
  ASSUME TypeInv, CallInv, LatelyInv, NEW w \in Workers, CallStep(w)
  PROVE  /\ LatelyAt(w)'
         /\ running[w] \in lately' =>
              marker'[Shown(running[w])] = "young" /\ file'[Shown(running[w])] = "absent"
         /\ lately' \subseteq lately \cup {running[w]}
<1> DEFINE k == running[w]
<1>1. /\ pc[w] # "idle" /\ k \in Keys /\ Target(w) \in Paths
      /\ Card(k) \in Paths /\ Art(k) \in Paths /\ Card(k) # Art(k) /\ Shown(k) \in Paths
      /\ resolved[w] => Target(w) = Art(k)
      /\ ~resolved[w] => Target(w) = Shown(k)
      /\ k \notin Artwork => Shown(k) = Card(k)
      /\ CallAt(w) /\ LatelyAt(w) /\ (k \in lately => LeftAlone(k))
  BY CallFrame, CallHasCard, Targets, Names DEF CallInv, LatelyInv
<1>f. file \in [Paths -> Cover] /\ marker \in [Paths -> {"none", "young", "old"}]
  BY DEF TypeInv
<1>g. /\ resolved \in [Workers -> BOOLEAN] /\ pc \in [Workers -> CallPC]
      /\ running \in [Workers -> Keys \cup {NoKey}]
  BY DEF TypeInv
<1> USE DEF Goto, jobs, calls, LatelyAt, LeftAlone
<1>2. CASE PolicyArtwork(w)
  BY <1>1, <1>2, <1>g DEF PolicyArtwork, CallAt
<1>3. CASE PolicyUntitled(w)
  BY <1>1, <1>3, <1>g DEF PolicyUntitled, CallAt
<1>4. CASE PolicyCached(w)
  BY <1>1, <1>4, <1>f, <1>g DEF PolicyCached
<1>5. CASE PolicyUncached(w)
  BY <1>1, <1>5, <1>f, <1>g DEF PolicyUncached, Expired, BackedOff
<1>6. CASE LookupFinds(w)
  BY <1>1, <1>6, <1>g DEF LookupFinds
<1>7. CASE LookupFails(w)
  <2>1. PICK refused : /\ marker' = Marked({Card(k)}, refused)
                       /\ lately' = Recorded(k, refused)
    BY <1>7 DEF LookupFails
  <2>2. /\ pc[w] = "lookup" /\ pc'[w] \in {"return", "gate"}
        /\ UNCHANGED <<file, resolved, running>>
    BY <1>7, <1>g DEF LookupFails
  <2>3. k \notin lately /\ file[Card(k)] = "absent" /\ Shown(k) = Card(k) /\ ~resolved[w]
    BY <1>1, <2>2 DEF CallAt
  <2>4. k \in lately' => marker'[Card(k)] = "young"
    BY <1>1, <2>1, <2>3, Marking DEF Recorded
  <2>5. lately' \subseteq lately \cup {k}
    BY <2>1 DEF Recorded
  <2> QED
    BY <2>2, <2>3, <2>4, <2>5
<1>8. CASE Gate(w)
  BY <1>1, <1>8, <1>g DEF Gate, CallAt
<1>9. CASE StatValid(w)
  BY <1>1, <1>9, <1>g DEF StatValid, Valid
<1>10. CASE StatMissing(w)
  <2>1. /\ file' = [file EXCEPT ![Target(w)] = "absent"] /\ pc'[w] = "fetch"
        /\ UNCHANGED <<resolved, running, lately>> /\ Target(w)' = Target(w)
        /\ marker' = Expired(Target(w)) /\ marker[Target(w)] # "young" /\ pc[w] = "stat"
    BY <1>10, <1>g DEF StatMissing, BackedOff, Target
  <2>2. k \notin lately
    BY <1>1, <2>1
  <2> QED
    BY <1>1, <1>f, <2>1, <2>2
<1>11. CASE StatBackedOff(w)
  <2> DEFINE names == IF resolved[w] THEN {Card(k)} ELSE {}
  <2>1. PICK refused : marker' = Marked(names, refused)
    BY <1>11 DEF StatBackedOff
  <2>2. /\ pc[w] = "stat" /\ pc'[w] = "return"
        /\ file' = [file EXCEPT ![Target(w)] = "absent"]
        /\ UNCHANGED <<resolved, running, lately>>
    BY <1>11, <1>g DEF StatBackedOff
  <2>3. k \in lately => marker'[Shown(k)] = "young"
    BY <1>1, <2>1, <2>2, Marking
  <2> QED
    BY <1>1, <1>f, <2>2, <2>3
<1>12. CASE Fetch(w) \/ Write(w)
  BY <1>1, <1>12, <1>g DEF Fetch, Write, Target
<1>13. CASE Publish(w)
  BY <1>1, <1>13, <1>f, <1>g DEF Publish, Target
<1>14. CASE Kept(w)
  BY <1>1, <1>14, <1>f, <1>g DEF Kept
<1>15. CASE Failed(w)
  <2>1. PICK refused : /\ marker' = Marked(FailedNames(w), refused)
                       /\ lately' = Recorded(k, refused)
    BY <1>15 DEF Failed
  <2>2. pc[w] = "failed" /\ pc'[w] = "return" /\ UNCHANGED <<file, resolved, running>>
    BY <1>15, <1>g DEF Failed
  <2>3. k \notin lately /\ file[Shown(k)] = "absent" /\ Shown(k) \in FailedNames(w)
    BY <1>1, <2>2 DEF CallAt, FailedNames
  <2>4. k \in lately' => marker'[Shown(k)] = "young"
    BY <1>1, <2>1, <2>3, Marking DEF Recorded
  <2>5. lately' \subseteq lately \cup {k}
    BY <2>1 DEF Recorded
  <2> QED
    BY <2>2, <2>3, <2>4, <2>5
<1>16. CASE Unlink(w)
  BY <1>1, <1>16, <1>f, <1>g DEF Unlink
<1>17. CASE Rename(w)
  BY <1>1, <1>17, <1>f, <1>g DEF Rename
<1>18. CASE Return(w)
  BY <1>1, <1>18, <1>f, <1>g DEF Return, Jobs!Finish
<1> QED
  BY <1>2, <1>3, <1>4, <1>5, <1>6, <1>7, <1>8, <1>9, <1>10, <1>11, <1>12, <1>13, <1>14, <1>15,
     <1>16, <1>17, <1>18 DEF CallStep

(* No other step takes a marker or makes a cover.                          *)
LEMMA LatelyStep ==
  TypeInv /\ CallInv /\ Exclusive /\ LatelyInv /\ [Next]_vars => LatelyInv'
<1> SUFFICES ASSUME TypeInv, CallInv, Exclusive, LatelyInv, [Next]_vars PROVE LatelyInv'
  OBVIOUS
<1>a. /\ \A k \in lately : LeftAlone(k)
      /\ \A w \in Workers : LatelyAt(w)
  BY DEF LatelyInv
<1> USE DEF jobs, calls, ui, world
<1>1. ASSUME UNCHANGED <<lately, marker, pc, running, resolved>>,
             file' = file \/ \E p \in Paths : file' = [file EXCEPT ![p] = "absent"]
      PROVE  LatelyInv'
  <2>1. \A p \in Paths : file'[p] = file[p] \/ file'[p] = "absent"
    BY <1>1 DEF TypeInv
  <2>2. \A k \in lately : Shown(k) \in Paths
    BY Names DEF TypeInv
  <2>3. \A k \in lately' : LeftAlone(k)'
    BY <1>a, <1>1, <2>1, <2>2 DEF LeftAlone
  <2>4. ASSUME NEW w \in Workers PROVE LatelyAt(w)'
    <3>1. CASE pc[w] = "idle"
      BY <1>1, <3>1 DEF LatelyAt
    <3>2. CASE pc[w] # "idle"
      <4>1. Card(running[w]) \in Paths /\ Target(w) \in Paths
        BY <3>2, CallHasCard, Names, Targets
      <4>2. Target(w)' = Target(w)
        BY <1>1 DEF Target
      <4> QED
        BY <1>a, <1>1, <2>1, <4>1, <4>2 DEF LatelyAt
    <3> QED
      BY <3>1, <3>2
  <2> QED
    BY <2>3, <2>4 DEF LatelyInv
<1>2. CASE Quit \/ CancelPending \/ Enqueue \/ Calm \/ UNCHANGED vars
  <2>1. UNCHANGED <<lately, marker, pc, running, resolved, file>>
    BY <1>2 DEF Quit, CancelPending, Enqueue, Calm, vars, Jobs!Close, Jobs!Cancel, Jobs!Submit
  <2> QED
    BY <1>1, <2>1
<1>3. CASE Reopen
  <2>1. \A w \in Workers : running[w] = NoKey
    BY <1>3 DEF Reopen
  <2>2. running' = running
    BY <1>3, <2>1 DEF Reopen, NewScheduler, TypeInv
  <2>3. UNCHANGED <<lately, marker, pc, resolved, file>>
    BY <1>3 DEF Reopen
  <2> QED
    BY <1>1, <2>2, <2>3
<1>4. ASSUME NEW k \in Keys, NEW p \in Priorities, Look(k, p) PROVE LatelyInv'
  <2>1. UNCHANGED <<lately, marker, pc, running, resolved, file>>
    BY <1>4 DEF Look
  <2> QED
    BY <1>1, <2>1
<1>5. ASSUME NEW k \in Keys, DrawBroken(k) PROVE LatelyInv'
  <2>1. UNCHANGED <<lately, marker, pc, running, resolved, file>>
    BY <1>5 DEF DrawBroken
  <2> QED
    BY <1>1, <2>1
<1>6. CASE RemoveBroken
  <2>1. removing \in Keys /\ Shown(removing) \in Paths
    BY <1>6, Names DEF RemoveBroken, TypeInv
  <2>2. /\ UNCHANGED <<lately, marker, pc, running, resolved>>
        /\ file' = [file EXCEPT ![Shown(removing)] = "absent"]
    BY <1>6 DEF RemoveBroken
  <2> QED
    BY <1>1, <2>1, <2>2
<1>7. ASSUME NEW j \in Keys, Age(j) PROVE LatelyInv'
  <2>1. /\ marker' = [p \in Paths |-> IF p[1] = j /\ BackedOff(p) THEN "old" ELSE marker[p]]
        /\ lately' = lately \ {j} /\ UNCHANGED <<pc, running, resolved, file>>
    BY <1>7 DEF Age
  <2>2. ASSUME NEW k \in lately' PROVE LeftAlone(k)'
    <3>1. k \in Keys /\ k # j /\ k \in lately
      BY <2>1, <2>2 DEF TypeInv
    <3>2. Shown(k) \in Paths /\ Shown(k)[1] = k
      BY <3>1, Names DEF Shown
    <3>3. marker'[Shown(k)] = marker[Shown(k)]
      BY <2>1, <3>1, <3>2
    <3> QED
      BY <1>a, <2>1, <3>1, <3>3 DEF LeftAlone
  <2>3. ASSUME NEW w \in Workers PROVE LatelyAt(w)'
    <3>1. LatelyAt(w) /\ Target(w)' = Target(w)
      BY <1>a, <2>1 DEF Target
    <3> QED
      BY <2>1, <3>1 DEF LatelyAt
  <2> QED
    BY <2>2, <2>3 DEF LatelyInv
<1>8. ASSUME NEW damaged \in SUBSET {p \in Paths : file[p] # "absent"}, NEW how, NEW lost,
             Crash(damaged, how, lost)
      PROVE  LatelyInv'
  <2>1. /\ pc' = [w \in Workers |-> "idle"]
        /\ marker' = [p \in Paths |-> IF p \in lost THEN "none" ELSE marker[p]]
        /\ lately' = {k \in lately : Shown(k) \notin lost}
        /\ file' = [p \in Paths |-> IF p \in damaged THEN how ELSE file[p]]
    BY <1>8 DEF Crash
  <2>2. \A p \in Paths : file[p] = "absent" => file'[p] = "absent"
    BY <2>1
  <2>3. \A k \in lately : Shown(k) \in Paths
    BY Names DEF TypeInv
  <2>4. \A k \in lately' : LeftAlone(k)'
    BY <1>a, <2>1, <2>2, <2>3 DEF LeftAlone
  <2>5. \A w \in Workers : LatelyAt(w)'
    BY <2>1 DEF LatelyAt
  <2> QED
    BY <2>4, <2>5 DEF LatelyInv
<1>9. ASSUME NEW w \in Workers, NEW k \in Keys, Start(w, k) PROVE LatelyInv'
  <2>1. /\ pc' = [pc EXCEPT ![w] = "policy"] /\ running' = [running EXCEPT ![w] = k]
        /\ UNCHANGED <<resolved, file, marker, lately>>
    BY <1>9, StartShape
  <2>2. ASSUME NEW v \in Workers PROVE LatelyAt(v)'
    <3>1. CASE v = w
      BY <2>1, <3>1 DEF LatelyAt, TypeInv
    <3>2. CASE v # w
      <4>1. pc'[v] = pc[v] /\ running'[v] = running[v] /\ resolved'[v] = resolved[v]
        BY <2>1, <3>2 DEF TypeInv
      <4>2. LatelyAt(v) /\ Target(v)' = Target(v)
        BY <1>a, <4>1 DEF Target
      <4> QED
        BY <2>1, <4>1, <4>2 DEF LatelyAt
    <3> QED
      BY <3>1, <3>2
  <2> QED
    BY <1>a, <2>1, <2>2 DEF LatelyInv, LeftAlone
<1>10. ASSUME NEW w \in Workers, CallStep(w) PROVE LatelyInv'
  <2>1. /\ LatelyAt(w)'
        /\ running[w] \in lately' =>
             marker'[Shown(running[w])] = "young" /\ file'[Shown(running[w])] = "absent"
        /\ lately' \subseteq lately \cup {running[w]}
    BY <1>10, LatelyOwn
  <2>2. pc[w] # "idle" /\ running[w] \in Keys
    BY <1>10, CallFrame, CallHasCard
  <2>3. ASSUME NEW k \in lately' PROVE LeftAlone(k)'
    <3>1. CASE k = running[w]
      BY <2>1, <2>3, <3>1 DEF LeftAlone
    <3>2. CASE k # running[w]
      <4>1. k \in lately /\ k \in Keys
        BY <2>1, <2>3, <3>2 DEF TypeInv
      <4>2. Shown(k) \in Paths /\ Shown(k) \notin {Card(running[w]), Art(running[w])}
        BY <2>2, <3>2, <4>1, Names DEF Shown
      <4>3. file'[Shown(k)] = file[Shown(k)] /\ marker'[Shown(k)] = marker[Shown(k)]
        BY <1>10, <4>2, CallFrame
      <4> QED
        BY <1>a, <4>1, <4>3 DEF LeftAlone
    <3> QED
      BY <3>1, <3>2
  <2>4. ASSUME NEW v \in Workers \ {w} PROVE LatelyAt(v)'
    <3>1. pc'[v] = pc[v] /\ running'[v] = running[v] /\ resolved'[v] = resolved[v]
      BY <1>10, <2>4, CallFrame
    <3>2. CASE pc[v] = "idle"
      BY <3>1, <3>2 DEF LatelyAt
    <3>3. CASE pc[v] # "idle"
      <4>1. /\ running[v] # running[w]
            /\ Target(v) \notin {Card(running[w]), Art(running[w])} /\ Target(v) \in Paths
            /\ Card(running[v]) \notin {Card(running[w]), Art(running[w])}
            /\ Card(running[v]) \in Paths
        BY <2>2, <3>3, NamesApart
      <4>2. file'[Target(v)] = file[Target(v)] /\ file'[Card(running[v])] = file[Card(running[v])]
        BY <1>10, <4>1, CallFrame
      <4>3. running[v] \in lately' => running[v] \in lately
        BY <2>1, <4>1
      <4>4. LatelyAt(v) /\ Target(v)' = Target(v)
        BY <1>a, <3>1 DEF Target
      <4> QED
        BY <3>1, <4>2, <4>3, <4>4 DEF LatelyAt
    <3> QED
      BY <3>2, <3>3
  <2> QED
    BY <2>1, <2>3, <2>4 DEF LatelyInv
<1> QED
  BY <1>2, <1>3, <1>4, <1>5, <1>6, <1>7, <1>8, <1>9, <1>10 DEF Next

--------------------------------------------------------------------------------
(* The theorems.                                                           *)

Inv ==
  TypeInv /\ CallInv /\ Exclusive /\ SlotsInv /\ ReadyInv /\ CoverInv /\ LatelyInv

(* Nothing runs, is held, is there or has failed at first.                 *)
LEMMA InvInit == Init => Inv
<1> SUFFICES ASSUME Init PROVE Inv
  OBVIOUS
<1>1. TypeInv
  BY TypeInit
<1>2. /\ want = [k \in Keys |-> NoPriority] /\ running = [w \in Workers |-> NoKey]
      /\ pc = [w \in Workers |-> "idle"] /\ resolved = [w \in Workers |-> FALSE]
      /\ holds = [w \in Workers |-> FALSE] /\ ready = [w \in Workers |-> NoPath]
      /\ file = [p \in Paths |-> "absent"]
      /\ slots = 0 /\ removing = NoKey /\ lately = {}
  BY DEF Init, Jobs!Init
<1>3. CallInv /\ Exclusive /\ ReadyInv
  BY <1>2 DEF CallInv, CallAt, CapturesFrame, Exclusive, ReadyInv, ReadyAt
<1>4. SlotsInv
  <2>1. Holders = {}
    BY <1>2 DEF Holders
  <2> QED
    BY <1>2, <2>1, FS_EmptySet, CaptureAssumption DEF SlotsInv, Holders
<1>5. CoverInv /\ LatelyInv
  BY <1>2 DEF CoverInv, CoverAt, LatelyInv, LatelyAt
<1> QED
  BY <1>1, <1>3, <1>4, <1>5 DEF Inv

(* Every step keeps the invariant.                                         *)
LEMMA InvStep == Inv /\ [Next]_vars => Inv'
BY TypeStep, CallInvStep, ExclusiveStep, SlotsStep, ReadyStep, CoverStep, LatelyStep DEF Inv

(* What a call, the interface and the cache hold is what its name says.    *)
THEOREM TypeCorrect == Spec => []TypeOK
<1>1. Inv => TypeOK
  <2> SUFFICES ASSUME Inv PROVE TypeOK
    OBVIOUS
  <2>1. slots \in Nat
    BY FS_CardinalityType DEF Inv, SlotsInv
  <2> QED
    BY <2>1 DEF Inv, TypeInv, TypeOK
<1> QED
  BY <1>1, InvInit, InvStep, PTL DEF Spec

(* The counter counts the calls that may have a stream open, whichever way *)
(* they end and however many workers there are, and keeps to its limit.    *)
THEOREM SlotsExactAlways == Spec => []SlotsExact
<1>1. Inv => SlotsExact
  <2> SUFFICES ASSUME Inv PROVE SlotsExact
    OBVIOUS
  <2>1. {w \in Workers : CapturesFrame(w)} = {w \in Workers : holds[w]}
    BY DEF Inv, CallInv, CallAt
  <2> QED
    BY <2>1 DEF Inv, SlotsInv, SlotsExact
<1> QED
  BY <1>1, InvInit, InvStep, PTL DEF Spec

(* However often the program is killed, no final name shows a damaged      *)
(* cover, and what was handed out has one, unless the power failed.        *)
THEOREM CoversSoundAlways == Spec => []CoversSound
<1>1. Inv => CoversSound
  BY DEF Inv, CoverInv, CoverAt, CoversSound
<1> QED
  BY <1>1, InvInit, InvStep, PTL DEF Spec

(* A card whose attempt failed is left alone until its markers are old, by *)
(* every worker, at every stage and across restarts.                       *)
THEOREM RetryOnlyAfterBackoffAlways == Spec => RetryOnlyAfterBackoff
<1>1. Inv /\ [Next]_vars => [\A w \in Workers : Attempts(w) => running[w] \notin lately]_vars
  <2> SUFFICES ASSUME Inv, [Next]_vars, NEW w \in Workers, Attempts(w), running[w] \in lately
               PROVE  FALSE
    OBVIOUS
  <2>1. /\ pc[w] \in {"policy", "stat"} /\ pc'[w] \in {"lookup", "fetch"} /\ pc'[w] # pc[w]
        /\ pc \in [Workers -> CallPC] /\ LatelyAt(w)
    BY DEF Attempts, Inv, TypeInv, LatelyInv
  <2>2. ~\E v \in Workers, k \in Keys : Start(v, k)
    <3>1. ASSUME NEW v \in Workers, NEW k \in Keys, Start(v, k) PROVE FALSE
      <4>1. pc[v] = "idle" /\ pc' = [pc EXCEPT ![v] = "policy"]
        BY <3>1, StartShape DEF Inv
      <4> QED
        BY <2>1, <4>1
    <3> QED
      BY <3>1
  <2>3. \E v \in Workers : CallStep(v)
    <3>1. ~Interrupted
      BY <2>1 DEF Interrupted
    <3> QED
      BY <2>1, <2>2, <3>1, OtherSteps DEF Inv
  <2>4. CallStep(w)
    <3>1. PICK v \in Workers : CallStep(v)
      BY <2>3
    <3>2. v # w => pc'[w] = pc[w]
      BY <3>1, CallFrame DEF Inv
    <3> QED
      BY <2>1, <3>1, <3>2
  <2>5. /\ running[w] \in Keys /\ Target(w) \in Paths
        /\ ~resolved[w] => Target(w) = Shown(running[w])
        /\ running[w] \notin Artwork => Shown(running[w]) = Card(running[w])
        /\ LeftAlone(running[w]) /\ CallAt(w)
    BY <2>1, CallHasCard, Targets DEF Inv, LatelyInv, CallInv
  <2>6. PolicyUncached(w) \/ StatMissing(w)
    BY <2>1, <2>4
       DEF CallStep, PolicyArtwork, PolicyCached, PolicyUntitled, LookupFinds, LookupFails, Gate,
           StatValid, StatBackedOff, Fetch, Write, Publish, Kept, Failed, Unlink, Rename, Return,
           Goto
  <2>7. CASE PolicyUncached(w)
    BY <2>1, <2>5, <2>7 DEF PolicyUncached, Goto, BackedOff, LeftAlone
  <2>8. CASE StatMissing(w)
    <3>1. ~resolved[w]
      BY <2>1, <2>8 DEF StatMissing, LatelyAt
    <3> QED
      BY <2>5, <2>8, <3>1 DEF StatMissing, BackedOff, LeftAlone
  <2> QED
    BY <2>6, <2>7, <2>8
<1> QED
  BY <1>1, InvInit, InvStep, PTL DEF Spec, RetryOnlyAfterBackoff

(* A good cover that the interface shows is taken away by no worker, at    *)
(* none of its stages: only a power loss damages it, and after one the     *)
(* interface may remove it in place of the damaged one it saw there.       *)
THEOREM CoverKeptAlways == Spec => CoverKept
<1>1. ASSUME Inv, [Next]_vars, NEW k \in Keys, file[Shown(k)] = "good", file'[Shown(k)] # "good"
      PROVE  powerLost' /\ (removing = k \/ crashes' # crashes)
  <2>f. file \in [Paths -> Cover] /\ Shown(k) \in Paths
    BY <1>1, Names DEF Inv, TypeInv
  <2>1. \A w \in Workers : ~CallStep(w)
    <3> SUFFICES ASSUME NEW w \in Workers, CallStep(w) PROVE FALSE
      OBVIOUS
    <3>1. /\ pc[w] # "idle" /\ running[w] \in Keys
          /\ \A p \in Paths \ {Card(running[w]), Art(running[w])} : file'[p] = file[p]
      BY <1>1, CallFrame, CallHasCard DEF Inv
    <3>2. running[w] = k
      BY <1>1, <2>f, <3>1, Names DEF Shown
    <3>3. /\ Target(w) \in Paths /\ Card(k) \in Paths /\ Art(k) \in Paths
          /\ CallAt(w) /\ LatelyAt(w)
      BY <1>1, <3>1, <3>2, Targets, Names DEF Inv, CallInv, LatelyInv
    <3>4. file' # file
      BY <1>1
    <3>5. \/ StatMissing(w) \/ StatBackedOff(w) \/ Publish(w) \/ Unlink(w) \/ Rename(w)
      BY <1>1, <3>4
      DEF CallStep, PolicyArtwork, PolicyCached, PolicyUncached, PolicyUntitled, LookupFinds,
          LookupFails, Gate, StatValid, Fetch, Write, Kept, Failed, Return
    <3>6. CASE StatMissing(w) \/ StatBackedOff(w)
      <4>1. file' = [file EXCEPT ![Target(w)] = "absent"] /\ ~Valid(Target(w))
        BY <3>6 DEF StatMissing, StatBackedOff
      <4> QED
        BY <1>1, <2>f, <3>3, <4>1 DEF Valid
    <3>7. CASE Publish(w)
      BY <1>1, <2>f, <3>3, <3>7 DEF Publish
    <3>8. CASE Unlink(w) \/ Rename(w)
      <4>1. resolved[w] /\ Shown(k) = Card(k) /\ file[Card(k)] = "absent"
        BY <3>2, <3>3, <3>8 DEF Unlink, Rename, CallAt, LatelyAt, Shown
      <4> QED
        BY <1>1, <4>1
    <3> QED
      BY <3>5, <3>6, <3>7, <3>8
  <2>2. CASE RemoveBroken
    <3>1. removing \in Keys /\ file' = [file EXCEPT ![Shown(removing)] = "absent"]
      BY <1>1, <2>2 DEF RemoveBroken, Inv, TypeInv
    <3>2. removing = k
      BY <1>1, <2>f, <3>1, Names DEF Shown
    <3>3. powerLost' = powerLost /\ removing # NoKey
      BY <2>2 DEF RemoveBroken, world
    <3>4. powerLost
      BY <1>1, <3>3 DEF Inv, CoverInv
    <3> QED
      BY <1>1, <3>2, <3>3, <3>4 DEF Inv, TypeInv
  <2>3. ASSUME NEW damaged \in SUBSET {p \in Paths : file[p] # "absent"}, NEW how, NEW lost,
               Crash(damaged, how, lost)
        PROVE  powerLost' /\ crashes' # crashes
    <3>1. /\ file' = [p \in Paths |-> IF p \in damaged THEN how ELSE file[p]]
          /\ powerLost' = (powerLost \/ damaged # {} \/ lost # {}) /\ crashes' = crashes + 1
      BY <2>3 DEF Crash
    <3>2. damaged # {}
      BY <1>1, <2>f, <3>1
    <3>3. crashes \in Int
      BY <1>1 DEF Inv, TypeInv
    <3>4. crashes' # crashes
      BY <3>1, <3>3
    <3>5. powerLost'
      BY <3>1, <3>2, Zenon
    <3> QED
      BY <3>4, <3>5
  <2>4. file' # file
    BY <1>1
  <2>5. \/ RemoveBroken
        \/ \E damaged \in SUBSET {p \in Paths : file[p] # "absent"}, how \in {"broken", "corrupt"},
              lost \in SUBSET {p \in Paths : BackedOff(p)} :
             Crash(damaged, how, lost)
    BY <1>1, <2>1, <2>4
    DEF Next, Quit, Reopen, Look, Enqueue, DrawBroken, CancelPending, Start, Age, Calm, vars
  <2> QED
    BY <2>2, <2>3, <2>5
<1>2. Inv /\ [Next]_vars =>
        [\A k \in Keys : file[Shown(k)] = "good" /\ file'[Shown(k)] # "good" =>
           powerLost' /\ (removing = k \/ crashes' # crashes)]_vars
  BY <1>1
<1> QED
  BY <1>2, InvInit, InvStep, PTL DEF Spec, CoverKept
====
