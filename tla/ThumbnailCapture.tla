--------------------------- MODULE ThumbnailCapture ---------------------------
(***************************************************************************)
(* What a worker does with the card the scheduler gave it: the policy of   *)
(* src/src/thumbnails/thumbnail_policy.c around the capture callback of    *)
(* src/src/thumbnails/thumbnails.c, the cache directory they share, and    *)
(* the user-interface thread that draws from that directory, throws away   *)
(* what it cannot decode and asks again.                                   *)
(*                                                                         *)
(* The scheduler itself is ThumbnailJobs, which ThumbnailScheduler is      *)
(* shown to implement.  A card has two names in the cache: <<k, "card">>   *)
(* (vip_thumbnail_cache_path) and <<k, "art">> (..._artwork_cache_path with *)
(* its one artwork URL); each has a cover file and a `.fail` marker.  The  *)
(* `.tmp` file is not a variable: it is truncated by the next fopen and    *)
(* read by nobody.  An empty cover counts as absent, as every reader does. *)
(***************************************************************************)
EXTENDS Integers, FiniteSets

CONSTANTS
  Keys, Workers, Priorities, NoPriority, NoKey,   (* as in ThumbnailJobs      *)
  InteractivePriority,  (* THUMB_INTERACTIVE_PRIORITY                         *)
  MaxFrames,            (* THUMB_MAX_FRAME_CAPTURES                           *)
  Artwork,              (* cards whose provider gives a logo_url              *)
  Titled,               (* cards with a title and an artwork_kind             *)
  Series,               (* cards whose stream_url is series://                *)
  Remote,               (* cards whose stream_url is http(s)://               *)
  Known,                (* titles the artwork search has a picture for        *)
  Delivers,             (* cards whose artwork URL or stream yields an image  *)
  OptIn,                (* VIPTV_ALLOW_REMOTE_THUMB_CAPTURE                   *)
  MaxCrashes,           (* bound: crashes and power losses in one behaviour   *)
  EverCalm,             (* bound: whether calm, which only removes steps, may *)
                        (* come; liveness needs it                            *)
  NoPath                (* path_out of a call that published nothing          *)

ASSUME CaptureAssumption ==
  /\ Priorities \subseteq Int /\ NoPriority \notin Priorities
  /\ NoKey \notin Keys /\ NoPath \notin Keys \X {"card", "art"}
  /\ MaxFrames \in Nat \ {0}
  /\ Artwork \subseteq Keys /\ Titled \subseteq Keys
  /\ Series \subseteq Keys /\ Remote \subseteq Keys \ Series
  /\ Known \subseteq Titled /\ Delivers \subseteq Keys
  /\ OptIn \in BOOLEAN
  /\ MaxCrashes \in Nat
  /\ EverCalm \in BOOLEAN

VARIABLES
  want, running, open,  (* the scheduler, as in ThumbnailJobs                 *)
  file,           (* the cover under each final name                          *)
  marker,         (* the `.fail` marker of each name, young or over 30 s old  *)
  slots,          (* active_frame_captures                                    *)
  pc,             (* where the call of each worker stands                     *)
  asked,          (* request->priority of the call                            *)
  resolved,       (* the call runs with the resolver's URL as logo_url        *)
  holds,          (* the call holds a frame slot                              *)
  ready,          (* *path_out                                                *)
  looked,         (* <<card, priority>>: the UI found no cover and is about to  *)
                  (* enqueue that request                                      *)
  removing,       (* the card whose undecodable cover the UI is about to remove *)
  calm,           (* network and disk are reliable, the user stays on one list *)
  crashes,        (* crashes so far                                           *)
  powerLost,      (* one of them lost data that was not yet on the disk       *)
  lately          (* history: cards with an attempt that failed within 30 s,  *)
                  (* of which the shown name has kept a record                *)

calls == <<pc, asked, resolved, holds, ready>>
ui == <<looked, removing>>
world == <<calm, crashes, powerLost>>
jobs == <<want, running, open>>
vars == <<jobs, file, marker, slots, calls, ui, world, lately>>

Paths == Keys \X {"card", "art"}

(* "broken" fails the JPEG marker test; "corrupt" passes it but does not   *)
(* decode.                                                                 *)
Cover == {"absent", "broken", "corrupt", "good"}

CallPC == {"idle", "policy", "lookup", "gate", "stat", "fetch", "write", "publish",
           "kept", "failed", "unlink", "rename", "return"}

TypeOK ==
  /\ want \in [Keys -> Priorities \cup {NoPriority}]
  /\ running \in [Workers -> Keys \cup {NoKey}]
  /\ open \in BOOLEAN
  /\ file \in [Paths -> Cover]
  /\ marker \in [Paths -> {"none", "young", "old"}]
  /\ slots \in Nat
  /\ pc \in [Workers -> CallPC]
  /\ asked \in [Workers -> Priorities \cup {NoPriority}]
  /\ resolved \in [Workers -> BOOLEAN]
  /\ holds \in [Workers -> BOOLEAN]
  /\ ready \in [Workers -> Paths \cup {NoPath}]
  /\ looked \in (Keys \X Priorities) \cup {NoKey}
  /\ removing \in Keys \cup {NoKey}
  /\ calm \in BOOLEAN
  /\ crashes \in 0..MaxCrashes
  /\ powerLost \in BOOLEAN
  /\ lately \subseteq Keys

Jobs == INSTANCE ThumbnailJobs

--------------------------------------------------------------------------------
(* Helpers.                                                                *)

Card(k) == <<k, "card">>
Art(k) == <<k, "art">>

(* Where the user interface looks for the cover of a card.                 *)
Shown(k) == IF k \in Artwork THEN Art(k) ELSE Card(k)

(* Where the capture of a call looks for it and puts it.                   *)
Target(w) == IF running[w] \in Artwork \/ resolved[w] THEN Art(running[w]) ELSE Card(running[w])

Resolvable(k, p) == k \in Titled /\ p >= InteractivePriority

(* The requests __wrap_vip_thumbnail_scheduler_enqueue drops.              *)
Filtered(k, p) ==
  /\ k \notin Artwork
  /\ \/ p < InteractivePriority
     \/ k \in Remote /\ ~OptIn /\ ~Resolvable(k, p)

Valid(p) == file[p] \in {"corrupt", "good"}

(* failure_backoff_active, without its removal of an old marker.           *)
BackedOff(p) == marker[p] = "young"

(* ... and the removal.                                                    *)
Expired(p) == IF marker[p] = "old" THEN [marker EXCEPT ![p] = "none"] ELSE marker

(* failure_marker_set, policy_failure_marker_set: the marker of every name *)
(* in ps is renewed, but for those in refused, whose fopen failed: the     *)
(* code does not look.                                                     *)
Marked(ps, refused) ==
  [p \in Paths |-> IF p \in ps \ refused THEN "young" ELSE marker[p]]

(* The names of a card that the disk may refuse to create: none once it is *)
(* reliable.                                                               *)
MayRefuse(k) == {refused \in SUBSET {Card(k), Art(k)} : calm => refused = {}}

(* A failure of the card, if it left its record under the shown name.      *)
Recorded(k, refused) == IF Shown(k) \in refused THEN lately ELSE lately \cup {k}

(* The UI thread is between two images.                                    *)
UIFree == looked = NoKey /\ removing = NoKey

May(outcome) == outcome \/ ~calm

Goto(w, where) == pc' = [pc EXCEPT ![w] = where]

(* Plausible slip: downloads give back a slot they never took.             *)
Release_Always(w) ==
  /\ slots' = slots - 1
  /\ holds' = [holds EXCEPT ![w] = FALSE]

(* The slot is given back when the real capture returns, whatever it says. *)
Release(w) ==
  /\ slots' = IF holds[w] THEN slots - 1 ELSE slots
  /\ holds' = [holds EXCEPT ![w] = FALSE]

--------------------------------------------------------------------------------
(* The user-interface thread.                                              *)

Init ==
  /\ Jobs!Init
  /\ file = [p \in Paths |-> "absent"]
  /\ marker = [p \in Paths |-> "none"]
  /\ slots = 0
  /\ pc = [w \in Workers |-> "idle"]
  /\ asked = [w \in Workers |-> NoPriority]
  /\ resolved = [w \in Workers |-> FALSE]
  /\ holds = [w \in Workers |-> FALSE]
  /\ ready = [w \in Workers |-> NoPath]
  /\ looked = NoKey
  /\ removing = NoKey
  /\ calm = FALSE
  /\ crashes = 0
  /\ powerLost = FALSE
  /\ lately = {}

(* enqueue_thumbnail once it found no cover: the marker test and the policy *)
(* filter come before the scheduler.                                       *)
Passes(k, p) == ~BackedOff(Shown(k)) /\ ~Filtered(k, p)

(* A card is drawn, or the prefetch meets it, and has no cover.            *)
Look(k, p) ==
  /\ open
  /\ UIFree
  /\ file[Shown(k)] = "absent"
  /\ Passes(k, p)
  /\ looked' = <<k, p>>
  /\ UNCHANGED <<jobs, file, marker, slots, calls, removing, world, lately>>

(* vip_thumbnail_scheduler_enqueue ignores what a worker captures and what *)
(* is wanted as urgently already.                                          *)
Refused(k, p) == (\E w \in Workers : running[w] = k) \/ (Jobs!Wanted(k) /\ want[k] >= p)

(* The request is enqueued on the strength of that look: a worker that     *)
(* captured the card then may have published its cover, or marked its      *)
(* failure, and be done with it by now.                                    *)
Enqueue ==
  /\ looked # NoKey
  /\ \/ Jobs!Submit(looked[1], looked[2])
     \/ Refused(looked[1], looked[2]) /\ UNCHANGED jobs
  /\ looked' = NoKey
  /\ UNCHANGED <<file, marker, slots, calls, removing, world, lately>>

(* image_cache_slot_get cannot decode the cover of a card it draws.        *)
DrawBroken(k) ==
  /\ open
  /\ UIFree
  /\ file[Shown(k)] \in {"broken", "corrupt"}
  /\ removing' = k
  /\ UNCHANGED <<jobs, file, marker, slots, calls, looked, world, lately>>

(* Plausible slip: the undecodable cover is left where it is.              *)
RemoveBroken_Keeps ==
  /\ removing # NoKey
  /\ removing' = NoKey
  /\ UNCHANGED <<jobs, file, marker, slots, calls, looked, world, lately>>

(* It removes whatever stands under that name by now; the drawing goes on  *)
(* to Look.                                                                *)
RemoveBroken ==
  /\ removing # NoKey
  /\ file' = [file EXCEPT ![Shown(removing)] = "absent"]
  /\ removing' = NoKey
  /\ UNCHANGED <<jobs, marker, slots, calls, looked, world, lately>>

(* Only at provider and list boundaries.                                   *)
CancelPending ==
  /\ ~calm
  /\ UIFree
  /\ Jobs!Cancel
  /\ UNCHANGED <<file, marker, slots, calls, ui, world, lately>>

(* vip_thumbnail_scheduler_create.                                         *)
NewScheduler ==
  /\ want' = [k \in Keys |-> NoPriority]
  /\ running' = [w \in Workers |-> NoKey]
  /\ open' = TRUE

(* vip_thumbnail_scheduler_destroy: the calls that run are waited for.     *)
Quit ==
  /\ ~calm
  /\ UIFree
  /\ Jobs!Close
  /\ UNCHANGED <<file, marker, slots, calls, ui, world, lately>>

(* All of them have returned, and the hub of the same process opens an     *)
(* application, with a scheduler of its own, again.                        *)
Reopen ==
  /\ ~open
  /\ \A w \in Workers : running[w] = NoKey
  /\ NewScheduler
  /\ UNCHANGED <<file, marker, slots, calls, ui, world, lately>>

--------------------------------------------------------------------------------
(* A worker: the policy around the capture.                                *)

Start(w, k) ==
  /\ Jobs!Start(w, k)
  /\ Goto(w, "policy")
  /\ asked' = [asked EXCEPT ![w] = want[k]]
  /\ UNCHANGED <<file, marker, slots, resolved, holds, ready, ui, world, lately>>

(* __wrap_vip_thumbnail_capture_with_decoder, up to the resolver.          *)
PolicyArtwork(w) ==
  /\ pc[w] = "policy"
  /\ running[w] \in Artwork
  /\ Goto(w, "stat")
  /\ UNCHANGED <<jobs, file, marker, slots, asked, resolved, holds, ready,
                 ui, world, lately>>

(* The refusal of logo-less background work that stands here in the code   *)
(* has no action: such requests are Filtered before they are queued.       *)

(* A cover of any content under the card's own name ends the call.         *)
PolicyCached(w) ==
  LET k == running[w]
  IN  /\ pc[w] = "policy"
      /\ k \notin Artwork /\ Resolvable(k, asked[w])
      /\ file[Card(k)] # "absent"
      /\ marker' = [marker EXCEPT ![Card(k)] = "none"]
      /\ ready' = [ready EXCEPT ![w] = Card(k)]
      /\ Goto(w, "return")
      /\ UNCHANGED <<jobs, file, slots, asked, resolved, holds, ui, world, lately>>

PolicyUncached(w) ==
  LET k == running[w]
  IN  /\ pc[w] = "policy"
      /\ k \notin Artwork /\ Resolvable(k, asked[w])
      /\ file[Card(k)] = "absent"
      /\ marker' = Expired(Card(k))
      /\ Goto(w, IF BackedOff(Card(k)) THEN "return" ELSE "lookup")
      /\ UNCHANGED <<jobs, file, slots, asked, resolved, holds, ready,
                     ui, world, lately>>

PolicyUntitled(w) ==
  /\ pc[w] = "policy"
  /\ running[w] \notin Artwork
  /\ ~Resolvable(running[w], asked[w])
  /\ Goto(w, "gate")
  /\ UNCHANGED <<jobs, file, marker, slots, asked, resolved, holds, ready,
                 ui, world, lately>>

(* resolve_remote_artwork finds an artwork URL.                            *)
LookupFinds(w) ==
  /\ pc[w] = "lookup"
  /\ running[w] \in Known
  /\ resolved' = [resolved EXCEPT ![w] = TRUE]
  /\ Goto(w, "stat")
  /\ UNCHANGED <<jobs, file, marker, slots, asked, holds, ready,
                 ui, world, lately>>

(* It fails with the network, and always where there is no picture.        *)
LookupFails(w) ==
  /\ pc[w] = "lookup"
  /\ calm => running[w] \notin Known
  /\ \E refused \in MayRefuse(running[w]) :
       /\ marker' = Marked({Card(running[w])}, refused)
       /\ lately' = Recorded(running[w], refused)
  /\ Goto(w, IF running[w] \in Series THEN "return" ELSE "gate")
  /\ UNCHANGED <<jobs, file, slots, asked, resolved, holds, ready, ui, world>>

(* frame_slot_try_acquire.                                                 *)
SlotFree == slots < MaxFrames

Gate(w) ==
  LET passes == (running[w] \in Remote => OptIn) /\ SlotFree
  IN  /\ pc[w] = "gate"
      /\ slots' = IF passes THEN slots + 1 ELSE slots
      /\ holds' = [holds EXCEPT ![w] = passes]
      /\ Goto(w, IF passes THEN "stat" ELSE "return")
      /\ UNCHANGED <<jobs, file, marker, asked, resolved, ready, ui, world, lately>>

--------------------------------------------------------------------------------
(* A worker: vip_thumbnail_capture_with_decoder.                           *)

StatValid(w) ==
  /\ pc[w] = "stat"
  /\ Valid(Target(w))
  /\ Goto(w, "kept")
  /\ UNCHANGED <<jobs, file, marker, slots, asked, resolved, holds, ready,
                 ui, world, lately>>

(* An invalid cover is removed and the capture goes on.                    *)
StatMissing(w) ==
  /\ pc[w] = "stat"
  /\ ~Valid(Target(w))
  /\ ~BackedOff(Target(w))
  /\ file' = [file EXCEPT ![Target(w)] = "absent"]
  /\ marker' = Expired(Target(w))
  /\ Goto(w, "fetch")
  /\ UNCHANGED <<jobs, slots, asked, resolved, holds, ready, ui, world, lately>>

(* Plausible slip: the early return forgets the frame slot.                *)
StatBackedOff_LeaksSlot(w) ==
  /\ pc[w] = "stat"
  /\ ~Valid(Target(w))
  /\ BackedOff(Target(w))
  /\ file' = [file EXCEPT ![Target(w)] = "absent"]
  /\ \E refused \in MayRefuse(running[w]) :
       marker' = Marked(IF resolved[w] THEN {Card(running[w])} ELSE {}, refused)
  /\ holds' = [holds EXCEPT ![w] = FALSE]
  /\ Goto(w, "return")
  /\ UNCHANGED <<jobs, slots, asked, resolved, ready, ui, world, lately>>

(* The marker of that name is still young: VIP_ERR_CANCELLED, which the    *)
(* policy treats as a failure of the resolved artwork.                     *)
StatBackedOff(w) ==
  /\ pc[w] = "stat"
  /\ ~Valid(Target(w))
  /\ BackedOff(Target(w))
  /\ file' = [file EXCEPT ![Target(w)] = "absent"]
  /\ \E refused \in MayRefuse(running[w]) :
       marker' = Marked(IF resolved[w] THEN {Card(running[w])} ELSE {}, refused)
  /\ Release(w)
  /\ Goto(w, "return")
  /\ UNCHANGED <<jobs, asked, resolved, ready, ui, world, lately>>

(* The download, or the FFmpeg frame, arrives and decodes, or does not.    *)
Fetch(w) ==
  /\ pc[w] = "fetch"
  /\ \/ running[w] \in Delivers /\ Goto(w, "write")
     \/ (calm => running[w] \notin Delivers) /\ Goto(w, "failed")
  /\ UNCHANGED <<jobs, file, marker, slots, asked, resolved, holds, ready,
                 ui, world, lately>>

(* Plausible slip: the JPEG is written under its final name.               *)
Write_InPlace(w) ==
  /\ pc[w] = "write"
  /\ file' = [file EXCEPT ![Target(w)] = "broken"]
  /\ Goto(w, "publish")
  /\ UNCHANGED <<jobs, marker, slots, asked, resolved, holds, ready,
                 ui, world, lately>>

(* save_rgb_jpeg_exact, save_rgb_jpeg: the temporary file is written ...   *)
Write(w) ==
  /\ pc[w] = "write"
  /\ \E success \in {b \in BOOLEAN : May(b)} : Goto(w, IF success THEN "publish" ELSE "failed")
  /\ UNCHANGED <<jobs, file, marker, slots, asked, resolved, holds, ready,
                 ui, world, lately>>

(* ... and renamed; when that fails the old cover, if any, stays.          *)
Publish(w) ==
  /\ pc[w] = "publish"
  /\ \/ /\ file' = [file EXCEPT ![Target(w)] = "good"]
        /\ Goto(w, "kept")
     \/ /\ May(FALSE)
        /\ Goto(w, "failed")
        /\ UNCHANGED file
  /\ UNCHANGED <<jobs, marker, slots, asked, resolved, holds, ready,
                 ui, world, lately>>

(* The capture succeeded; a resolved cover is still to be renamed.         *)
Kept(w) ==
  /\ pc[w] = "kept"
  /\ marker' = [marker EXCEPT ![Target(w)] = "none"]
  /\ ready' = [ready EXCEPT ![w] = Target(w)]
  /\ Release(w)
  /\ Goto(w, IF resolved[w] THEN "unlink" ELSE "return")
  /\ UNCHANGED <<jobs, file, asked, resolved, ui, world, lately>>

(* Plausible slip: a failed download of the resolved URL marks that URL's  *)
(* name only.                                                              *)
FailedNames_TargetOnly(w) == {Target(w)}

(* The names that are marked when the capture failed: by the capture its   *)
(* own, by the policy the card's when the URL came from the resolver.      *)
FailedNames(w) ==
  {Target(w)} \cup (IF resolved[w] THEN {Card(running[w])} ELSE {})

Failed(w) ==
  /\ pc[w] = "failed"
  /\ \E refused \in MayRefuse(running[w]) :
       /\ marker' = Marked(FailedNames(w), refused)
       /\ lately' = Recorded(running[w], refused)
  /\ Release(w)
  /\ Goto(w, "return")
  /\ UNCHANGED <<jobs, file, asked, resolved, ready, ui, world>>

--------------------------------------------------------------------------------
(* A worker: the resolved cover takes the card's own name.                 *)

Unlink(w) ==
  /\ pc[w] = "unlink"
  /\ file' = [file EXCEPT ![Card(running[w])] = "absent"]
  /\ Goto(w, "rename")
  /\ UNCHANGED <<jobs, marker, slots, asked, resolved, holds, ready,
                 ui, world, lately>>

Rename(w) ==
  LET card == Card(running[w])
      art == Art(running[w])
  IN  /\ pc[w] = "rename"
      /\ \/ /\ file[art] # "absent"
            /\ file' = [file EXCEPT ![card] = file[art], ![art] = "absent"]
            /\ ready' = [ready EXCEPT ![w] = card]
            /\ marker' = [marker EXCEPT ![card] = "none"]
         \/ /\ May(FALSE)
            /\ marker' = [marker EXCEPT ![art] = "none"]
            /\ UNCHANGED <<file, ready>>
      /\ Goto(w, "return")
      /\ UNCHANGED <<jobs, slots, asked, resolved, holds, ui, world, lately>>

(* The ready callback, and the scheduler forgets the card.                 *)
Return(w) ==
  /\ pc[w] = "return"
  /\ Jobs!Finish(w)
  /\ Goto(w, "idle")
  /\ asked' = [asked EXCEPT ![w] = NoPriority]
  /\ resolved' = [resolved EXCEPT ![w] = FALSE]
  /\ ready' = [ready EXCEPT ![w] = NoPath]
  /\ UNCHANGED <<file, marker, slots, holds, ui, world, lately>>

--------------------------------------------------------------------------------
(* The world around the program.                                           *)

(* Thirty seconds pass for the failures of a card.                         *)
Age(k) ==
  /\ \E p \in {Card(k), Art(k)} : BackedOff(p)
  /\ marker' = [p \in Paths |-> IF p[1] = k /\ BackedOff(p) THEN "old" ELSE marker[p]]
  /\ lately' = lately \ {k}
  /\ UNCHANGED <<jobs, file, slots, calls, ui, world>>

(* The program is killed and started again.  Without power, covers that    *)
(* were not yet on the disk come back damaged and young markers not at all: *)
(* there is no fsync.                                                      *)
Crash(damaged, how, lost) ==
  /\ crashes < MaxCrashes
  /\ crashes' = crashes + 1
  /\ powerLost' = (powerLost \/ damaged # {} \/ lost # {})
  /\ marker' = [p \in Paths |-> IF p \in lost THEN "none" ELSE marker[p]]
  /\ lately' = {k \in lately : Shown(k) \notin lost}
  /\ file' = [p \in Paths |-> IF p \in damaged THEN how ELSE file[p]]
  /\ NewScheduler
  /\ slots' = 0
  /\ pc' = [w \in Workers |-> "idle"]
  /\ asked' = [w \in Workers |-> NoPriority]
  /\ resolved' = [w \in Workers |-> FALSE]
  /\ holds' = [w \in Workers |-> FALSE]
  /\ ready' = [w \in Workers |-> NoPath]
  /\ looked' = NoKey
  /\ removing' = NoKey
  /\ UNCHANGED calm

Calm ==
  /\ EverCalm
  /\ ~calm
  /\ calm' = TRUE
  /\ UNCHANGED <<jobs, file, marker, slots, calls, ui, crashes, powerLost, lately>>

--------------------------------------------------------------------------------

CallStep(w) ==
  \/ PolicyArtwork(w) \/ PolicyCached(w) \/ PolicyUncached(w)
  \/ PolicyUntitled(w) \/ LookupFinds(w) \/ LookupFails(w) \/ Gate(w)
  \/ StatValid(w) \/ StatMissing(w) \/ StatBackedOff(w) \/ Fetch(w) \/ Write(w) \/ Publish(w)
  \/ Kept(w) \/ Failed(w) \/ Unlink(w) \/ Rename(w) \/ Return(w)

Next ==
  \/ Quit \/ Reopen
  \/ \E k \in Keys, p \in Priorities : Look(k, p)
  \/ Enqueue
  \/ \E k \in Keys : DrawBroken(k)
  \/ RemoveBroken
  \/ CancelPending
  \/ \E w \in Workers, k \in Keys : Start(w, k)
  \/ \E w \in Workers : CallStep(w)
  \/ \E k \in Keys : Age(k)
  \/ \E damaged \in SUBSET {p \in Paths : file[p] # "absent"}, how \in {"broken", "corrupt"},
        lost \in SUBSET {p \in Paths : BackedOff(p)} :
       Crash(damaged, how, lost)
  \/ Calm

(* The main loop redraws at least every 100 ms and each time goes through  *)
(* all visible cards, whence strong fairness of what it does for a card;   *)
(* every thread that can run does; time passes; the resolver, curl and     *)
(* FFmpeg have timeouts.  A request that waits is started in its turn: the *)
(* scheduler takes the one that comes first (DispatchOrder), and a card    *)
(* that failed comes again, behind it, after its backoff.  Nothing forces a *)
(* crash or a cancellation.                                                *)
Fairness ==
  /\ \A k \in Keys : SF_vars(\E p \in Priorities : p >= InteractivePriority /\ Look(k, p))
  /\ \A k \in Keys : SF_vars(DrawBroken(k)) /\ WF_vars(Age(k))
  /\ WF_vars(Enqueue) /\ WF_vars(RemoveBroken) /\ WF_vars(Reopen)
  /\ \A k \in Keys : SF_vars(\E w \in Workers : Start(w, k))
  /\ \A w \in Workers : WF_vars(CallStep(w))
  /\ WF_vars(Calm)

Spec == Init /\ [][Next]_vars /\ Fairness

--------------------------------------------------------------------------------
(* Correctness.                                                            *)

(* Worker w is between taking and giving back a frame slot.                *)
CapturesFrame(w) ==
  /\ pc[w] \in {"stat", "fetch", "write", "publish", "kept", "failed"}
  /\ running[w] \notin Artwork
  /\ ~resolved[w]

(* The counter counts exactly the calls that may have a stream open, on    *)
(* every way out of a call, and keeps to its limit: a slot that leaks is   *)
(* lost until the program ends, a slot too many lets dead channels occupy  *)
(* the whole pool.                                                         *)
SlotsExact ==
  /\ slots = Cardinality({w \in Workers : CapturesFrame(w)})
  /\ slots <= MaxFrames

(* Without a power loss no final name ever shows a damaged cover, whenever *)
(* the program is killed (covers are written beside it and renamed), and   *)
(* the path handed to the ready callback, which the database stores, has a *)
(* cover.                                                                  *)
CoversSound ==
  ~powerLost =>
    /\ \A p \in Paths : file[p] \in {"absent", "good"}
    /\ \A w \in Workers : pc[w] = "return" /\ ready[w] # NoPath => file[ready[w]] = "good"

(* The first thing of a call that goes to the network.                     *)
Attempts(w) ==
  \/ pc[w] = "policy" /\ pc'[w] = "lookup"
  \/ pc[w] = "stat" /\ pc'[w] = "fetch" /\ (running[w] \in Artwork \/ running[w] \notin Titled)

(* After an attempt that failed, at whichever of its stages, and left its  *)
(* record under the name that is shown, the card is left alone for 30 s    *)
(* although it is drawn ten times a second, whether or not the program was *)
(* restarted in between.  Where the record could not be written, or was    *)
(* lost with the power, nothing holds the next attempt back: the code does *)
(* not look at the outcome of its fopen.                                   *)
RetryOnlyAfterBackoff == [][\A w \in Workers : Attempts(w) => running[w] \notin lately]_vars

(* There is artwork to be had for the card and the policy lets it through: *)
(* its provider's, or the picture that the search knows for its title.     *)
(* Nothing is promised to a card that only has a stream: others, whose     *)
(* captures are in vain, may take every frame slot it comes for.           *)
Obtainable(k) ==
  /\ k \in Delivers
  /\ k \in Artwork \cup Known
  /\ ~Filtered(k, InteractivePriority)

(* When the network and the disk are reliable from some point on, every    *)
(* visible card that has obtainable artwork gets its cover and keeps it,   *)
(* whatever crashes, damaged files, markers and stray removals came        *)
(* before, and whatever cards beside it have none.                         *)
EveryCardCovered == <>[](\A k \in Keys : Obtainable(k) => file[Shown(k)] = "good")

(* What keeping it rests on, whatever the world does: no worker takes a    *)
(* good cover away from a card, not even by the unlink before its rename;  *)
(* it goes only in a power loss or by the removal of one that did not      *)
(* decode, and none fails to decode before power was lost.                 *)
CoverKept ==
  [][\A k \in Keys : file[Shown(k)] = "good" /\ file'[Shown(k)] # "good" =>
       powerLost' /\ (removing = k \/ crashes' # crashes)]_vars

(* FFmpeg stream-frame capture is a fallback (docs/ARCHITECTURE.md): a     *)
(* visible card whose lookup failed and that was given a frame slot has    *)
(* its stream opened.                                                      *)
FrameIsAFallback ==
  [][\A w \in Workers : pc[w] = "stat" /\ holds[w] /\ running[w] \in Titled =>
       pc'[w] \in {"stat", "fetch", "kept", "idle"}]_vars
================================================================================
