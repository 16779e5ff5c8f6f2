--------------------------- MODULE ThumbnailScheduler ---------------------------
(***************************************************************************)
(* The thumbnail scheduler of src/src/thumbnails/thumbnails.c: a mutex and *)
(* a condition variable around a binary heap of requests and a map from    *)
(* (provider, channel) to the request's current generation, served by a    *)
(* pool of worker threads.                                                 *)
(*                                                                         *)
(* Every action is one critical section of `mutex`, or what a thread does  *)
(* between two of them.  The heap is the set of its nodes: what heap_pop   *)
(* returns is the node queue_higher puts before all others, and since no   *)
(* two nodes share a generation that node is unique.                       *)
(***************************************************************************)
EXTENDS Integers, FiniteSets

CONSTANTS
  Keys,                 (* (provider_id, channel_id) pairs                    *)
  Workers,              (* worker threads asked of vip_thumbnail_scheduler_create *)
  Priorities,           (* request priorities the callers use                 *)
  InteractivePriority,  (* THUMB_INTERACTIVE_PRIORITY                         *)
  MaxPending,           (* THUMB_MAX_PENDING                                  *)
  MaxGeneration,        (* bound: accepted enqueues in one behaviour          *)
  NoJob,                (* the request of a worker that holds none            *)
  NoPriority,           (* ThumbnailJobs: nobody asked for the card           *)
  NoKey                 (* ThumbnailJobs: the worker is idle                  *)

ASSUME SchedulerAssumption ==
  /\ Workers # {}
  /\ Priorities \subseteq Int
  /\ InteractivePriority \in Int
  /\ MaxPending \in Nat \ {0}
  /\ MaxGeneration \in Nat
  /\ NoPriority \notin Priorities
  /\ NoKey \notin Keys

VARIABLES
  stopping,         (* s->stopping                                            *)
  paused,           (* s->paused                                              *)
  heap,             (* s->heap[0..heap_len-1], stale nodes included           *)
  entry,            (* the buckets: one record per key, NoEntry when absent   *)
  next_generation,  (* s->next_generation                                     *)
  pc,               (* where each worker thread stands                        *)
  job,              (* the request a worker holds between two critical sections *)
  owner             (* life of the scheduler in the thread that owns it       *)

vars == <<stopping, paused, heap, entry, next_generation, pc, job, owner>>

Node == [key : Keys, priority : Priorities, generation : Nat]

Entry == [state : {"pending", "generating"}, priority : Priorities, generation : Nat]

NoEntry == [state |-> "absent"]

(* "next": about to enter next_request; "waiting": in pthread_cond_wait;   *)
(* "removing": capture and ready callback done, map_remove still to come.  *)
WorkerPC == {"unborn", "next", "waiting", "capturing", "removing", "exited"}

TypeOK ==
  /\ stopping \in BOOLEAN
  /\ paused \in BOOLEAN
  /\ heap \subseteq Node
  /\ entry \in [Keys -> Entry \cup {NoEntry}]
  /\ next_generation \in Nat
  /\ pc \in [Workers -> WorkerPC]
  /\ job \in [Workers -> Node \cup {NoJob}]
  /\ owner \in {"creating", "open", "joining", "destroyed"}

--------------------------------------------------------------------------------
(* Helpers.                                                                *)

Pending(k) == entry[k].state = "pending"
Generating(k) == entry[k].state = "generating"

(* A worker between the two critical sections of worker_main.              *)
Busy(w) == pc[w] \in {"capturing", "removing"}

Higher(a, b) ==
  \/ a.priority > b.priority
  \/ a.priority = b.priority /\ a.generation < b.generation

(* The test next_request makes of a popped node.                           *)
IsLive(n) == Pending(n.key) /\ entry[n.key].generation = n.generation

(* Plausible slip: the wake-up is forgotten.                               *)
Signal_Forgotten == UNCHANGED pc

(* pthread_cond_signal: one waiter, if there is any, wakes up.             *)
Signal ==
  \/ \E w \in Workers : pc[w] = "waiting" /\ pc' = [pc EXCEPT ![w] = "next"]
  \/ (\A w \in Workers : pc[w] # "waiting") /\ UNCHANGED pc

(* Plausible slip: the workers are not told.                               *)
Broadcast_Forgotten == UNCHANGED pc

(* pthread_cond_broadcast.                                                 *)
Broadcast ==
  pc' = [w \in Workers |-> IF pc[w] = "waiting" THEN "next" ELSE pc[w]]

--------------------------------------------------------------------------------
(* The owner: the user-interface thread.                                   *)

Init ==
  /\ stopping = FALSE
  /\ paused = FALSE
  /\ heap = {}
  /\ entry = [k \in Keys |-> NoEntry]
  /\ next_generation = 0
  /\ pc = [w \in Workers |-> "unborn"]
  /\ job = [w \in Workers |-> NoJob]
  /\ owner = "creating"

(* One turn of the pthread_create loop; the threads created so far already *)
(* run while the rest are created.                                         *)
CreateWorker(w) ==
  /\ owner = "creating"
  /\ pc[w] = "unborn"
  /\ pc' = [pc EXCEPT ![w] = "next"]
  /\ owner' = IF \A v \in Workers \ {w} : pc[v] # "unborn" THEN "open" ELSE owner
  /\ UNCHANGED <<stopping, paused, heap, entry, next_generation, job>>

(* pthread_create fails: the workers created so far are told to stop.      *)
CreateFails ==
  /\ owner = "creating"
  /\ stopping' = TRUE
  /\ Broadcast
  /\ owner' = "joining"
  /\ UNCHANGED <<paused, heap, entry, next_generation, job>>

(* Plausible slip: one request too many.                                   *)
Shed_OffByOne(p) == Cardinality(heap) > MaxPending /\ p < InteractivePriority

(* Background requests are shed once the queue is full.                    *)
Shed(p) == Cardinality(heap) >= MaxPending /\ p < InteractivePriority

(* Plausible slip: a card that is being captured is queued again.          *)
Accepts_WhileGenerating(k, p) ==
  /\ ~stopping
  /\ ~Shed(p)
  /\ Pending(k) => p > entry[k].priority

(* The early returns of enqueue, in their order: none of them applies.     *)
Accepts(k, p) ==
  /\ ~stopping
  /\ ~Shed(p)
  /\ ~Generating(k)
  /\ Pending(k) => p > entry[k].priority

(* Plausible slip: a promotion pushes a node but forgets the entry.        *)
Schedule_StaleGeneration(k, p, g) ==
  IF Pending(k) THEN [entry[k] EXCEPT !.priority = p]
                ELSE [state |-> "pending", priority |-> p, generation |-> g]

(* The entry after heap_push succeeded.                                    *)
Schedule(k, p, g) == [state |-> "pending", priority |-> p, generation |-> g]

NextGeneration == next_generation + 1

(* A new or promoted request.  The node it replaces, if any, stays in the  *)
(* heap with its old generation.                                           *)
Enqueue(k, p) ==
  /\ owner = "open"
  /\ next_generation < MaxGeneration
  /\ Accepts(k, p)
  /\ LET g == NextGeneration
     IN  /\ next_generation' = g
         /\ heap' = heap \cup {[key |-> k, priority |-> p, generation |-> g]}
         /\ entry' = [entry EXCEPT ![k] = Schedule(k, p, g)]
  /\ Signal
  /\ UNCHANGED <<stopping, paused, job, owner>>

(* heap_push cannot grow the array.  A freshly inserted entry is taken     *)
(* back, an existing one keeps its generation; the generation is spent.    *)
EnqueueOutOfMemory(k, p) ==
  /\ owner = "open"
  /\ next_generation < MaxGeneration
  /\ Accepts(k, p)
  /\ next_generation' = NextGeneration
  /\ UNCHANGED <<stopping, paused, heap, entry, pc, job, owner>>

(* Plausible slip: entries of running captures are dropped as well.        *)
Cancelled_Generating(k) == entry[k].state # "absent" /\ \E n \in heap : n.key = k

(* The entries cancel_pending reaches: only through nodes of the heap.     *)
Cancelled(k) == Pending(k) /\ \E n \in heap : n.key = k

CancelPending ==
  /\ owner = "open"
  /\ entry' = [k \in Keys |-> IF Cancelled(k) THEN NoEntry ELSE entry[k]]
  /\ heap' = {}
  /\ UNCHANGED <<stopping, paused, next_generation, pc, job, owner>>

SetPaused(b) ==
  /\ owner = "open"
  /\ paused' = b
  /\ Broadcast
  /\ UNCHANGED <<stopping, heap, entry, next_generation, job, owner>>

(* destroy, up to the joins.                                               *)
Destroy ==
  /\ owner = "open"
  /\ stopping' = TRUE
  /\ Broadcast
  /\ owner' = "joining"
  /\ UNCHANGED <<paused, heap, entry, next_generation, job>>

(* pthread_join returned for every worker that was created.                *)
Joinable == \A w \in Workers : pc[w] \in {"unborn", "exited"}

(* The rest of destroy: the heap and every entry are freed.                *)
Free ==
  /\ owner = "joining"
  /\ Joinable
  /\ owner' = "destroyed"
  /\ heap' = {}
  /\ entry' = [k \in Keys |-> NoEntry]
  /\ UNCHANGED <<stopping, paused, next_generation, pc, job>>

--------------------------------------------------------------------------------
(* The workers.                                                            *)

(* next_request sees stopping first: pending work is not drained.          *)
Exit(w) ==
  /\ pc[w] = "next"
  /\ stopping
  /\ pc' = [pc EXCEPT ![w] = "exited"]
  /\ UNCHANGED <<stopping, paused, heap, entry, next_generation, job, owner>>

(* next_request pops until a node is live.  The nodes popped before it, the *)
(* ones that rank higher, are stale and are thrown away.                   *)
Take(w) ==
  /\ pc[w] = "next"
  /\ ~stopping
  /\ ~paused
  /\ \E n \in heap :
       /\ IsLive(n)
       /\ \A m \in heap \ {n} : IsLive(m) => Higher(n, m)
       /\ heap' = {m \in heap \ {n} : ~Higher(m, n)}
       /\ entry' = [entry EXCEPT ![n.key].state = "generating"]
       /\ job' = [job EXCEPT ![w] = n]
  /\ pc' = [pc EXCEPT ![w] = "capturing"]
  /\ UNCHANGED <<stopping, paused, next_generation, owner>>

(* next_request finds nothing to do and waits; unless paused it has popped *)
(* every stale node by then.                                               *)
Wait(w) ==
  /\ pc[w] = "next"
  /\ ~stopping
  /\ paused \/ \A n \in heap : ~IsLive(n)
  /\ heap' = IF paused THEN heap ELSE {}
  /\ pc' = [pc EXCEPT ![w] = "waiting"]
  /\ UNCHANGED <<stopping, paused, entry, next_generation, job, owner>>

(* pthread_cond_wait may return without a signal.                          *)
SpuriousWakeup(w) ==
  /\ pc[w] = "waiting"
  /\ pc' = [pc EXCEPT ![w] = "next"]
  /\ UNCHANGED <<stopping, paused, heap, entry, next_generation, job, owner>>

(* s->capture and s->ready, outside the mutex, whatever their outcome.     *)
Capture(w) ==
  /\ pc[w] = "capturing"
  /\ pc' = [pc EXCEPT ![w] = "removing"]
  /\ UNCHANGED <<stopping, paused, heap, entry, next_generation, job, owner>>

(* The second critical section of worker_main: map_remove.                 *)
Remove(w) ==
  /\ pc[w] = "removing"
  /\ entry' = [entry EXCEPT ![job[w].key] = NoEntry]
  /\ pc' = [pc EXCEPT ![w] = "next"]
  /\ job' = [job EXCEPT ![w] = NoJob]
  /\ UNCHANGED <<stopping, paused, heap, next_generation, owner>>

--------------------------------------------------------------------------------

WorkerStep(w) == Exit(w) \/ Take(w) \/ Wait(w) \/ Capture(w) \/ Remove(w)

OwnerStep ==
  \/ \E w \in Workers : CreateWorker(w)
  \/ CreateFails
  \/ \E k \in Keys, p \in Priorities : Enqueue(k, p)
  \/ \E k \in Keys, p \in Priorities : EnqueueOutOfMemory(k, p)
  \/ CancelPending
  \/ \E b \in BOOLEAN : SetPaused(b)
  \/ Destroy
  \/ Free

(* The scheduler is gone; nothing is left to run.                          *)
Done == owner = "destroyed" /\ UNCHANGED vars

Next ==
  \/ OwnerStep
  \/ \E w \in Workers : WorkerStep(w) \/ SpuriousWakeup(w)
  \/ Done

(* The kernel runs every runnable thread, a capture ends (curl and FFmpeg  *)
(* have timeouts) and pthread_join returns once its thread is gone.  The   *)
(* user need never enqueue, cancel, pause or quit, and a waiting thread    *)
(* need never wake up by itself.                                           *)
Fairness ==
  /\ \A w \in Workers : WF_vars(WorkerStep(w))
  /\ WF_vars(Free)

Spec == Init /\ [][Next]_vars /\ Fairness

--------------------------------------------------------------------------------
(* Correctness.                                                            *)

(* A card is captured by one worker at a time, and its entry is marked     *)
(* generating exactly while that worker is between next_request and        *)
(* map_remove: two workers on one card would write one cache file.         *)
OneWorkerPerKey ==
  /\ \A v, w \in Workers : Busy(v) /\ Busy(w) /\ job[v].key = job[w].key => v = w
  /\ \A k \in Keys : Generating(k) <=> \E w \in Workers : Busy(w) /\ job[w].key = k

(* An entry that waits has the node that will start it, with its own       *)
(* generation and priority, in the heap.  Without that node the card could *)
(* never be captured again: every later request of the same priority would *)
(* be taken for a duplicate (the early return of enqueue).                 *)
NoLostJob ==
  \A k \in Keys : Pending(k) =>
    [key |-> k, priority |-> entry[k].priority, generation |-> entry[k].generation] \in heap

(* A generation names one node for ever: no node in the heap is as young   *)
(* as the next one, and two nodes never share a generation.                *)
FreshGenerations ==
  /\ \A n \in heap : n.generation <= next_generation
  /\ \A m, n \in heap : m.generation = n.generation => m = n

(* While there is work and the scheduler runs, not every worker sleeps.    *)
NoLostWakeup ==
  owner = "open" /\ ~paused /\ (\E k \in Keys : Pending(k)) =>
    \E w \in Workers : pc[w] # "waiting"

(* Nobody touches a scheduler that was freed, and no worker sleeps through *)
(* its shutdown.                                                           *)
SafeShutdown ==
  /\ owner = "destroyed" => \A w \in Workers : pc[w] \in {"unborn", "exited"}
  /\ stopping => \A w \in Workers : pc[w] # "waiting"

(* Background requests never occupy more than MaxPending nodes; only       *)
(* interactive ones may push the queue past its limit.                     *)
BackgroundBounded ==
  Cardinality({n \in heap : n.priority < InteractivePriority}) <= MaxPending

(* Worker w starts a capture in this step.                                 *)
Starts(w) == pc[w] = "next" /\ pc'[w] = "capturing"

(* A worker starts the request that comes first among all waiting ones:    *)
(* the highest current priority, the oldest request among equals, however  *)
(* many stale nodes of promoted requests lie above it in the heap.         *)
DispatchOrder ==
  [][\A w \in Workers : Starts(w) =>
       /\ Pending(job'[w].key)
       /\ \A k \in Keys \ {job'[w].key} : Pending(k) => Higher(entry[job'[w].key], entry[k])]_vars

(* After a cancellation no card waits: the entries are reached through the *)
(* heap only, so an entry without a node would survive and block its card. *)
CancelClears == [][CancelPending => \A k \in Keys : ~Pending(k)']_vars

(* A card that waits is eventually started, or cancelled, once the user    *)
(* stops pausing and the scheduler stays open (the bound on generations    *)
(* also ends the stream of requests that could outrank it for ever).       *)
EveryJobServed ==
  <>[](owner = "open" /\ ~paused) => \A k \in Keys : Pending(k) ~> ~Pending(k)

(* Destroying the scheduler ends, whatever the workers were doing.         *)
DestroyTerminates == owner = "joining" ~> owner = "destroyed"

--------------------------------------------------------------------------------
(* The scheduler implements the pool of wishes.                            *)

Jobs == INSTANCE ThumbnailJobs WITH
  want    <- [k \in Keys |-> IF Pending(k) THEN entry[k].priority ELSE NoPriority],
  running <- [w \in Workers |-> IF Busy(w) THEN job[w].key ELSE NoKey],
  open    <- owner \in {"creating", "open"}

JobsSpec == Jobs!Spec
================================================================================
