----------------------- MODULE ThumbnailSchedulerProofs -----------------------
(***************************************************************************)
(* Machine-checked proofs about ThumbnailScheduler, for every set of cards *)
(* and workers, every limit and every set of integer priorities.           *)
(***************************************************************************)
EXTENDS ThumbnailScheduler, FiniteSetTheorems, TLAPS

--------------------------------------------------------------------------------
(* Type correctness.                                                       *)

(* Every critical section of thumbnails.c keeps every variable in range.   *)
LEMMA TypeStep == TypeOK /\ [Next]_vars => TypeOK'
<1> USE SchedulerAssumption
<1> SUFFICES ASSUME TypeOK, [Next]_vars PROVE TypeOK'
  OBVIOUS
<1> USE DEF TypeOK, Node, Entry, NoEntry, WorkerPC
<1>1. ASSUME NEW w \in Workers, CreateWorker(w) PROVE TypeOK'
  BY <1>1 DEF CreateWorker
<1>2. CASE CreateFails
  BY <1>2 DEF CreateFails, Broadcast
<1>3. ASSUME NEW k \in Keys, NEW p \in Priorities, Enqueue(k, p) PROVE TypeOK'
  <2>1. pc' \in [Workers -> WorkerPC]
    BY <1>3 DEF Enqueue, Signal
  <2>2. next_generation' \in Nat /\ next_generation' = next_generation + 1
    BY <1>3 DEF Enqueue, NextGeneration
  <2>3. heap' \subseteq Node
    BY <1>3, <2>2 DEF Enqueue, NextGeneration
  <2>4. entry' \in [Keys -> Entry \cup {NoEntry}]
    BY <1>3, <2>2 DEF Enqueue, NextGeneration, Schedule
  <2>5. UNCHANGED <<stopping, paused, job, owner>>
    BY <1>3 DEF Enqueue
  <2> QED
    BY <2>1, <2>2, <2>3, <2>4, <2>5
<1>4. ASSUME NEW k \in Keys, NEW p \in Priorities, EnqueueOutOfMemory(k, p) PROVE TypeOK'
  BY <1>4 DEF EnqueueOutOfMemory, NextGeneration
<1>5. CASE CancelPending
  BY <1>5 DEF CancelPending
<1>6. ASSUME NEW b \in BOOLEAN, SetPaused(b) PROVE TypeOK'
  BY <1>6 DEF SetPaused, Broadcast
<1>7. CASE Destroy
  BY <1>7 DEF Destroy, Broadcast
<1>8. CASE Free
  BY <1>8 DEF Free
<1>9. ASSUME NEW w \in Workers, Exit(w) PROVE TypeOK'
  BY <1>9 DEF Exit
<1>10. ASSUME NEW w \in Workers, Take(w) PROVE TypeOK'
  <2>1. PICK n \in heap :
          /\ IsLive(n)
          /\ heap' = {m \in heap \ {n} : ~Higher(m, n)}
          /\ entry' = [entry EXCEPT ![n.key].state = "generating"]
          /\ job' = [job EXCEPT ![w] = n]
    BY <1>10 DEF Take
  <2>2. entry[n.key] \in Entry
    BY <2>1 DEF IsLive, Pending
  <2>3. entry' \in [Keys -> Entry \cup {NoEntry}]
    BY <2>1, <2>2
  <2> QED
    BY <1>10, <2>1, <2>3 DEF Take
<1>11. ASSUME NEW w \in Workers, Wait(w) PROVE TypeOK'
  BY <1>11 DEF Wait
<1>12. ASSUME NEW w \in Workers, SpuriousWakeup(w) PROVE TypeOK'
  BY <1>12 DEF SpuriousWakeup
<1>13. ASSUME NEW w \in Workers, Capture(w) PROVE TypeOK'
  BY <1>13 DEF Capture
<1>14. ASSUME NEW w \in Workers, Remove(w) PROVE TypeOK'
  BY <1>14 DEF Remove
<1>15. CASE UNCHANGED vars
  BY <1>15 DEF vars
<1> QED
  BY <1>1, <1>2, <1>3, <1>4, <1>5, <1>6, <1>7, <1>8, <1>9, <1>10, <1>11, <1>12, <1>13,
     <1>14, <1>15 DEF Next, OwnerStep, WorkerStep, Done

(* The initial state has the types.                                        *)
LEMMA TypeInit == Init => TypeOK
<1> SUFFICES ASSUME Init PROVE TypeOK
  OBVIOUS
<1>1. entry \in [Keys -> Entry \cup {NoEntry}]
  BY DEF Init
<1>2. job \in [Workers -> Node \cup {NoJob}]
  BY DEF Init
<1>3. pc \in [Workers -> WorkerPC]
  BY DEF Init, WorkerPC
<1> QED
  BY <1>1, <1>2, <1>3 DEF Init, TypeOK

(* The range of every variable of the scheduler, in every reachable state. *)
THEOREM TypeCorrect == Spec => []TypeOK
<1>1. QED
  BY TypeInit, TypeStep, PTL DEF Spec

--------------------------------------------------------------------------------
(* The inductive invariant.                                                *)

(* A worker between its two critical sections holds a request.             *)
JobHeld == \A w \in Workers : Busy(w) => job[w] \in Node

(* stopping is set exactly when the owner tears the scheduler down.        *)
StoppingWhenClosing == stopping <=> owner \in {"joining", "destroyed"}

IInv ==
  /\ TypeOK
  /\ JobHeld
  /\ OneWorkerPerKey
  /\ FreshGenerations
  /\ NoLostJob
  /\ StoppingWhenClosing
  /\ SafeShutdown
  /\ NoLostWakeup

(* Ownership: Take is the only step that marks a key, it marks one that no *)
(* worker holds, and only the worker that holds it unmarks it.             *)
LEMMA OwnershipStep ==
  TypeOK /\ JobHeld /\ OneWorkerPerKey /\ StoppingWhenClosing /\ [Next]_vars
    => JobHeld' /\ OneWorkerPerKey'
<1> SUFFICES ASSUME TypeOK, JobHeld, OneWorkerPerKey, StoppingWhenClosing, [Next]_vars
             PROVE  JobHeld' /\ OneWorkerPerKey'
  OBVIOUS
<1> USE DEF JobHeld, OneWorkerPerKey, Busy, Generating
<1>a. heap \subseteq Node /\ pc \in [Workers -> WorkerPC] /\ job \in [Workers -> Node \cup {NoJob}]
      /\ entry \in [Keys -> Entry \cup {NoEntry}]
  BY DEF TypeOK
<1>b. ASSUME UNCHANGED job,
             \A w \in Workers : (pc[w] \in {"capturing", "removing"}) <=> (pc'[w] \in {"capturing", "removing"}),
             \A k \in Keys : (entry[k].state = "generating") <=> (entry'[k].state = "generating")
      PROVE  JobHeld' /\ OneWorkerPerKey'
  BY <1>b
<1>1. ASSUME NEW w \in Workers, CreateWorker(w) PROVE JobHeld' /\ OneWorkerPerKey'
  BY <1>1, <1>a, <1>b DEF CreateWorker
<1>2. CASE CreateFails
  BY <1>2, <1>a, <1>b DEF CreateFails, Broadcast
<1>3. ASSUME NEW k \in Keys, NEW p \in Priorities, Enqueue(k, p) PROVE JobHeld' /\ OneWorkerPerKey'
  <2>1. \A w \in Workers : (pc[w] \in {"capturing", "removing"}) <=> (pc'[w] \in {"capturing", "removing"})
    BY <1>3, <1>a DEF Enqueue, Signal
  <2>2. \A j \in Keys : (entry[j].state = "generating") <=> (entry'[j].state = "generating")
    BY <1>3, <1>a DEF Enqueue, Accepts, Generating, Schedule
  <2> QED
    BY <1>3, <2>1, <2>2, <1>b DEF Enqueue
<1>4. ASSUME NEW k \in Keys, NEW p \in Priorities, EnqueueOutOfMemory(k, p)
      PROVE  JobHeld' /\ OneWorkerPerKey'
  BY <1>4, <1>b DEF EnqueueOutOfMemory
<1>5. CASE CancelPending
  <2>1. \A j \in Keys : (entry[j].state = "generating") <=> (entry'[j].state = "generating")
    BY <1>5, <1>a DEF CancelPending, Cancelled, Pending, NoEntry
  <2> QED
    BY <1>5, <2>1, <1>b DEF CancelPending
<1>6. ASSUME NEW b \in BOOLEAN, SetPaused(b) PROVE JobHeld' /\ OneWorkerPerKey'
  BY <1>6, <1>a, <1>b DEF SetPaused, Broadcast
<1>7. CASE Destroy
  BY <1>7, <1>a, <1>b DEF Destroy, Broadcast
<1>8. CASE Free
  <2>1. \A w \in Workers : ~Busy(w)
    BY <1>8 DEF Free, Joinable
  <2>2. \A k \in Keys : entry[k].state # "generating" /\ entry'[k].state # "generating"
    BY <2>1, <1>8 DEF Free, NoEntry
  <2> QED
    BY <1>8, <2>2, <1>b DEF Free
<1>9. ASSUME NEW w \in Workers, Exit(w) PROVE JobHeld' /\ OneWorkerPerKey'
  BY <1>9, <1>a, <1>b DEF Exit
<1>10. ASSUME NEW w \in Workers, Take(w) PROVE JobHeld' /\ OneWorkerPerKey'
  <2>1. PICK n \in heap :
          /\ IsLive(n)
          /\ entry' = [entry EXCEPT ![n.key].state = "generating"]
          /\ job' = [job EXCEPT ![w] = n]
    BY <1>10 DEF Take
  <2>2. n \in Node /\ n.key \in Keys
    BY <1>a DEF Node
  <2>3. entry[n.key] \in Entry /\ entry[n.key].state = "pending"
    BY <2>1, <2>2, <1>a DEF IsLive, Pending, NoEntry
  <2>4. \A v \in Workers : Busy(v) => job[v].key # n.key
    BY <2>2, <2>3
  <2>5. \A v \in Workers : Busy(v)' <=> Busy(v) \/ v = w
    BY <1>10, <1>a DEF Take
  <2>6. job'[w] = n /\ \A v \in Workers \ {w} : job'[v] = job[v]
    BY <2>1, <1>a
  <2>7. entry'[n.key].state = "generating" /\ \A k \in Keys \ {n.key} : entry'[k] = entry[k]
    BY <2>1, <2>2, <2>3, <1>a DEF Entry
  <2>8. ~Busy(w)
    BY <1>10 DEF Take
  <2>9. JobHeld'
    BY <2>2, <2>5, <2>6
  <2>10. \A u, v \in Workers : Busy(u)' /\ Busy(v)' /\ job'[u].key = job'[v].key => u = v
    BY <2>4, <2>5, <2>6, <2>8
  <2>11. \A k \in Keys : Generating(k)' <=> \E v \in Workers : Busy(v)' /\ job'[v].key = k
    <3> SUFFICES ASSUME NEW k \in Keys
                 PROVE  Generating(k)' <=> \E v \in Workers : Busy(v)' /\ job'[v].key = k
      OBVIOUS
    <3>1. CASE k = n.key
      BY <3>1, <2>5, <2>6, <2>7
    <3>2. CASE k # n.key
      BY <3>2, <2>5, <2>6, <2>7, <2>8
    <3> QED
      BY <3>1, <3>2
  <2> QED
    BY <2>9, <2>10, <2>11
<1>11. ASSUME NEW w \in Workers, Wait(w) PROVE JobHeld' /\ OneWorkerPerKey'
  BY <1>11, <1>a, <1>b DEF Wait
<1>12. ASSUME NEW w \in Workers, SpuriousWakeup(w) PROVE JobHeld' /\ OneWorkerPerKey'
  BY <1>12, <1>a, <1>b DEF SpuriousWakeup
<1>13. ASSUME NEW w \in Workers, Capture(w) PROVE JobHeld' /\ OneWorkerPerKey'
  BY <1>13, <1>a, <1>b DEF Capture
<1>14. ASSUME NEW w \in Workers, Remove(w) PROVE JobHeld' /\ OneWorkerPerKey'
  <2>1. Busy(w) /\ job[w] \in Node /\ job[w].key \in Keys
    BY <1>14 DEF Remove, Node
  <2>2. \A v \in Workers : Busy(v)' <=> Busy(v) /\ v # w
    BY <1>14, <1>a DEF Remove
  <2>3. \A v \in Workers \ {w} : job'[v] = job[v]
    BY <1>14, <1>a DEF Remove
  <2>4. /\ entry'[job[w].key].state # "generating"
        /\ \A k \in Keys \ {job[w].key} : entry'[k] = entry[k]
    BY <1>14, <2>1, <1>a DEF Remove, NoEntry
  <2>5. JobHeld'
    BY <2>2, <2>3
  <2>6. \A u, v \in Workers : Busy(u)' /\ Busy(v)' /\ job'[u].key = job'[v].key => u = v
    BY <2>2, <2>3
  <2>7. \A k \in Keys : Generating(k)' <=> \E v \in Workers : Busy(v)' /\ job'[v].key = k
    <3> SUFFICES ASSUME NEW k \in Keys
                 PROVE  Generating(k)' <=> \E v \in Workers : Busy(v)' /\ job'[v].key = k
      OBVIOUS
    <3>1. CASE k = job[w].key
      BY <3>1, <2>1, <2>2, <2>3, <2>4
    <3>2. CASE k # job[w].key
      BY <3>2, <2>1, <2>2, <2>3, <2>4
    <3> QED
      BY <3>1, <3>2
  <2> QED
    BY <2>5, <2>6, <2>7
<1>15. CASE UNCHANGED vars
  BY <1>15 DEF vars
<1> QED
  BY <1>1, <1>2, <1>3, <1>4, <1>5, <1>6, <1>7, <1>8, <1>9, <1>10, <1>11, <1>12, <1>13,
     <1>14, <1>15 DEF Next, OwnerStep, WorkerStep, Done

(* Generations: a new node is younger than every node of the heap, and     *)
(* every other step only drops nodes.                                      *)
LEMMA GenerationStep ==
  TypeOK /\ FreshGenerations /\ [Next]_vars => FreshGenerations'
<1> SUFFICES ASSUME TypeOK, FreshGenerations, [Next]_vars
             PROVE  FreshGenerations'
  OBVIOUS
<1> USE DEF FreshGenerations
<1>a. heap \subseteq Node /\ next_generation \in Nat
  BY DEF TypeOK
<1>b. ASSUME heap' \subseteq heap, next_generation' \in {next_generation, next_generation + 1}
      PROVE  FreshGenerations'
  <2>1. \A n \in heap' : n.generation \in Nat
    BY <1>a, <1>b DEF Node
  <2> QED
    BY <1>a, <1>b, <2>1
<1>1. ASSUME NEW k \in Keys, NEW p \in Priorities, Enqueue(k, p) PROVE FreshGenerations'
  <2> DEFINE new == [key |-> k, priority |-> p, generation |-> next_generation + 1]
  <2>1. heap' = heap \cup {new} /\ next_generation' = next_generation + 1
    BY <1>1 DEF Enqueue, NextGeneration
  <2>2. \A n \in heap : n.generation \in Nat /\ n.generation < new.generation
    BY <1>a DEF Node
  <2>3. \A n \in heap' : n.generation <= next_generation'
    BY <1>a, <2>1, <2>2
  <2>4. \A m, n \in heap' : m.generation = n.generation => m = n
    BY <2>1, <2>2
  <2> QED
    BY <2>3, <2>4
<1>2. ASSUME NEW k \in Keys, NEW p \in Priorities, EnqueueOutOfMemory(k, p) PROVE FreshGenerations'
  BY <1>2, <1>b DEF EnqueueOutOfMemory, NextGeneration
<1>3. CASE CancelPending
  BY <1>3, <1>b DEF CancelPending
<1>4. CASE Free
  BY <1>4, <1>b DEF Free
<1>5. ASSUME NEW w \in Workers, WorkerStep(w) \/ SpuriousWakeup(w) \/ CreateWorker(w)
      PROVE  FreshGenerations'
  <2>1. heap' \subseteq heap /\ next_generation' = next_generation
    BY <1>5 DEF WorkerStep, Exit, Take, Wait, Capture, Remove, SpuriousWakeup, CreateWorker
  <2> QED
    BY <2>1, <1>b
<1>6. CASE CreateFails \/ Destroy \/ (\E b \in BOOLEAN : SetPaused(b)) \/ UNCHANGED vars
  BY <1>6, <1>b DEF CreateFails, Destroy, SetPaused, vars
<1> QED
  BY <1>1, <1>2, <1>3, <1>4, <1>5, <1>6 DEF Next, OwnerStep, Done

(* queue_higher never ranks two nodes above each other.                    *)
LEMMA HigherAsymmetric ==
  ASSUME NEW a \in Node, NEW b \in Node, Higher(a, b)
  PROVE  ~Higher(b, a)
<1>1. /\ a.priority \in Priorities /\ a.generation \in Nat
      /\ b.priority \in Priorities /\ b.generation \in Nat
  BY DEF Node
<1>2. a.priority \in Int /\ b.priority \in Int
  BY <1>1, SchedulerAssumption
<1> QED
  BY <1>1, <1>2 DEF Higher

(* Waiting entries: the heap loses the node of one only when it is taken,  *)
(* cancelled or freed, that is together with the entry.                    *)
LEMMA NoLostJobStep ==
  TypeOK /\ JobHeld /\ OneWorkerPerKey /\ FreshGenerations /\ NoLostJob /\ [Next]_vars
    => NoLostJob'
<1> SUFFICES ASSUME TypeOK, JobHeld, OneWorkerPerKey, FreshGenerations, NoLostJob, [Next]_vars,
                    NEW j \in Keys, Pending(j)'
             PROVE  [key |-> j, priority |-> entry'[j].priority,
                     generation |-> entry'[j].generation] \in heap'
  BY DEF NoLostJob
<1> DEFINE node == [key |-> j, priority |-> entry[j].priority, generation |-> entry[j].generation]
<1>a. heap \subseteq Node /\ entry \in [Keys -> Entry \cup {NoEntry}] /\ next_generation \in Nat
  BY DEF TypeOK
<1>b. Pending(j) => node \in heap /\ IsLive(node) /\ node \in Node
  <2> SUFFICES ASSUME Pending(j) PROVE node \in heap /\ IsLive(node) /\ node \in Node
    OBVIOUS
  <2>1. node \in heap
    BY DEF NoLostJob
  <2>2. IsLive(node)
    BY DEF IsLive
  <2> QED
    BY <2>1, <2>2, <1>a
<1>c. ASSUME entry'[j] = entry[j], node \in heap => node \in heap'
      PROVE  [key |-> j, priority |-> entry'[j].priority,
              generation |-> entry'[j].generation] \in heap'
  BY <1>b, <1>c DEF Pending
<1>1. ASSUME NEW k \in Keys, NEW p \in Priorities, Enqueue(k, p)
      PROVE  [key |-> j, priority |-> entry'[j].priority,
              generation |-> entry'[j].generation] \in heap'
  <2>1. /\ heap' = heap \cup {[key |-> k, priority |-> p, generation |-> next_generation + 1]}
        /\ entry' = [entry EXCEPT ![k] = [state |-> "pending", priority |-> p,
                                         generation |-> next_generation + 1]]
    BY <1>1 DEF Enqueue, NextGeneration, Schedule
  <2>2. CASE j = k
    BY <2>1, <2>2, <1>a
  <2>3. CASE j # k
    BY <2>1, <2>3, <1>a, <1>c
  <2> QED
    BY <2>2, <2>3
<1>2. CASE CancelPending
  <2>1. ~Pending(j)'
    BY <1>2, <1>a, <1>b DEF CancelPending, Cancelled, Pending, NoEntry
  <2> QED
    BY <2>1
<1>3. CASE Free
  BY <1>3 DEF Free, Pending, NoEntry
<1>4. ASSUME NEW w \in Workers, Take(w)
      PROVE  [key |-> j, priority |-> entry'[j].priority,
              generation |-> entry'[j].generation] \in heap'
  <2>1. PICK n \in heap :
          /\ IsLive(n)
          /\ \A m \in heap \ {n} : IsLive(m) => Higher(n, m)
          /\ heap' = {m \in heap \ {n} : ~Higher(m, n)}
          /\ entry' = [entry EXCEPT ![n.key].state = "generating"]
    BY <1>4 DEF Take
  <2>2. n \in Node
    BY <1>a
  <2>3. j # n.key
    <3>1. n.key \in Keys /\ entry[n.key] \in Entry
      BY <2>1, <2>2, <1>a DEF Pending, Node, IsLive, NoEntry
    <3>2. entry'[n.key].state = "generating"
      BY <2>1, <3>1, <1>a DEF Entry
    <3> QED
      BY <3>2 DEF Pending
  <2>4. entry'[j] = entry[j]
    BY <2>1, <2>3, <1>a
  <2>5. Pending(j)
    BY <2>4 DEF Pending
  <2>6. node # n /\ Higher(n, node)
    BY <2>1, <2>3, <2>5, <1>b
  <2>7. ~Higher(node, n)
    BY <2>2, <2>5, <2>6, <1>b, HigherAsymmetric
  <2> QED
    BY <2>1, <2>4, <2>6, <2>7, <1>c
<1>5. ASSUME NEW w \in Workers, Wait(w)
      PROVE  [key |-> j, priority |-> entry'[j].priority,
              generation |-> entry'[j].generation] \in heap'
  <2>1. entry' = entry /\ (heap' = heap \/ \A n \in heap : ~IsLive(n))
    BY <1>5 DEF Wait
  <2> QED
    BY <2>1, <1>b, <1>c DEF Pending
<1>6. ASSUME NEW w \in Workers, Remove(w)
      PROVE  [key |-> j, priority |-> entry'[j].priority,
              generation |-> entry'[j].generation] \in heap'
  <2>1. heap' = heap /\ entry' = [entry EXCEPT ![job[w].key] = NoEntry]
    BY <1>6 DEF Remove
  <2>2. j # job[w].key
    <3>1. job[w].key = j => entry'[j] = NoEntry
      BY <2>1, <1>a
    <3> QED
      BY <3>1 DEF Pending, NoEntry
  <2> QED
    BY <2>1, <2>2, <1>a, <1>c
<1>7. CASE heap' = heap /\ entry' = entry
  BY <1>7, <1>c
<1>8. ASSUME NEW w \in Workers, Exit(w) \/ Capture(w) \/ SpuriousWakeup(w) \/ CreateWorker(w)
      PROVE  heap' = heap /\ entry' = entry
  BY <1>8 DEF Exit, Capture, SpuriousWakeup, CreateWorker
<1>9. ASSUME NEW k \in Keys, NEW p \in Priorities, EnqueueOutOfMemory(k, p)
      PROVE  heap' = heap /\ entry' = entry
  BY <1>9 DEF EnqueueOutOfMemory
<1>10. CASE CreateFails \/ Destroy \/ (\E b \in BOOLEAN : SetPaused(b)) \/ UNCHANGED vars
  BY <1>10, <1>7 DEF CreateFails, Destroy, SetPaused, vars
<1> QED
  BY <1>1, <1>2, <1>3, <1>4, <1>5, <1>6, <1>7, <1>8, <1>9, <1>10
     DEF Next, OwnerStep, WorkerStep, Done

(* Teardown: stopping is raised with a broadcast, and no worker falls      *)
(* asleep after it.                                                        *)
LEMMA ShutdownStep ==
  TypeOK /\ StoppingWhenClosing /\ SafeShutdown /\ [Next]_vars
    => StoppingWhenClosing' /\ SafeShutdown'
<1> SUFFICES ASSUME TypeOK, StoppingWhenClosing, SafeShutdown, [Next]_vars
             PROVE  StoppingWhenClosing' /\ SafeShutdown'
  OBVIOUS
<1> USE DEF StoppingWhenClosing, SafeShutdown
<1>a. pc \in [Workers -> WorkerPC] /\ stopping \in BOOLEAN
      /\ owner \in {"creating", "open", "joining", "destroyed"}
  BY DEF TypeOK
<1>1. ASSUME NEW w \in Workers, CreateWorker(w) PROVE StoppingWhenClosing' /\ SafeShutdown'
  BY <1>1, <1>a DEF CreateWorker
<1>2. CASE CreateFails
  BY <1>2, <1>a DEF CreateFails, Broadcast
<1>3. ASSUME NEW k \in Keys, NEW p \in Priorities, Enqueue(k, p)
      PROVE  StoppingWhenClosing' /\ SafeShutdown'
  BY <1>3, <1>a DEF Enqueue
<1>4. ASSUME NEW k \in Keys, NEW p \in Priorities, EnqueueOutOfMemory(k, p)
      PROVE  StoppingWhenClosing' /\ SafeShutdown'
  BY <1>4 DEF EnqueueOutOfMemory
<1>5. CASE CancelPending
  BY <1>5 DEF CancelPending
<1>6. ASSUME NEW b \in BOOLEAN, SetPaused(b) PROVE StoppingWhenClosing' /\ SafeShutdown'
  BY <1>6, <1>a DEF SetPaused, Broadcast
<1>7. CASE Destroy
  BY <1>7, <1>a DEF Destroy, Broadcast
<1>8. CASE Free
  BY <1>8, <1>a DEF Free, Joinable
<1>9. ASSUME NEW w \in Workers, WorkerStep(w) \/ SpuriousWakeup(w)
      PROVE  StoppingWhenClosing' /\ SafeShutdown'
  BY <1>9, <1>a DEF WorkerStep, Exit, Take, Wait, Capture, Remove, SpuriousWakeup
<1>10. CASE UNCHANGED vars
  BY <1>10 DEF vars
<1> QED
  BY <1>1, <1>2, <1>3, <1>4, <1>5, <1>6, <1>7, <1>8, <1>9, <1>10 DEF Next, OwnerStep, Done

(* Wake-ups: a worker falls asleep only when nothing is to be done, and    *)
(* whoever creates work signals.                                           *)
LEMMA WakeupStep ==
  IInv /\ [Next]_vars => NoLostWakeup'
<1> SUFFICES ASSUME IInv, [Next]_vars, owner' = "open", ~paused',
                    NEW j \in Keys, Pending(j)'
             PROVE  \E w \in Workers : pc'[w] # "waiting"
  BY DEF NoLostWakeup
<1>a. /\ pc \in [Workers -> WorkerPC]
      /\ entry \in [Keys -> Entry \cup {NoEntry}]
      /\ owner \in {"creating", "open", "joining", "destroyed"}
  BY DEF IInv, TypeOK
<1>b. Workers # {}
  BY SchedulerAssumption
<1>c. Pending(j) => \E n \in heap : n.key = j /\ IsLive(n)
  BY DEF IInv, NoLostJob, IsLive
<1>d. owner = "open" /\ ~paused /\ Pending(j) => \E w \in Workers : pc[w] # "waiting"
  BY DEF IInv, NoLostWakeup
<1>1. ASSUME NEW w \in Workers, CreateWorker(w) PROVE \E v \in Workers : pc'[v] # "waiting"
  BY <1>1, <1>a DEF CreateWorker
<1>2. CASE CreateFails \/ Destroy \/ Free
  BY <1>2 DEF CreateFails, Destroy, Free
<1>3. ASSUME NEW k \in Keys, NEW p \in Priorities, Enqueue(k, p)
      PROVE  \E v \in Workers : pc'[v] # "waiting"
  BY <1>3, <1>a, <1>b DEF Enqueue, Signal
<1>4. CASE UNCHANGED <<paused, entry, pc, owner>>
  BY <1>4, <1>d DEF Pending
<1>5. ASSUME NEW k \in Keys, NEW p \in Priorities, EnqueueOutOfMemory(k, p)
      PROVE  UNCHANGED <<paused, entry, pc, owner>>
  BY <1>5 DEF EnqueueOutOfMemory
<1>6. CASE CancelPending
  <2>1. ~Pending(j)'
    BY <1>6, <1>a, <1>c DEF CancelPending, Cancelled, Pending, NoEntry
  <2> QED
    BY <2>1
<1>7. ASSUME NEW b \in BOOLEAN, SetPaused(b) PROVE \E v \in Workers : pc'[v] # "waiting"
  BY <1>7, <1>a, <1>b DEF SetPaused, Broadcast
<1>8. ASSUME NEW w \in Workers, Wait(w) PROVE \E v \in Workers : pc'[v] # "waiting"
  BY <1>8, <1>c DEF Wait, Pending
<1>9. ASSUME NEW w \in Workers,
             Exit(w) \/ Take(w) \/ Capture(w) \/ Remove(w) \/ SpuriousWakeup(w)
      PROVE  \E v \in Workers : pc'[v] # "waiting"
  <2>1. pc'[w] # "waiting"
    BY <1>9, <1>a DEF Exit, Take, Capture, Remove, SpuriousWakeup
  <2> QED
    BY <2>1
<1>10. CASE UNCHANGED vars
  BY <1>10, <1>4 DEF vars
<1> QED
  BY <1>1, <1>2, <1>3, <1>4, <1>5, <1>6, <1>7, <1>8, <1>9, <1>10
     DEF Next, OwnerStep, WorkerStep, Done

(* The invariant holds at first.                                           *)
LEMMA InvInit == Init => IInv
<1> SUFFICES ASSUME Init PROVE IInv
  OBVIOUS
<1>1. TypeOK
  BY TypeInit
<1>2. \A w \in Workers : pc[w] = "unborn"
  BY DEF Init
<1>3. \A k \in Keys : entry[k].state = "absent"
  BY DEF Init, NoEntry
<1> QED
  BY <1>1, <1>2, <1>3
     DEF Init, IInv, JobHeld, OneWorkerPerKey, FreshGenerations, NoLostJob, StoppingWhenClosing,
         SafeShutdown, NoLostWakeup, Busy, Generating, Pending

(* Every step keeps it.                                                    *)
LEMMA InvStep == IInv /\ [Next]_vars => IInv'
<1>1. QED
  BY TypeStep, OwnershipStep, GenerationStep, NoLostJobStep, ShutdownStep, WakeupStep DEF IInv

(* IInv is an invariant.                                                   *)
LEMMA Invariance == Spec => []IInv
<1>1. QED
  BY InvInit, InvStep, PTL DEF Spec

(* No card is ever captured by two workers, and its entry is marked        *)
(* generating exactly while one worker holds it.                           *)
THEOREM OneWorkerPerKeyAlways == Spec => []OneWorkerPerKey
<1>1. IInv => OneWorkerPerKey
  BY DEF IInv
<1> QED
  BY <1>1, Invariance, PTL

(* An entry that waits always has the heap node that will start it.        *)
THEOREM NoLostJobAlways == Spec => []NoLostJob
<1>1. IInv => NoLostJob
  BY DEF IInv
<1> QED
  BY <1>1, Invariance, PTL

(* The workers never all sleep while an unpaused scheduler has work.       *)
THEOREM NoLostWakeupAlways == Spec => []NoLostWakeup
<1>1. IInv => NoLostWakeup
  BY DEF IInv
<1> QED
  BY <1>1, Invariance, PTL

(* A freed scheduler has no live worker, a stopping one no sleeping worker. *)
THEOREM SafeShutdownAlways == Spec => []SafeShutdown
<1>1. IInv => SafeShutdown
  BY DEF IInv
<1> QED
  BY <1>1, Invariance, PTL

(* Heap nodes never share a generation and never come from the future.     *)
THEOREM FreshGenerationsAlways == Spec => []FreshGenerations
<1>1. IInv => FreshGenerations
  BY DEF IInv
<1> QED
  BY <1>1, Invariance, PTL

--------------------------------------------------------------------------------
(* The order of dispatch.                                                  *)

(* In the state before a step of Take, the node taken is the first of all  *)
(* live nodes, and it carries its entry's own priority and generation.     *)
LEMMA TakeOrder ==
  ASSUME IInv, NEW w \in Workers, Take(w)
  PROVE  /\ Pending(job'[w].key)
         /\ job'[w].key \in Keys
         /\ entry[job'[w].key].priority = job'[w].priority
         /\ \A k \in Keys \ {job'[w].key} :
              Pending(k) => Higher(entry[job'[w].key], entry[k])
<1>a. /\ heap \subseteq Node /\ entry \in [Keys -> Entry \cup {NoEntry}]
      /\ job \in [Workers -> Node \cup {NoJob}]
  BY DEF IInv, TypeOK
<1>1. PICK n \in heap :
        /\ IsLive(n)
        /\ \A m \in heap \ {n} : IsLive(m) => Higher(n, m)
        /\ job' = [job EXCEPT ![w] = n]
  BY DEF Take
<1>2. job'[w] = n /\ n \in Node /\ n.key \in Keys /\ Pending(n.key)
  BY <1>1, <1>a DEF Node, IsLive
<1>3. entry[n.key].generation = n.generation
  BY <1>1 DEF IsLive
<1>4. entry[n.key].priority = n.priority
  <2> DEFINE own == [key |-> n.key, priority |-> entry[n.key].priority,
                     generation |-> entry[n.key].generation]
  <2>1. own \in heap
    BY <1>2 DEF IInv, NoLostJob
  <2>2. own = n
    BY <2>1, <1>3 DEF IInv, FreshGenerations
  <2> QED
    BY <2>2
<1>5. ASSUME NEW k \in Keys \ {n.key}, Pending(k)
      PROVE  Higher(entry[n.key], entry[k])
  <2> DEFINE other == [key |-> k, priority |-> entry[k].priority,
                       generation |-> entry[k].generation]
  <2>1. other \in heap
    BY <1>5 DEF IInv, NoLostJob
  <2>2. IsLive(other)
    BY <1>5 DEF IsLive
  <2>3. other # n
    BY <1>5
  <2>4. Higher(n, other)
    BY <1>1, <2>1, <2>2, <2>3
  <2> QED
    BY <2>4, <1>3, <1>4 DEF Higher
<1> QED
  BY <1>2, <1>4, <1>5

(* Only Take brings a worker from next_request to a capture.               *)
LEMMA StartsIsTake ==
  ASSUME TypeOK, [Next]_vars, NEW w \in Workers, Starts(w)
  PROVE  Take(w)
<1>a. pc \in [Workers -> WorkerPC]
  BY DEF TypeOK
<1>b. pc[w] = "next" /\ pc'[w] = "capturing"
  BY DEF Starts
<1>1. ASSUME NEW v \in Workers, v # w, WorkerStep(v) PROVE FALSE
  BY <1>1, <1>a, <1>b DEF WorkerStep, Exit, Take, Wait, Capture, Remove
<1>2. Exit(w) \/ Wait(w) \/ Capture(w) \/ Remove(w) => FALSE
  BY <1>a, <1>b DEF Exit, Wait, Capture, Remove
<1>3. ASSUME NEW v \in Workers, SpuriousWakeup(v) \/ CreateWorker(v) PROVE FALSE
  BY <1>3, <1>a, <1>b DEF SpuriousWakeup, CreateWorker
<1>4. ASSUME NEW k \in Keys, NEW p \in Priorities, Enqueue(k, p) \/ EnqueueOutOfMemory(k, p)
      PROVE  FALSE
  BY <1>4, <1>a, <1>b DEF Enqueue, Signal, EnqueueOutOfMemory
<1>5. CancelPending \/ Free \/ UNCHANGED vars => FALSE
  BY <1>b DEF CancelPending, Free, vars
<1>6. CreateFails \/ Destroy \/ (\E b \in BOOLEAN : SetPaused(b)) => FALSE
  BY <1>a, <1>b DEF CreateFails, Destroy, SetPaused, Broadcast
<1> QED
  BY <1>1, <1>2, <1>3, <1>4, <1>5, <1>6 DEF Next, OwnerStep, WorkerStep, Done

(* Every capture that starts is the one a user waits for most: highest     *)
(* priority first, oldest first among equals.                              *)
THEOREM DispatchOrderAlways == Spec => DispatchOrder
<1>1. IInv /\ [Next]_vars =>
        [\A w \in Workers : Starts(w) =>
           /\ Pending(job'[w].key)
           /\ \A k \in Keys \ {job'[w].key} :
                Pending(k) => Higher(entry[job'[w].key], entry[k])]_vars
  BY StartsIsTake, TakeOrder DEF IInv
<1>2. QED
  BY <1>1, Invariance, PTL DEF Spec, DispatchOrder

(* cancel_pending reaches every waiting entry.                             *)
THEOREM CancelClearsAlways == Spec => CancelClears
<1>1. IInv /\ [Next]_vars => [CancelPending => \A k \in Keys : ~Pending(k)']_vars
  <2> SUFFICES ASSUME IInv, CancelPending, NEW k \in Keys PROVE ~Pending(k)'
    OBVIOUS
  <2>1. entry'[k] = IF Cancelled(k) THEN NoEntry ELSE entry[k]
    BY DEF CancelPending
  <2>2. Pending(k) => Cancelled(k)
    BY DEF IInv, NoLostJob, Cancelled
  <2> QED
    BY <2>1, <2>2 DEF Pending, NoEntry
<1>2. QED
  BY <1>1, Invariance, PTL DEF Spec, CancelClears

--------------------------------------------------------------------------------
(* The scheduler implements the pool of wishes of ThumbnailJobs.           *)

wantBar == [k \in Keys |-> IF Pending(k) THEN entry[k].priority ELSE NoPriority]
runningBar == [w \in Workers |-> IF Busy(w) THEN job[w].key ELSE NoKey]
openBar == owner \in {"creating", "open"}

(* The initial state is one of the pool of wishes.                         *)
LEMMA JobsInit == Init => Jobs!Init
BY DEF Init, Jobs!Init, Pending, Busy, NoEntry

(* Every step is a step of the pool, or none.                              *)
LEMMA JobsStep == IInv /\ IInv' /\ [Next]_vars => [Jobs!Next]_(Jobs!vars)
<1> SUFFICES ASSUME IInv, IInv', [Next]_vars PROVE [Jobs!Next]_(Jobs!vars)
  OBVIOUS
<1>a. /\ heap \subseteq Node /\ entry \in [Keys -> Entry \cup {NoEntry}]
      /\ pc \in [Workers -> WorkerPC] /\ job \in [Workers -> Node \cup {NoJob}]
      /\ owner \in {"creating", "open", "joining", "destroyed"}
  BY DEF IInv, TypeOK
<1>s. ASSUME wantBar' = wantBar, runningBar' = runningBar, openBar' = openBar
      PROVE  [Jobs!Next]_(Jobs!vars)
  BY <1>s DEF Jobs!vars, wantBar, runningBar, openBar
<1>r. ASSUME \A w \in Workers : Busy(w)' <=> Busy(w), UNCHANGED job
      PROVE  runningBar' = runningBar
  BY <1>r DEF runningBar
<1>w. ASSUME UNCHANGED entry
      PROVE  wantBar' = wantBar
  BY <1>w DEF wantBar, Pending
<1>1. ASSUME NEW w \in Workers, CreateWorker(w) PROVE [Jobs!Next]_(Jobs!vars)
  <2>1. runningBar' = runningBar
    BY <1>1, <1>a, <1>r DEF CreateWorker, Busy
  <2>2. wantBar' = wantBar /\ openBar' = openBar
    BY <1>1, <1>w DEF CreateWorker, openBar
  <2> QED
    BY <2>1, <2>2, <1>s
<1>2. CASE CreateFails \/ Destroy
  <2>1. runningBar' = runningBar
    BY <1>2, <1>a, <1>r DEF CreateFails, Destroy, Broadcast, Busy
  <2>2. wantBar' = wantBar /\ openBar /\ ~openBar'
    BY <1>2, <1>w DEF CreateFails, Destroy, openBar
  <2>3. Jobs!Close
    BY <2>1, <2>2 DEF Jobs!Close, wantBar, runningBar, openBar
  <2> QED
    BY <2>3 DEF Jobs!Next
<1>3. ASSUME NEW k \in Keys, NEW p \in Priorities, Enqueue(k, p) PROVE [Jobs!Next]_(Jobs!vars)
  <2>1. runningBar' = runningBar
    BY <1>3, <1>a, <1>r DEF Enqueue, Signal, Busy
  <2>2. openBar /\ openBar'
    BY <1>3 DEF Enqueue, openBar
  <2>3. wantBar' = [wantBar EXCEPT ![k] = p]
    BY <1>3, <1>a DEF Enqueue, Schedule, wantBar, Pending
  <2>4. wantBar[k] # NoPriority => Pending(k) /\ wantBar[k] = entry[k].priority
    BY DEF wantBar
  <2>5. wantBar[k] # NoPriority => p > wantBar[k]
    BY <1>3, <2>4 DEF Enqueue, Accepts
  <2>6. \A w \in Workers : runningBar[w] # k
    BY <1>3, SchedulerAssumption DEF Enqueue, Accepts, runningBar, IInv, OneWorkerPerKey
  <2>7. Jobs!Submit(k, p)
    BY <2>1, <2>2, <2>3, <2>5, <2>6 DEF Jobs!Submit, Jobs!Wanted, wantBar, runningBar, openBar
  <2> QED
    BY <2>7 DEF Jobs!Next
<1>4. ASSUME NEW k \in Keys, NEW p \in Priorities, EnqueueOutOfMemory(k, p)
      PROVE  [Jobs!Next]_(Jobs!vars)
  BY <1>4, <1>s, <1>r, <1>w DEF EnqueueOutOfMemory, Busy, openBar
<1>5. CASE CancelPending
  <2>1. \A k \in Keys : ~Pending(k)'
    <3> SUFFICES ASSUME NEW k \in Keys PROVE ~Pending(k)'
      OBVIOUS
    <3>1. entry'[k] = IF Cancelled(k) THEN NoEntry ELSE entry[k]
      BY <1>5 DEF CancelPending
    <3>2. Pending(k) => Cancelled(k)
      BY DEF IInv, NoLostJob, Cancelled
    <3> QED
      BY <3>1, <3>2 DEF Pending, NoEntry
  <2>2. wantBar' = [k \in Keys |-> NoPriority]
    BY <2>1 DEF wantBar
  <2>3. runningBar' = runningBar /\ openBar /\ openBar'
    BY <1>5, <1>r DEF CancelPending, Busy, openBar
  <2>4. Jobs!Cancel
    BY <2>2, <2>3 DEF Jobs!Cancel, wantBar, runningBar, openBar
  <2> QED
    BY <2>4 DEF Jobs!Next
<1>6. ASSUME NEW b \in BOOLEAN, SetPaused(b) PROVE [Jobs!Next]_(Jobs!vars)
  <2>1. runningBar' = runningBar
    BY <1>6, <1>a, <1>r DEF SetPaused, Broadcast, Busy
  <2>2. wantBar' = wantBar /\ openBar' = openBar
    BY <1>6, <1>w DEF SetPaused, openBar
  <2> QED
    BY <2>1, <2>2, <1>s
<1>7. CASE Free
  <2>1. \A w \in Workers : ~Busy(w) /\ ~Busy(w)'
    BY <1>7 DEF Free, Joinable, Busy
  <2>2. runningBar' = runningBar /\ \A w \in Workers : runningBar[w] = NoKey
    BY <2>1 DEF runningBar
  <2>3. ~openBar /\ ~openBar'
    BY <1>7 DEF Free, openBar
  <2>4. wantBar' = [k \in Keys |-> NoPriority]
    BY <1>7 DEF Free, wantBar, Pending, NoEntry
  <2>5. Jobs!Release
    BY <2>2, <2>3, <2>4 DEF Jobs!Release, wantBar, runningBar, openBar
  <2> QED
    BY <2>5 DEF Jobs!Next
<1>8. ASSUME NEW w \in Workers, Take(w) PROVE [Jobs!Next]_(Jobs!vars)
  <2>0. PICK k \in Keys : k = job'[w].key
    BY <1>8, TakeOrder
  <2>1. /\ k \in Keys /\ Pending(k)
        /\ \A j \in Keys \ {k} : Pending(j) => Higher(entry[k], entry[j])
    BY <1>8, <2>0, TakeOrder
  <2>2. PICK n \in heap :
          /\ entry' = [entry EXCEPT ![n.key].state = "generating"]
          /\ job' = [job EXCEPT ![w] = n]
    BY <1>8 DEF Take
  <2>3. k = n.key /\ job'[w].key = k
    BY <2>0, <2>2, <1>a
  <2>4. entry[k] \in Entry
    BY <2>1, <1>a DEF Pending, NoEntry
  <2>5. /\ ~Pending(k)'
        /\ \A j \in Keys \ {k} : entry'[j] = entry[j]
    <3>1. /\ entry'[k] = [entry[k] EXCEPT !.state = "generating"]
          /\ \A j \in Keys \ {k} : entry'[j] = entry[j]
      BY <2>1, <2>2, <2>3, <1>a
    <3>2. entry'[k].state = "generating"
      BY <3>1, <2>4 DEF Entry
    <3> QED
      BY <3>1, <3>2 DEF Pending
  <2>6. wantBar' = [wantBar EXCEPT ![k] = NoPriority]
    <3>1. \A j \in Keys \ {k} : (Pending(j)' <=> Pending(j)) /\ entry'[j].priority = entry[j].priority
      BY <2>5 DEF Pending
    <3>2. wantBar' = [j \in Keys |-> IF j = k THEN NoPriority ELSE wantBar[j]]
      BY <3>1, <2>5 DEF wantBar
    <3> QED
      BY <3>2 DEF wantBar
  <2>7. runningBar' = [runningBar EXCEPT ![w] = k]
    <3>1. Busy(w)' /\ \A v \in Workers \ {w} : (Busy(v)' <=> Busy(v)) /\ job'[v] = job[v]
      BY <1>8, <1>a, <2>2 DEF Take, Busy
    <3> QED
      BY <3>1, <2>3 DEF runningBar
  <2>8. runningBar[w] = NoKey
    BY <1>8 DEF Take, Busy, runningBar
  <2>9. openBar /\ openBar'
    <3>1. ~stopping /\ owner' = owner
      BY <1>8 DEF Take
    <3>2. owner \in {"creating", "open"}
      BY <3>1, <1>a DEF IInv, StoppingWhenClosing
    <3> QED
      BY <3>1, <3>2 DEF openBar
  <2>10. wantBar[k] # NoPriority /\ wantBar[k] = entry[k].priority
    <3>1. entry[k].priority \in Priorities
      BY <2>4 DEF Entry
    <3>2. wantBar[k] = entry[k].priority
      BY <2>1 DEF wantBar
    <3> QED
      BY <3>1, <3>2, SchedulerAssumption
  <2>11. ASSUME NEW j \in Keys, wantBar[j] # NoPriority PROVE wantBar[j] <= wantBar[k]
    <3>1. Pending(j) /\ wantBar[j] = entry[j].priority
      BY <2>11 DEF wantBar
    <3>2. entry[j] \in Entry
      BY <3>1, <1>a DEF Pending, NoEntry
    <3>3. entry[j].priority \in Priorities /\ entry[k].priority \in Priorities
      BY <3>2, <2>4 DEF Entry
    <3>4. entry[j].priority \in Int /\ entry[k].priority \in Int
      BY <3>3, SchedulerAssumption
    <3>5. j # k => entry[j].priority <= entry[k].priority
      BY <2>1, <3>1, <3>4 DEF Higher
    <3> QED
      BY <3>1, <3>4, <3>5, <2>10
  <2>12. Jobs!Start(w, k)
    BY <2>6, <2>7, <2>8, <2>9, <2>10, <2>11
       DEF Jobs!Start, Jobs!Wanted, wantBar, runningBar, openBar
  <2> QED
    BY <2>1, <2>12 DEF Jobs!Next
<1>9. ASSUME NEW w \in Workers, Exit(w) \/ Wait(w) \/ Capture(w) \/ SpuriousWakeup(w)
      PROVE  [Jobs!Next]_(Jobs!vars)
  <2>1. runningBar' = runningBar
    BY <1>9, <1>a, <1>r DEF Exit, Wait, Capture, SpuriousWakeup, Busy
  <2>2. wantBar' = wantBar /\ openBar' = openBar
    BY <1>9, <1>w DEF Exit, Wait, Capture, SpuriousWakeup, openBar
  <2> QED
    BY <2>1, <2>2, <1>s
<1>10. ASSUME NEW w \in Workers, Remove(w) PROVE [Jobs!Next]_(Jobs!vars)
  <2>1. Busy(w) /\ job[w] \in Node
    BY <1>10 DEF Remove, Busy, IInv, JobHeld
  <2>k. PICK k \in Keys : k = job[w].key
    BY <2>1 DEF Node
  <2>2. runningBar[w] # NoKey
    BY <2>1, <2>k, SchedulerAssumption DEF runningBar
  <2>3. runningBar' = [runningBar EXCEPT ![w] = NoKey]
    BY <1>10, <1>a DEF Remove, Busy, runningBar
  <2>4. wantBar' = wantBar
    <3>1. entry' = [entry EXCEPT ![k] = NoEntry]
      BY <1>10, <2>k DEF Remove
    <3>2. Generating(k)
      BY <2>1, <2>k DEF IInv, OneWorkerPerKey
    <3>3. ~Pending(k) /\ ~Pending(k)'
      BY <3>1, <3>2, <1>a DEF Pending, Generating, NoEntry
    <3>4. \A j \in Keys \ {k} : entry'[j] = entry[j]
      BY <3>1, <1>a
    <3> QED
      BY <3>3, <3>4 DEF wantBar, Pending
  <2>5. openBar' = openBar
    BY <1>10 DEF Remove, openBar
  <2>6. Jobs!Finish(w)
    BY <2>2, <2>3, <2>4, <2>5 DEF Jobs!Finish, wantBar, runningBar, openBar
  <2> QED
    BY <2>6 DEF Jobs!Next
<1>11. CASE UNCHANGED vars
  BY <1>11, <1>s, <1>r, <1>w DEF vars, Busy, openBar
<1> QED
  BY <1>1, <1>2, <1>3, <1>4, <1>5, <1>6, <1>7, <1>8, <1>9, <1>10, <1>11
     DEF Next, OwnerStep, WorkerStep, Done

(* Whatever the heap, the generations and the interleavings do, the user   *)
(* interface sees the pool of wishes: one wish and one capture per card,   *)
(* highest wish first.                                                     *)
THEOREM ImplementsJobs == Spec => Jobs!Safety
<1>1. QED
  BY JobsInit, JobsStep, Invariance, PTL DEF Spec, Jobs!Safety

--------------------------------------------------------------------------------
(* The queue limit.                                                        *)

Background(h) == {n \in h : n.priority < InteractivePriority}

Bounded == IsFiniteSet(heap) /\ Cardinality(Background(heap)) <= MaxPending

(* Every step keeps the bound.                                             *)
LEMMA BoundedStep == TypeOK /\ Bounded /\ [Next]_vars => Bounded'
<1> SUFFICES ASSUME TypeOK, Bounded, [Next]_vars PROVE Bounded'
  OBVIOUS
<1> USE DEF Bounded
<1>a. MaxPending \in Nat /\ InteractivePriority \in Int /\ Priorities \subseteq Int
  BY SchedulerAssumption
<1>f. IsFiniteSet(Background(heap)) /\ Cardinality(Background(heap)) \in Nat
  BY FS_Subset, FS_CardinalityType DEF Background
<1>s. ASSUME heap' \subseteq heap PROVE Bounded'
  <2>1. Background(heap') \subseteq Background(heap)
    BY <1>s DEF Background
  <2>2. /\ Cardinality(Background(heap')) \in Nat
        /\ Cardinality(Background(heap')) <= Cardinality(Background(heap))
    <3>1. Background(heap') \in SUBSET Background(heap)
      BY <2>1
    <3>2. /\ IsFiniteSet(Background(heap'))
          /\ Cardinality(Background(heap')) <= Cardinality(Background(heap))
      BY ONLY <3>1, <1>f, FS_Subset
    <3> QED
      BY <3>2, FS_CardinalityType
  <2>3. IsFiniteSet(heap')
    BY <1>s, FS_Subset
  <2> QED
    BY <2>2, <2>3, <1>a, <1>f
<1>1. ASSUME NEW k \in Keys, NEW p \in Priorities, Enqueue(k, p) PROVE Bounded'
  <2> DEFINE new == [key |-> k, priority |-> p, generation |-> next_generation + 1]
  <2>1. heap' = heap \cup {new}
    BY <1>1 DEF Enqueue, NextGeneration
  <2>2. /\ IsFiniteSet(heap') /\ Cardinality(heap) \in Nat /\ Cardinality(heap') \in Nat
        /\ Cardinality(heap') <= Cardinality(heap) + 1
    <3>1. IsFiniteSet(heap \cup {new})
          /\ Cardinality(heap \cup {new}) =
               IF new \in heap THEN Cardinality(heap) ELSE Cardinality(heap) + 1
      BY FS_AddElement
    <3>2. Cardinality(heap) \in Nat
      BY FS_CardinalityType
    <3> HIDE DEF new
    <3> QED
      BY <3>1, <3>2, <2>1
  <2>3. CASE p < InteractivePriority
    <3>1. Cardinality(heap) < MaxPending
      BY <1>1, <2>2, <2>3, <1>a DEF Enqueue, Accepts, Shed
    <3>2. Background(heap') \subseteq heap'
      BY DEF Background
    <3>3. /\ Cardinality(Background(heap')) \in Nat
          /\ Cardinality(Background(heap')) <= Cardinality(heap')
      BY <3>2, <2>2, FS_Subset, FS_CardinalityType
    <3> QED
      BY <3>1, <3>3, <2>2, <1>a
  <2>4. CASE ~(p < InteractivePriority)
    <3>1. Background(heap') = Background(heap)
      BY <2>1, <2>4 DEF Background
    <3> QED
      BY <3>1, <2>2
  <2> QED
    BY <2>3, <2>4
<1>2. ASSUME NEW w \in Workers, WorkerStep(w) \/ SpuriousWakeup(w) \/ CreateWorker(w)
      PROVE  heap' \subseteq heap
  BY <1>2 DEF WorkerStep, Exit, Take, Wait, Capture, Remove, SpuriousWakeup, CreateWorker
<1>3. ASSUME NEW k \in Keys, NEW p \in Priorities, EnqueueOutOfMemory(k, p)
      PROVE  heap' \subseteq heap
  BY <1>3 DEF EnqueueOutOfMemory
<1>4. CASE CreateFails \/ Destroy \/ (\E b \in BOOLEAN : SetPaused(b)) \/ UNCHANGED vars
          \/ CancelPending \/ Free
  <2>1. heap' \subseteq heap
    BY <1>4 DEF CreateFails, Destroy, SetPaused, vars, CancelPending, Free
  <2> QED
    BY <2>1, <1>s
<1> QED
  BY <1>1, <1>2, <1>3, <1>4, <1>s DEF Next, OwnerStep, Done

(* Background prefetch never holds more than MaxPending nodes of the heap. *)
THEOREM BackgroundBoundedAlways == Spec => []BackgroundBounded
<1>1. Init => Bounded
  <2>1. Init => heap = {} /\ Background(heap) = {}
    BY DEF Init, Background
  <2> QED
    BY <2>1, FS_EmptySet, SchedulerAssumption DEF Bounded
<1>2. Bounded => BackgroundBounded
  BY DEF Bounded, BackgroundBounded, Background
<1>3. QED
  BY <1>1, <1>2, BoundedStep, TypeCorrect, PTL DEF Spec
================================================================================
