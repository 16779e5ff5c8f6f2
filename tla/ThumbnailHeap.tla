----------------------------- MODULE ThumbnailHeap -----------------------------
(***************************************************************************)
(* The binary heap of src/src/thumbnails/thumbnails.c (heap_push,          *)
(* heap_pop), one action per turn of its sift loops.  ThumbnailScheduler   *)
(* treats the heap as a set whose first element is popped; this module     *)
(* checks that the array is that set.                                      *)
(***************************************************************************)
EXTENDS Integers, FiniteSets

CONSTANTS
  Priorities,     (* request priorities                                       *)
  MaxGeneration,  (* bound: requests pushed in one behaviour                  *)
  NoItem          (* nothing popped yet                                       *)

ASSUME HeapAssumption ==
  /\ Priorities \subseteq Int
  /\ MaxGeneration \in Nat

VARIABLES
  heap,        (* s->heap[0 .. heap_len - 1]                                  *)
  heap_len,    (* s->heap_len                                                 *)
  i,           (* the index the running loop stands at                        *)
  loop,        (* which loop runs: "idle", "up" (push) or "down" (pop)        *)
  out,         (* the item heap_pop returns                                   *)
  generation,  (* the generation last handed out                              *)
  contents     (* history: what was pushed and neither popped nor cleared     *)

vars == <<heap, heap_len, i, loop, out, generation, contents>>

Item == [priority : Priorities, generation : 1 .. MaxGeneration]

TypeOK ==
  /\ heap_len \in 0 .. MaxGeneration
  /\ heap \in [0 .. heap_len - 1 -> Item]
  /\ i \in Nat
  /\ loop \in {"idle", "up", "down"}
  /\ out \in Item \cup {NoItem}
  /\ generation \in 0 .. MaxGeneration
  /\ contents \subseteq Item

--------------------------------------------------------------------------------

(* queue_higher *)
Higher(a, b) ==
  \/ a.priority > b.priority
  \/ a.priority = b.priority /\ a.generation < b.generation

Parent(j) == (j - 1) \div 2

Left(j) == 2 * j + 1
Right(j) == Left(j) + 1

(* Plausible slip: no temporary, the item moved down is lost.              *)
Swap_WithoutTemporary(h, j, k) == [h EXCEPT ![k] = h[j]]

Swap(h, j, k) == [h EXCEPT ![j] = h[k], ![k] = h[j]]

(* Plausible slip: the right child is only compared with the parent, not   *)
(* with the left child, so the lesser child may move up.                   *)
Best_LastBetter(j) ==
  IF Right(j) < heap_len /\ Higher(heap[Right(j)], heap[j]) THEN Right(j)
  ELSE IF Left(j) < heap_len /\ Higher(heap[Left(j)], heap[j]) THEN Left(j)
  ELSE j

(* The index the sift-down loop swaps with; j itself when it stops.        *)
Best(j) ==
  LET l == IF Left(j) < heap_len /\ Higher(heap[Left(j)], heap[j]) THEN Left(j) ELSE j
  IN  IF Right(j) < heap_len /\ Higher(heap[Right(j)], heap[l]) THEN Right(j) ELSE l

--------------------------------------------------------------------------------

Init ==
  /\ heap = [j \in 0 .. -1 |-> NoItem]
  /\ heap_len = 0
  /\ i = 0
  /\ loop = "idle"
  /\ out = NoItem
  /\ generation = 0
  /\ contents = {}

(* heap_push up to its loop: the item goes to the end of the array.        *)
Push(p) ==
  /\ loop = "idle"
  /\ generation < MaxGeneration
  /\ LET item == [priority |-> p, generation |-> generation + 1]
     IN  /\ heap' = [j \in 0 .. heap_len |-> IF j = heap_len THEN item ELSE heap[j]]
         /\ contents' = contents \cup {item}
  /\ heap_len' = heap_len + 1
  /\ generation' = generation + 1
  /\ i' = heap_len
  /\ loop' = "up"
  /\ UNCHANGED out

SiftUp ==
  /\ loop = "up"
  /\ IF i > 0 /\ Higher(heap[i], heap[Parent(i)])
     THEN heap' = Swap(heap, i, Parent(i)) /\ i' = Parent(i) /\ UNCHANGED loop
     ELSE loop' = "idle" /\ i' = 0 /\ UNCHANGED heap
  /\ UNCHANGED <<heap_len, out, generation, contents>>

(* heap_pop up to its loop: the last item replaces the root.               *)
Pop ==
  /\ loop = "idle"
  /\ heap_len > 0
  /\ out' = heap[0]
  /\ contents' = contents \ {heap[0]}
  /\ heap_len' = heap_len - 1
  /\ heap' = [j \in 0 .. heap_len - 2 |-> IF j = 0 THEN heap[heap_len - 1] ELSE heap[j]]
  /\ i' = 0
  /\ loop' = "down"
  /\ UNCHANGED generation

SiftDown ==
  /\ loop = "down"
  /\ IF Best(i) # i
     THEN heap' = Swap(heap, i, Best(i)) /\ i' = Best(i) /\ UNCHANGED loop
     ELSE loop' = "idle" /\ i' = 0 /\ UNCHANGED heap
  /\ UNCHANGED <<heap_len, out, generation, contents>>

(* cancel_pending: heap_len = 0.                                           *)
Clear ==
  /\ loop = "idle"
  /\ heap_len' = 0
  /\ heap' = [j \in 0 .. -1 |-> NoItem]
  /\ contents' = {}
  /\ UNCHANGED <<i, loop, out, generation>>

Next ==
  \/ \E p \in Priorities : Push(p)
  \/ Pop
  \/ Clear
  \/ SiftUp
  \/ SiftDown

Spec == Init /\ [][Next]_vars

--------------------------------------------------------------------------------

(* Between two operations no item ranks above its parent.                  *)
HeapOrder ==
  loop = "idle" => \A j \in 1 .. heap_len - 1 : ~Higher(heap[j], heap[Parent(j)])

(* In the middle of a loop the order is broken at index i alone: above it  *)
(* while an item rises, below it while one sinks, and i's parent still     *)
(* ranks above i's children.                                               *)
OneDefect ==
  /\ loop = "up" =>
       \A j \in 1 .. heap_len - 1 : j # i => ~Higher(heap[j], heap[Parent(j)])
  /\ loop = "down" =>
       \A j \in 1 .. heap_len - 1 : Parent(j) # i => ~Higher(heap[j], heap[Parent(j)])
  /\ i > 0 =>
       \A j \in 1 .. heap_len - 1 :
         Parent(j) = i => ~Higher(heap[j], heap[Parent(i)])

(* The array holds each pushed item once: the swaps lose and copy nothing. *)
SameItems ==
  /\ contents = {heap[j] : j \in 0 .. heap_len - 1}
  /\ Cardinality(contents) = heap_len

(* Together they carry the order through the loops; see PopsFirst.         *)
HeapSound == TypeOK /\ HeapOrder /\ OneDefect /\ SameItems

(* What heap_pop returns ranks above everything that stays behind.         *)
PopsFirst ==
  [][Pop => /\ out' \in contents
            /\ \A item \in contents' : Higher(out', item)]_vars
================================================================================
