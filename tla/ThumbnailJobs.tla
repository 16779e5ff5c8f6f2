----------------------------- MODULE ThumbnailJobs -----------------------------
(***************************************************************************)
(* What the thumbnail scheduler promises to the user interface, with no    *)
(* heap, no generations, no condition variable and no worker loop: a pool  *)
(* of wanted thumbnails with at most one wish per card, from which idle    *)
(* workers take a wish of the highest priority, and at most one worker per *)
(* card at any time.                                                       *)
(***************************************************************************)
EXTENDS Integers

CONSTANTS
  Keys,        (* thumbnail identities: (provider_id, channel_id) pairs       *)
  Workers,     (* worker threads of the pool                                  *)
  Priorities,  (* priorities the user interface asks with                     *)
  NoPriority,  (* the priority of a card nobody asked for                     *)
  NoKey        (* the card of an idle worker                                  *)

VARIABLES
  want,        (* want[k]: highest priority asked for k since its last start  *)
  running,     (* running[w]: the card worker w captures                      *)
  open         (* FALSE once the owner started to destroy the pool            *)

vars == <<want, running, open>>

TypeOK ==
  /\ want \in [Keys -> Priorities \cup {NoPriority}]
  /\ running \in [Workers -> Keys \cup {NoKey}]
  /\ open \in BOOLEAN

Wanted(k) == want[k] # NoPriority

Init ==
  /\ want = [k \in Keys |-> NoPriority]
  /\ running = [w \in Workers |-> NoKey]
  /\ open = TRUE

(* A wish is only ever recorded or promoted, and not while k is captured.  *)
Submit(k, p) ==
  /\ open
  /\ \A w \in Workers : running[w] # k
  /\ Wanted(k) => p > want[k]
  /\ want' = [want EXCEPT ![k] = p]
  /\ UNCHANGED <<running, open>>

(* An idle worker takes a wish that no other wish outranks.                *)
Start(w, k) ==
  /\ open
  /\ running[w] = NoKey
  /\ Wanted(k)
  /\ \A j \in Keys : Wanted(j) => want[j] <= want[k]
  /\ want' = [want EXCEPT ![k] = NoPriority]
  /\ running' = [running EXCEPT ![w] = k]
  /\ UNCHANGED open

(* A capture that was started runs to its end, also after Cancel and Close. *)
Finish(w) ==
  /\ running[w] # NoKey
  /\ running' = [running EXCEPT ![w] = NoKey]
  /\ UNCHANGED <<want, open>>

(* All wishes are dropped; captures go on.                                 *)
Cancel ==
  /\ open
  /\ want' = [k \in Keys |-> NoPriority]
  /\ UNCHANGED <<running, open>>

Close ==
  /\ open
  /\ open' = FALSE
  /\ UNCHANGED <<want, running>>

(* The pool is gone: nothing runs and nothing is wanted any more.          *)
Release ==
  /\ ~open
  /\ \A w \in Workers : running[w] = NoKey
  /\ want' = [k \in Keys |-> NoPriority]
  /\ UNCHANGED <<running, open>>

Next ==
  \/ \E k \in Keys, p \in Priorities : Submit(k, p)
  \/ \E w \in Workers, k \in Keys : Start(w, k)
  \/ \E w \in Workers : Finish(w)
  \/ Cancel
  \/ Close
  \/ Release

Safety == Init /\ [][Next]_vars

Spec ==
  /\ Safety
  /\ \A w \in Workers : WF_vars(Finish(w))
================================================================================
