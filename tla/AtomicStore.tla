---- MODULE AtomicStore ----
(***************************************************************************)
(* What the database promises the rest of the program: the stored catalog  *)
(* of a provider is replaced as a whole or not at all, and what a caller   *)
(* was told to be stored is stored, whenever the program is killed.        *)
(***************************************************************************)
EXTENDS Naturals

CONSTANTS
  Provider,   \* whose catalogs are stored
  Table,      \* the tables whose rows are written one by one
  MaxVersion, \* bound: versions of a catalog
  MaxWrites   \* bound: rows written

VARIABLES
  catalog,  \* the version of each provider's catalog; 0 is the empty one
  row,      \* the row each table holds, named by the write; 0 is none
  told      \* the row its writer was last told is there

Init ==
  /\ catalog = [p \in Provider |-> 0]
  /\ row = [t \in Table |-> 0]
  /\ told = [t \in Table |-> 0]

Replace(p, v) ==
  /\ catalog' = [catalog EXCEPT ![p] = v]
  /\ UNCHANGED <<row, told>>

Put(t, r) ==
  /\ row' = [row EXCEPT ![t] = r]
  /\ told' = [told EXCEPT ![t] = r]
  /\ UNCHANGED catalog

Next ==
  \/ \E p \in Provider, v \in 1 .. MaxVersion : Replace(p, v)
  \/ \E t \in Table, r \in 0 .. MaxWrites : Put(t, r)

Spec == Init /\ [][Next]_<<catalog, row, told>>
====
