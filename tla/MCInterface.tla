---- MODULE MCInterface ----
(***************************************************************************)
(* Interface on two Xtream servers and one M3U playlist.  The two servers  *)
(* are interchangeable: no action tells one from the other.                *)
(***************************************************************************)
EXTENDS Interface, TLC

CONSTANTS x1, x2

SameServers == Permutations({x1, x2})
====
