---- MODULE MCPlayerBridge ----
(***************************************************************************)
(* PlayerBridge with a live channel, a series of two episodes that are     *)
(* interchangeable, and a window manager up to two requests behind.        *)
(***************************************************************************)
EXTENDS PlayerBridge, TLC

CONSTANTS e1, e2

SameEpisodes == Permutations({e1, e2})
====
