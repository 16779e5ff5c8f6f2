------------------------- MODULE MCThumbnailScheduler -------------------------
(* A small instance of ThumbnailScheduler: three cards, two workers, one     *)
(* background and two interactive priorities.                                *)
EXTENDS ThumbnailScheduler

MCPriorities == {1, 5, 6}
MCInteractivePriority == 5
================================================================================
