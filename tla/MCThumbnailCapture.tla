-------------------------- MODULE MCThumbnailCapture --------------------------
(* Small instances of ThumbnailCapture: cards with artwork (a), with a title *)
(* the search knows (t or s) or does not (u) and without one (p), two       *)
(* workers, one background and one interactive priority; the longer runs    *)
(* have the interactive one only, as a call does the same at both.          *)
EXTENDS ThumbnailCapture, TLC

MCPriorities == {1, 5}
MCInteractivePriority == 5
MCInteractiveOnly == {MCInteractivePriority}

Symmetry == Permutations(Workers)
================================================================================
