---- MODULE MCLogin ----
(* Small instances of Login.                                               *)
EXTENDS Login, TLC

MCForm ==
  {[mode |-> "xtream", server |-> "p", alt |-> None],
   [mode |-> "xtream", server |-> "p", alt |-> "a"],
   [mode |-> "m3u", server |-> "m", alt |-> None]}

Row(number, name, title, type, direct) ==
  [number |-> number, name |-> name, title |-> title, type |-> type, direct |-> direct]

\* The same numbers everywhere, one row with a title but no name, one of another
\* type with an address of its own; one server's numbers may be empty.
Rows ==
  {Row(1, "x", None, None, None), Row(2, None, "x", "live", None),
   Row(3, "y", None, "movie", "elsewhere")}
MCAnswer ==
  [s \in Provider |-> [what \in {"categories", "streams", "vod", "series"} |->
     Rows \cup IF s = "a" THEN {Row(Empty, "z", None, "live", None)} ELSE {}]]

MCNamed == {<<>>, <<"r", "r", "q">>}

Tag(tvg, group, label, fallback) ==
  [line |-> "extinf", tvg |-> tvg, group |-> group, label |-> label, fallback |-> fallback]

Episode == Tag("t", None, <<"loki", "2021", "s1e1">>, "f")
Film == Tag("t", {"filmes"}, <<"x">>, None)
News == Tag(None, {"canais"}, <<"news">>, None)
Absolute == [line |-> "stream", url |-> "u", relative |-> FALSE]
Relative == [line |-> "stream", url |-> "v", relative |-> TRUE]
Index == [line |-> "index", base |-> "b"]

\* Every one of up to three lines, and a longer one.
MCPlaylist ==
  UNION {[1 .. n -> {Episode, Film, News, Absolute, Relative, Index}] : n \in 0 .. 3} \cup
  {<<Index, Episode, Absolute, Film, Relative, [line |-> "other"], Episode, Relative>>}

MCMarker == "s1e1" :> <<1, 1>>

\* The relative address is too long to be added to itself.
MCCut == [t \in {<<<<"m", "v">>, <<"m", "v">>, n>> : n \in 0 .. 7} |-> <<<<"cut">>>>]
====
