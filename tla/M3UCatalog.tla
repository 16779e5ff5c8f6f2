---- MODULE M3UCatalog ----
(***************************************************************************)
(* From the lines of a playlist to the three catalogs.  Models the parsing *)
(* of src/provider/m3u.c and src/provider/m3u_catalog.c; no state.         *)
(*                                                                         *)
(* A line is an EXTINF with its attributes, a stream address, the header   *)
(* that names the fallback index, or one that is skipped.  An attribute    *)
(* that is absent is None.  A group name is the set of its words, a label  *)
(* the sequence of its words, in lower case and without accents.  Hashes   *)
(* are taken to be injective.                                              *)
(***************************************************************************)
EXTENDS Naturals, Sequences, SequencesExt, Absent

CONSTANTS
  Year,    \* words that are a year between 1900 and 2099
  Marker,  \* words that mark an episode, each with its <<season, episode>>
  Cut      \* what fits into disambiguated[1024] of the texts that are too long

SeriesWord == {"series", "serie", "seriados", "seriado", "anime", "animes", "novela",
               "novelas", "dorama", "doramas"}
FilmWord == {"filmes", "filme", "movies", "movie", "vod", "cinema"}

ContentKind == {"live", "vod", "series"}

ClassifyGroup(group) ==
  IF group \cap SeriesWord /= {} THEN "series"
  ELSE IF group \cap FilmWord /= {} THEN "vod"
  ELSE "live"

\* "Loki 2021" and "Loki" are the same series.
StripReleaseYear(title) ==
  IF Len(title) > 1 /\ Last(title) \in Year THEN Front(title) ELSE title

\* The words before the first marker name the series; None if there are none.
ParseEpisodeLabel(label) ==
  LET marks == {i \in DOMAIN label : label[i] \in DOMAIN Marker}
      mark == CHOOSE i \in marks : \A j \in marks : i <= j
  IN IF marks = {} \/ mark = 1 THEN None
     ELSE [series |-> StripReleaseYear(SubSeq(label, 1, mark - 1)),
           season |-> Marker[label[mark]][1], episode |-> Marker[label[mark]][2]]

----
(* vip_m3u_load: one pass over the lines.                                  *)

NoTag == [line |-> "extinf", tvg |-> None, group |-> None, label |-> None, fallback |-> None]
NoGroup == {"sem", "grupo"}

\* ensure_category: groups in the order they appear, each once.
EnsureCategory(categories, group) ==
  IF Contains(categories, group) THEN categories ELSE Append(categories, group)

\* Relative addresses are taken from the playlist's own.
ResolveUrl(source, l) == IF l.relative THEN <<source, l.url>> ELSE <<l.url>>

\* Plausible slip: the position alone is forgotten.
ChannelIdOfUrl(ids, identity, url, position) ==
  IF <<identity>> \in ids THEN <<identity, url>> ELSE <<identity>>

\* The hashed text: the tvg-id, or the address without one; with the address and
\* the position added when that is taken.  If the three are too long together,
\* the end is cut off, the position first, and nobody looks whether the rest is
\* taken as well.
Disambiguated(text) == IF text \in DOMAIN Cut THEN Cut[text] ELSE text
Cuts == {Cut[text] : text \in DOMAIN Cut}

ChannelId(ids, identity, url, position) ==
  IF <<identity>> \in ids THEN Disambiguated(<<identity, url, position>>) ELSE <<identity>>

ReadStream(source, st, l) ==
  LET tag == st.pending
      url == ResolveUrl(source, l)
      group == IF tag.group = None THEN NoGroup ELSE tag.group
      identity == IF tag.tvg = None THEN url ELSE <<"tvg", tag.tvg>>
      id == ChannelId(st.ids, identity, url, Len(st.channels))
  IN [st EXCEPT
        !.categories = EnsureCategory(@, group),
        !.channels = Append(@,
          [id |-> id, url |-> url, group |-> group,
           label |-> IF tag.label = None THEN <<"canal">> ELSE tag.label,
           fallback |-> IF tag.fallback = None THEN None ELSE <<st.index, tag.fallback>>]),
        !.ids = @ \cup {id},
        !.pending = NoTag]

LineKind == {"extinf", "index", "stream", "other"}

ReadLine(source, st, l) ==
  CASE l.line = "extinf" -> [st EXCEPT !.pending = l]
    [] l.line = "index" -> [st EXCEPT !.index = l.base]
    [] l.line = "stream" -> ReadStream(source, st, l)
    [] l.line = "other" -> st

NothingRead == [categories |-> <<>>, channels |-> <<>>, ids |-> {}, index |-> None,
                pending |-> NoTag]

\* What has been read after the first n lines.
Reading(source, lines) ==
  LET after[n \in 0 .. Len(lines)] ==
        IF n = 0 THEN NothingRead ELSE ReadLine(source, after[n - 1], lines[n])
  IN after

LoadPlaylist(source, lines) == Reading(source, lines)[Len(lines)]

----
(* vip_m3u_split_catalog.                                                  *)

\* An episode is one, whatever its group says.
KindOf(channel) ==
  IF ParseEpisodeLabel(channel.label) /= None THEN "series" ELSE ClassifyGroup(channel.group)

\* What has been copied of the members of S among the first n of a list.
Copying(list, S) ==
  LET after[n \in 0 .. Len(list)] ==
        IF n = 0 THEN <<>>
        ELSE IF list[n] \in S THEN Append(after[n - 1], list[n])
        ELSE after[n - 1]
  IN after

Copied(list, S) == Copying(list, S)[Len(list)]

\* The channels of a kind, and the groups that they use.
ChannelsOfKind(channels, kind) == {c \in ToSet(channels) : KindOf(c) = kind}

\* A category goes into every catalog that uses it.
SplitCatalog(categories, channels) ==
  [k \in ContentKind |->
     [channels |-> Copied(channels, ChannelsOfKind(channels, k)),
      categories |-> Copied(categories, {c.group : c \in ChannelsOfKind(channels, k)})]]
====
