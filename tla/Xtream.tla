---- MODULE Xtream ----
(***************************************************************************)
(* What the Xtream client makes of a server's answers, and what the server *)
(* resolver makes of the resolver's.  Models the parsing of                *)
(* src/provider/xtream.c and src/provider/server_resolver.c; no state.     *)
(*                                                                         *)
(* A row of an answer is [number, name, title, type, direct], None where it *)
(* has none; a number may also be an empty string.  Of a row without       *)
(* direct, which names a stream address outright, the client makes the     *)
(* address itself.  The result is [id, provider, server, direct]: provider *)
(* is the account it is filed under, server the one that gave the row, and *)
(* whose address it gets unless direct has another.                        *)
(***************************************************************************)
EXTENDS Naturals, Sequences, SequencesExt, Absent

CONSTANTS
  MaxBases,  \* candidates the resolver's answer may name (RESOLVER_MAX_BASES)
  Empty      \* an empty number

ASSUME XtreamAssumption == MaxBases \in Nat \ {0} /\ Empty /= None

\* The identity of the account on a server (vip_credentials_init): there is one
\* user, so it is named by the server.
ProviderId(server) == server

Filed(id, server, direct) ==
  [id |-> id, provider |-> ProviderId(server), server |-> server, direct |-> direct]

\* The rows of a list that are not passed over.  Those of channels and films
\* may have an empty number.
Usable(row) == row.number /= None /\ row.name /= None
Groups(rows) == {r \in rows : Usable(r) /\ r.number /= Empty}
Channels(rows) == {r \in rows : Usable(r) /\ r.type \in {None, "live"}}
Films(rows) == {r \in rows : Usable(r)}
Shows(rows) == {r \in rows : r.number /= None /\ (r.name /= None \/ r.title /= None)}

\* prefixed_id refuses an empty number, and with it the whole list.
Prefixable(rows) == \A r \in rows : r.number /= Empty

ParseCategories(rows, server) ==
  {Filed(<<"category", r.number>>, server, None) : r \in Groups(rows)}

\* A channel's identifier is the bare number, even an empty one.  (One that begins
\* with the prefix of films or series is not considered.)
ParseStreams(rows, server) ==
  {Filed(<<"bare", r.number>>, server, r.direct) : r \in Channels(rows)}

ParseVod(rows, server) ==
  {Filed(<<"vod:", r.number>>, server, r.direct) : r \in Films(rows)}

ParseSeries(rows, server) ==
  {Filed(<<"series:", r.number>>, server, None) : r \in Shows(rows)}

\* remap_catalog_provider_id.
Remap(items, provider) == {[i EXCEPT !.provider = provider] : i \in items}

----
(* The resolver names candidates in several places of its answer, each     *)
(* perhaps more than once.                                                 *)

\* base_list_add: not twice, and not more than MaxBases.
AddBase(bases, base) ==
  IF Len(bases) >= MaxBases \/ Contains(bases, base) THEN bases ELSE Append(bases, base)

CollectBases(named) == FoldLeft(AddBase, <<>>, named)

\* The first candidate that accepts the account, and the first other one.
Resolution(bases, accepting) ==
  LET good == {i \in 1 .. Len(bases) : bases[i] \in accepting}
      others == {i \in good : bases[i] /= bases[Min(good)]}
  IN [primary |-> IF good = {} THEN None ELSE bases[Min(good)],
      alternate |-> IF others = {} THEN None ELSE bases[Min(others)]]
====
