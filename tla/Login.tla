---- MODULE Login ----
(***************************************************************************)
(* A login, from the form to the stored and published catalogs: the worker *)
(* loads a playlist, or asks the configured servers one after the other    *)
(* and, where the user has consented, the server resolver.  Models the     *)
(* login worker of src/ui_x11/x11_workers.c and composes it with           *)
(* src/provider/xtream.c and server_resolver.c (module Xtream),            *)
(* src/provider/m3u.c and m3u_catalog.c (module M3UCatalog) and            *)
(* src/database/database.c (module CatalogStore), whose other writers go   *)
(* on meanwhile.  The process may end at any moment.                       *)
(***************************************************************************)
EXTENDS CatalogStore, Xtream, M3UCatalog, FiniteSets

CONSTANTS
  Form,      \* logins a user may ask for: [mode, server, alt]
  Answer,    \* what each server answers: [categories, streams, vod, series], sets of rows
  Named,     \* the sequences of servers the resolver may name
  Playlist   \* the playlists a source may hold: sequences of lines

ASSUME LoginAssumption ==
  /\ Form \subseteq [mode : {"xtream", "m3u"}, server : Provider, alt : Provider \cup {None}]
  /\ Named \subseteq Seq(Provider)
  /\ \A lines \in Playlist :
       lines \in Seq(ToSet(lines)) /\ \A l \in ToSet(lines) : l.line \in LineKind

VARIABLES
  form,      \* what the login form holds
  \* the worker
  at,        \* where it stands
  job,       \* what it was asked for
  consent,   \* VIPTV_ALLOW_EXTERNAL_RESOLVER, which it reads
  stage,     \* the server it tries: which one, and its address
  notFound,  \* servers that answered 404 (saw_http_404)
  resolution,
  parsed,    \* a playlist and its catalogs
  fetched,   \* the catalogs it holds
  \* what it publishes
  catalogs,
  session,   \* active_profile_id, the servers to use and which of them
  \* bounds and history
  logins,    \* logins started
  asked      \* who was given the user's name and password in this login

request == <<job, consent, stage, notFound, resolution, parsed, fetched, asked>>
published == <<catalogs, session>>
vars == <<form, at, request, published, logins, store>>

NoForm == [mode |-> None, server |-> None, alt |-> None]
NoStage == [which |-> None, server |-> None]
NoResolution == [primary |-> None, alternate |-> None]
NoCatalog == [categories |-> {}, channels |-> {}, loaded |-> FALSE]
NoCatalogs == [k \in ContentKind |-> NoCatalog]
NoSession == [profile |-> None, server |-> None, alt |-> None, usesAlt |-> FALSE,
              resolved |-> FALSE]

Required == {"authenticate", "live_categories", "live_streams"}
Optional == {"vod_categories", "vod_streams", "series_categories", "series"}
Which == {"primary", "alternate", "resolved", "resolved_alternate"}

ASSUME StageAssumption == None \notin Which

TypeOK ==
  /\ StoreTypeOK
  /\ at \in Required \cup Optional \cup
       {"none", "answered", "failed", "load", "split", "store", "publish",
        "succeeded", "gave_up"}
  /\ {form, job} \subseteq [mode : {"xtream", "m3u", None},
                            server : Provider \cup {None}, alt : Provider \cup {None}]
  /\ stage = NoStage \/ stage \in [which : Which, server : Provider]
  /\ notFound \subseteq Provider
  /\ resolution \in [primary : Provider \cup {None}, alternate : Provider \cup {None}]
  /\ \A held \in {fetched, catalogs}, k \in ContentKind :
       held[k].channels /= {} => held[k].loaded
  /\ session.profile \in Provider \cup {None}
  /\ asked \subseteq Provider \cup {"resolver"}

Init ==
  /\ StoreInit
  /\ form = NoForm /\ at = "none" /\ job = NoForm /\ consent = FALSE
  /\ stage = NoStage /\ notFound = {} /\ resolution = NoResolution
  /\ parsed = None /\ fetched = NoCatalogs
  /\ catalogs = NoCatalogs /\ session = NoSession
  /\ logins = 0 /\ asked = {}

\* The worker's own, before it runs and after it cleaned up.
NoRequest ==
  /\ job' = NoForm /\ consent' = FALSE /\ stage' = NoStage /\ notFound' = {}
  /\ resolution' = NoResolution /\ parsed' = None /\ fetched' = NoCatalogs /\ asked' = {}

----
(* The interface thread.                                                   *)

StartLogin(f) ==
  /\ at = "none" /\ logins < MaxVersion
  /\ logins' = logins + 1
  /\ form' = f /\ job' = f /\ consent' \in BOOLEAN
  /\ IF f.mode = "m3u"
     THEN at' = "load" /\ stage' = NoStage
     ELSE at' = "authenticate" /\ stage' = [which |-> "primary", server |-> f.server]
  /\ notFound' = {} /\ resolution' = NoResolution /\ parsed' = None /\ fetched' = NoCatalogs
  /\ asked' = {}
  /\ UNCHANGED <<published, store>>

\* handle_login_async joins the worker and saves the profile, if it can.
HandleLogin ==
  /\ at \in {"succeeded", "gave_up"}
  /\ at' = "none"
  /\ (at = "succeeded" /\ SaveProfile) \/ UNCHANGED store
  /\ UNCHANGED <<form, request, published, logins>>

----
(* login_one_server.                                                       *)

Answered(what) == Answer[stage.server][what]

\* A required request succeeds.
Succeeds(from, to, got) ==
  /\ at = from /\ at' = to
  /\ fetched' = got
  /\ asked' = asked \cup {stage.server}
  /\ UNCHANGED <<consent, form, job, stage, notFound, resolution, parsed, published, logins,
                 store>>

Authenticate == Succeeds("authenticate", "live_categories", fetched)

LiveCategories ==
  Succeeds("live_categories", "live_streams",
    [fetched EXCEPT !["live"].categories = ParseCategories(Answered("categories"), stage.server)])

\* The list of a catalog whose categories c holds.
Loaded(c, channels) == [categories |-> c.categories, channels |-> channels, loaded |-> TRUE]

LiveStreams ==
  Succeeds("live_streams", "vod_categories",
    [fetched EXCEPT !["live"] = Loaded(@, ParseStreams(Answered("streams"), stage.server))])

\* One of them fails, with a 404 or otherwise.
RequestFails ==
  /\ at \in Required /\ at' = "failed"
  /\ asked' = asked \cup {stage.server}
  /\ notFound' = notFound \/ notFound' = notFound \cup {stage.server}
  /\ UNCHANGED <<consent, form, job, stage, resolution, parsed, fetched, published, logins,
                 store>>

\* load_optional_vod_catalog and load_optional_series_catalog: a catalog whose
\* categories or items cannot be had, or not be parsed, is left out.
VodCategories ==
  \/ Succeeds("vod_categories", "vod_streams",
       [fetched EXCEPT !["vod"].categories = ParseCategories(Answered("categories"), stage.server)])
  \/ Succeeds("vod_categories", "series_categories", [fetched EXCEPT !["vod"] = NoCatalog])

\* Plausible slip: a list that was not loaded stays.
VodStreamsKept ==
  Succeeds("vod_streams", "series_categories",
    [fetched EXCEPT !["vod"].channels = ParseVod(Answered("vod"), stage.server)])

VodStreams ==
  \/ /\ Succeeds("vod_streams", "series_categories",
          [fetched EXCEPT !["vod"] = Loaded(@, ParseVod(Answered("vod"), stage.server))])
     /\ Prefixable(Films(Answered("vod")))
  \/ Succeeds("vod_streams", "series_categories", [fetched EXCEPT !["vod"] = NoCatalog])

SeriesCategories ==
  \/ Succeeds("series_categories", "series",
       [fetched EXCEPT !["series"].categories =
          ParseCategories(Answered("categories"), stage.server)])
  \/ Succeeds("series_categories", "answered", [fetched EXCEPT !["series"] = NoCatalog])

SeriesList ==
  \/ /\ Succeeds("series", "answered",
          [fetched EXCEPT !["series"] = Loaded(@, ParseSeries(Answered("series"), stage.server))])
     /\ Prefixable(Shows(Answered("series")))
  \/ Succeeds("series", "answered", [fetched EXCEPT !["series"] = NoCatalog])

LoginOneServer ==
  \/ Authenticate \/ LiveCategories \/ LiveStreams \/ RequestFails
  \/ VodCategories \/ VodStreams \/ SeriesCategories \/ SeriesList

----
(* login_worker.                                                           *)

RemapCatalog(c, provider) ==
  [categories |-> Remap(c.categories, provider), channels |-> Remap(c.channels, provider),
   loaded |-> c.loaded]

\* Plausible slip: what the alternate server answered is taken as it is.
AcceptedAsIs == fetched

\* Of the account whose catalogs it holds: what the alternate server answered is
\* filed under the primary one's.
Accepted ==
  IF stage.which = "alternate"
  THEN [k \in ContentKind |-> RemapCatalog(fetched[k], ProviderId(job.server))]
  ELSE fetched

\* Nobody else is asked any more.
Accept ==
  /\ at = "answered" /\ at' = "store"
  /\ fetched' = Accepted
  /\ consent' = FALSE /\ notFound' = {} /\ asked' = {}
  /\ UNCHANGED <<form, job, stage, resolution, parsed, published, logins, store>>

\* The next server, with nothing of the last one left.
Try(which, server) ==
  /\ server /= None
  /\ at' = "authenticate"
  /\ stage' = [which |-> which, server |-> server]
  /\ fetched' = NoCatalogs

TryAlternate ==
  /\ at = "failed" /\ stage.which = "primary"
  /\ Try("alternate", job.alt)
  /\ UNCHANGED <<consent, form, job, notFound, resolution, parsed, asked, published, logins,
                 store>>

ConfiguredFailed ==
  /\ at = "failed"
  /\ stage.which = "alternate" \/ (stage.which = "primary" /\ job.alt = None)

\* Plausible slip: consent is not asked for.
MayResolveAnyway == notFound /= {}

MayResolve == notFound /= {} /\ consent

Resolve ==
  /\ ConfiguredFailed /\ MayResolve
  /\ asked' = asked \cup {"resolver"}
  /\ \E named \in Named : \E accepting \in SUBSET ToSet(named) :
       LET found == Resolution(CollectBases(named), accepting) IN
       /\ resolution' = found
       /\ Try("resolved", found.primary)
  /\ UNCHANGED <<consent, form, job, notFound, parsed, published, logins, store>>

TryResolvedAlternate ==
  /\ at = "failed" /\ stage.which = "resolved"
  /\ Try("resolved_alternate", resolution.alternate)
  /\ UNCHANGED <<consent, form, job, notFound, resolution, parsed, asked, published, logins,
                 store>>

\* The resolver, too, may have nothing to offer.
GiveUp ==
  /\ \/ ConfiguredFailed
     \/ at = "failed" /\ stage.which = "resolved" /\ resolution.alternate = None
     \/ at = "failed" /\ stage.which = "resolved_alternate"
     \/ at = "load"
  /\ at' = "gave_up"
  /\ NoRequest
  /\ UNCHANGED <<form, published, logins, store>>

Load(lines) ==
  /\ at = "load"
  /\ LET read == LoadPlaylist(job.server, lines) IN
     /\ read.channels /= <<>>
     /\ parsed' = [lines |-> lines, lists |-> SplitCatalog(read.categories, read.channels)]
  /\ at' = "split"
  /\ UNCHANGED <<consent, form, job, stage, notFound, resolution, fetched, asked, published,
                 logins, store>>

\* Of each list only whether it is empty is kept.
Split ==
  /\ at = "split" /\ at' = "store"
  /\ fetched' = [k \in ContentKind |->
       LET some == parsed.lists[k].channels /= <<>> IN
       [categories |-> {}, loaded |-> some \/ k = "live",
        channels |-> IF some THEN {Filed(<<k>>, job.server, None)} ELSE {}]]
  /\ parsed' = None
  /\ UNCHANGED <<consent, form, job, stage, notFound, resolution, asked, published, logins,
                 store>>

ProviderOfLogin ==
  IF job.mode = "m3u" \/ stage.which = "alternate" THEN ProviderId(job.server)
  ELSE ProviderId(stage.server)

Store ==
  /\ at = "store" /\ at' = "publish"
  /\ BeginReplace(ProviderOfLogin, logins)
  /\ UNCHANGED <<form, request, published, logins>>

\* Whatever came of storing, under data_mutex.
Publish ==
  /\ at = "publish" /\ replace.at = "done"
  /\ at' = "succeeded"
  /\ replace' = Free
  /\ catalogs' = fetched
  /\ form' = IF resolution.primary = None THEN form
             ELSE [form EXCEPT !.server = resolution.primary, !.alt = resolution.alternate]
  /\ session' = [profile |-> ProviderOfLogin, server |-> form'.server, alt |-> form'.alt,
                 usesAlt |-> stage.which \in {"alternate", "resolved_alternate"},
                 resolved |-> resolution.primary /= None]
  /\ NoRequest
  /\ UNCHANGED <<logins, disk, open, told, writes>>

LoginWorker ==
  \/ LoginOneServer
  \/ Accept \/ TryAlternate \/ Resolve \/ TryResolvedAlternate \/ GiveUp
  \/ \E lines \in Playlist : Load(lines)
  \/ Split \/ Store \/ Publish

----
\* The process ends, killed or by the user, and is started again.
Restart ==
  /\ Reopen
  /\ form' = NoForm /\ at' = "none"
  /\ NoRequest
  /\ catalogs' = NoCatalogs /\ session' = NoSession
  /\ UNCHANGED logins

StoreStep ==
  /\ ReplaceCatalog \/ WriteRow
  /\ UNCHANGED <<form, at, request, published, logins>>

Next ==
  \/ \E f \in Form : StartLogin(f)
  \/ HandleLogin
  \/ LoginWorker
  \/ StoreStep
  \/ Restart

Spec == Init /\ [][Next]_vars

----
(* Properties.                                                             *)

Items == UNION {catalogs[k].categories \cup catalogs[k].channels : k \in ContentKind}

ActiveServer == IF session.usesAlt THEN session.alt ELSE session.server

\* What is shown is one server's, the one that the series and details workers
\* will ask, is filed under the active profile's account, and that account is
\* the same whichever of its configured servers answered; no channel, film and
\* series of a server share an identifier (for playlists, see PlaylistExact).
CatalogsAgree ==
  /\ \A i \in Items : i.server = ActiveServer /\ i.provider = session.profile
  /\ ~session.resolved /\ session /= NoSession => session.profile = ProviderId(session.server)
  /\ \A j, k \in ContentKind :
       j /= k => {i.id : i \in catalogs[j].channels} \cap {i.id : i \in catalogs[k].channels} = {}

\* The user's name and password go to nobody but the configured servers, unless
\* the user consented, all of these failed and one of them with a 404.
ConsentFirst ==
  LET configured == {job.server, job.alt} \ {None} IN
  asked \subseteq configured \/
    (consent /\ configured \subseteq asked /\ notFound \cap configured /= {})

\* The stored catalog of an account is that of one login, and a row that its
\* writer was told is there is there, whatever statement fails and whenever the
\* process ends.
StoreIsAtomic == Promise!Spec

----
(* The catalogs of a playlist, said of its lines.                          *)

Streams(lines) == {i \in DOMAIN lines : lines[i].line = "stream"}

\* The last line of a kind before i, within the same entry or anywhere.
Before(lines, i, kind) == {j \in 1 .. i - 1 : lines[j].line = kind}
Latest(set) == CHOOSE i \in set : \A j \in set : j <= i
OwnTag(lines, i) ==
  LET tags == {j \in Before(lines, i, "extinf") : Before(lines, i, "stream") \cap (j .. i) = {}}
  IN IF tags = {} THEN NoTag ELSE lines[Latest(tags)]

IsEntry(channel, lines, i) ==
  LET tag == OwnTag(lines, i)
      indices == Before(lines, i, "index")
  IN /\ Last(channel.url) = lines[i].url
     /\ channel.group = (IF tag.group = None THEN NoGroup ELSE tag.group)
     /\ channel.label = (IF tag.label = None THEN <<"canal">> ELSE tag.label)
     /\ channel.fallback =
          (IF tag.fallback = None THEN None
           ELSE <<IF indices = {} THEN None ELSE lines[Latest(indices)].base, tag.fallback>>)

\* Every stream is in exactly one of the lists, with the attributes of its own
\* entry and an identifier of its own, unless that is of a text that was cut,
\* and a list has exactly the categories of its channels.
CatalogsExact(lines, lists) ==
  LET places == {q \in ContentKind \X (1 .. Len(lines)) : q[2] \in DOMAIN lists[q[1]].channels}
      At(p) == lists[p[1]].channels[p[2]]
  IN /\ Cardinality(places) = Cardinality(Streams(lines))
     /\ \A i \in Streams(lines) : \E p \in places : IsEntry(At(p), lines, i)
     /\ \A p \in places : \E i \in Streams(lines) : IsEntry(At(p), lines, i)
     /\ \A p, q \in places : At(p).id = At(q).id /\ At(p).id \notin Cuts => p = q
     /\ \A k \in ContentKind :
          ToSet(lists[k].categories) = {At(p).group : p \in {p \in places : p[1] = k}}

\* The catalogs that vip_m3u_load and vip_m3u_split_catalog make of a playlist
\* are exactly those of its lines.
PlaylistExact == parsed /= None => CatalogsExact(parsed.lines, parsed.lists)
====
