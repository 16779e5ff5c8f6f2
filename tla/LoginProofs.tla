---- MODULE LoginProofs ----
(***************************************************************************)
(* Machine-checked proofs about Login and the store it writes, for any     *)
(* providers, forms, answers, resolver lists and playlists.                *)
(***************************************************************************)
EXTENDS Login, FiniteSetTheorems, WellFoundedInduction, TLAPS

----
(* What the server resolver offers.                                        *)

\* A set of naturals has a smallest element, and Min is it.
LEMMA MinOfNats ==
  ASSUME NEW T \in SUBSET Nat, T /= {}
  PROVE  Min(T) \in T
<1>1. IsWellFoundedOn(OpToRel(<, Nat), Nat)
  BY NatLessThanWellFounded
<1>2. PICK n \in T : \A m \in T : <<m, n>> \notin OpToRel(<, Nat)
  BY <1>1, WFMin
<1>3. \A m \in T : ~ (m < n)
  BY <1>2 DEF OpToRel
<1>4. \A m \in T : n <= m
  BY <1>3
<1> QED
  BY <1>4 DEF Min

\* Whatever list was collected, both servers offered accepted the account.
LEMMA ResolutionAccepts ==
  ASSUME NEW bases, NEW accepting
  PROVE  Resolution(bases, accepting) \in
           [primary : accepting \cup {None}, alternate : accepting \cup {None}]
<1> DEFINE good == {i \in 1 .. Len(bases) : bases[i] \in accepting}
           others == {i \in good : bases[i] /= bases[Min(good)]}
<1>1. good \subseteq Nat /\ others \subseteq Nat
  OBVIOUS
<1>2. good /= {} => bases[Min(good)] \in accepting
  BY <1>1, MinOfNats
<1>3. others /= {} => bases[Min(others)] \in accepting
  BY <1>1, MinOfNats
<1> HIDE DEF good, others
<1> QED
  BY <1>2, <1>3 DEF Resolution, good, others

----
(* Who works on what: the job, the server tried and the resolution.        *)

Asking == Required \cup Optional \cup {"answered", "failed"}
Storing == {"store", "publish"}
Working == Asking \cup Storing \cup {"load", "split"}

StageOf(which, server) == stage = [which |-> which, server |-> server]

\* The server tried is the one of that name: the form's, or the resolver's.
ServerTried ==
  \/ /\ StageOf("primary", job.server) /\ resolution = NoResolution
  \/ /\ StageOf("alternate", job.alt) /\ job.alt /= None /\ resolution = NoResolution
  \/ /\ StageOf("resolved", resolution.primary) /\ resolution.primary /= None
  \/ /\ StageOf("resolved_alternate", resolution.alternate)
     /\ resolution.primary /= None /\ resolution.alternate /= None

JobInv ==
  /\ at \in Working \cup {"none", "succeeded", "gave_up"}
  /\ logins \in 0 .. MaxVersion
  /\ consent \in BOOLEAN
  /\ form \in [mode : {"xtream", "m3u", None}, server : Provider \cup {None},
               alt : Provider \cup {None}]
  /\ resolution \in [primary : Provider \cup {None}, alternate : Provider \cup {None}]
  /\ at \in Working => (job \in Form /\ form = job /\ logins /= 0)
  /\ at \notin Working => (job = NoForm /\ stage = NoStage)
  /\ at \in Asking => (job.mode = "xtream" /\ ServerTried)
  /\ at \in {"load", "split"} =>
       (job.mode = "m3u" /\ stage = NoStage /\ resolution = NoResolution)
  /\ at \in Storing =>
       \/ job.mode = "xtream" /\ ServerTried
       \/ job.mode = "m3u" /\ stage = NoStage /\ resolution = NoResolution

\* A stage has one name.
LEMMA StageName ==
  \A which, server : StageOf(which, server) => (stage.which = which /\ stage.server = server)
BY DEF StageOf

\* The worker asks and stores for a provider.
LEMMA JobProvider ==
  ASSUME JobInv
  PROVE  /\ at \in Asking => stage \in [which : Which, server : Provider]
         /\ at \in Storing => ProviderOfLogin \in Provider
         /\ stage = NoStage \/ stage \in [which : Which, server : Provider]
         /\ job \in [mode : {"xtream", "m3u", None}, server : Provider \cup {None},
                     alt : Provider \cup {None}]
<1> USE LoginAssumption, CatalogStoreAssumption
<1>1. at \in Working => job \in [mode : {"xtream", "m3u"}, server : Provider,
                                 alt : Provider \cup {None}]
  BY DEF JobInv
<1>2. ASSUME ServerTried, at \in Working PROVE stage \in [which : Which, server : Provider]
  <2>1. /\ job.server \in Provider /\ job.alt \in Provider \cup {None}
        /\ resolution.primary \in Provider \cup {None}
        /\ resolution.alternate \in Provider \cup {None}
    BY <1>1, <1>2 DEF JobInv
  <2>2. \E which \in Which, server \in Provider : StageOf(which, server)
    BY <1>2, <2>1 DEF ServerTried, Which
  <2> QED
    BY <2>2 DEF StageOf
<1>3. job \in [mode : {"xtream", "m3u", None}, server : Provider \cup {None},
               alt : Provider \cup {None}]
  <2>1. CASE at \in Working
    BY <1>1, <2>1
  <2>2. CASE at \notin Working
    <3>1. job = NoForm
      BY <2>2 DEF JobInv
    <3> QED
      BY <3>1 DEF NoForm
  <2> QED
    BY <2>1, <2>2
<1>4. stage = NoStage \/ stage \in [which : Which, server : Provider]
  BY <1>2 DEF JobInv, Working
<1>5. at \in Asking => stage \in [which : Which, server : Provider]
  BY <1>2 DEF JobInv, Working
<1>6. at \in Storing => ProviderOfLogin \in Provider
  BY <1>1, <1>2 DEF JobInv, Working, ProviderOfLogin, ProviderId
<1> QED
  BY <1>3, <1>4, <1>5, <1>6

\* A step of one server's requests: only the place and what was fetched change.
Asks ==
  /\ at \in Asking /\ at' \in Asking
  /\ UNCHANGED <<form, job, consent, stage, resolution, parsed, logins, catalogs, session, store>>

\* One server's turn sets what the worker asks from now on.
LEMMA LoginOneServerAsks == LoginOneServer => Asks
<1> USE DEF Asks, Succeeds, Asking, Required, Optional, published
<1>1. Authenticate \/ LiveCategories \/ LiveStreams => Asks
  BY DEF Authenticate, LiveCategories, LiveStreams
<1>2. RequestFails => Asks
  BY DEF RequestFails
<1>3. VodCategories \/ VodStreams => Asks
  BY DEF VodCategories, VodStreams
<1>4. SeriesCategories \/ SeriesList => Asks
  BY DEF SeriesCategories, SeriesList
<1> QED
  BY <1>1, <1>2, <1>3, <1>4 DEF LoginOneServer

\* The server tried stays the same while its name, address and job do.
LEMMA ServerTriedFrame ==
  ASSUME ServerTried, UNCHANGED <<job, stage, resolution>>
  PROVE  ServerTried'
BY DEF ServerTried, StageOf

\* Every step keeps the worker on its job.
LEMMA JobStep == JobInv /\ [Next]_vars => JobInv'
<1> SUFFICES ASSUME JobInv, [Next]_vars PROVE JobInv'
  OBVIOUS
<1> USE DEF Working, Storing, request, published
<1>a. /\ "authenticate" \in Asking /\ "failed" \in Asking /\ "answered" \in Asking
      /\ Asking \cap {"none", "succeeded", "gave_up", "load", "split", "store", "publish"} = {}
  BY DEF Asking, Required, Optional
<1>1. ASSUME NEW f \in Form, StartLogin(f) PROVE JobInv'
  <2>1. f \in [mode : {"xtream", "m3u"}, server : Provider, alt : Provider \cup {None}]
    BY LoginAssumption
  <2>2. /\ logins < MaxVersion /\ logins' = logins + 1 /\ form' = f /\ job' = f
        /\ consent' \in BOOLEAN /\ resolution' = NoResolution
        /\ \/ f.mode = "m3u" /\ at' = "load" /\ stage' = NoStage
           \/ f.mode = "xtream" /\ at' = "authenticate"
              /\ stage' = [which |-> "primary", server |-> f.server]
    BY <1>1, <2>1 DEF StartLogin
  <2>3. logins' \in 0 .. MaxVersion /\ logins' /= 0
    <3>1. logins \in 0 .. MaxVersion /\ MaxVersion \in Nat
      BY CatalogStoreAssumption DEF JobInv
    <3> QED
      BY <2>2, <3>1
  <2>4. NoResolution \in [primary : Provider \cup {None}, alternate : Provider \cup {None}]
    BY DEF NoResolution
  <2>5. f.mode = "xtream" => ServerTried'
    BY <2>2 DEF ServerTried, StageOf
  <2> QED
    BY <1>a, <2>1, <2>2, <2>3, <2>4, <2>5 DEF JobInv
<1>2. CASE HandleLogin
  BY <1>2, <1>a DEF HandleLogin, JobInv
<1>3. CASE LoginOneServer
  <2>1. Asks
    BY <1>3, LoginOneServerAsks
  <2> QED
    BY <1>a, <2>1, ServerTriedFrame DEF Asks, JobInv
<1>4. CASE Accept
  BY <1>4, <1>a, ServerTriedFrame DEF Accept, JobInv
<1>5. CASE TryAlternate
  <2>1. /\ at = "failed" /\ at' = "authenticate" /\ stage.which = "primary" /\ job.alt /= None
        /\ stage' = [which |-> "alternate", server |-> job.alt]
        /\ UNCHANGED <<form, job, consent, resolution, logins>>
    BY <1>5 DEF TryAlternate, Try
  <2>2. resolution = NoResolution
    <3>1. ServerTried
      BY <1>a, <2>1 DEF JobInv
    <3> QED
      BY <2>1, <3>1, StageName DEF ServerTried
  <2>3. ServerTried'
    BY <2>1, <2>2 DEF ServerTried, StageOf
  <2> QED
    BY <1>a, <2>1, <2>3 DEF JobInv
<1>6. CASE Resolve
  <2>1. PICK named \in Named : \E accepting \in SUBSET ToSet(named) :
          LET found == Resolution(CollectBases(named), accepting) IN
            resolution' = found /\ Try("resolved", found.primary)
    BY <1>6 DEF Resolve
  <2>2. PICK accepting \in SUBSET ToSet(named) :
          /\ resolution' = Resolution(CollectBases(named), accepting)
          /\ Try("resolved", resolution'.primary)
    BY <2>1
  <2>3. accepting \subseteq Provider
    BY LoginAssumption DEF ToSet
  <2>4. resolution' \in [primary : Provider \cup {None}, alternate : Provider \cup {None}]
    BY <2>2, <2>3, ResolutionAccepts
  <2>5. ServerTried'
    BY <2>2 DEF Try, ServerTried, StageOf
  <2>6. /\ at = "failed" /\ at' = "authenticate" /\ UNCHANGED <<form, job, consent, logins>>
    BY <1>6, <2>2 DEF Resolve, ConfiguredFailed, Try
  <2> QED
    BY <1>a, <2>4, <2>5, <2>6 DEF JobInv
<1>7. CASE TryResolvedAlternate
  <2>1. /\ at = "failed" /\ at' = "authenticate" /\ stage.which = "resolved"
        /\ resolution.alternate /= None
        /\ stage' = [which |-> "resolved_alternate", server |-> resolution.alternate]
        /\ UNCHANGED <<form, job, consent, resolution, logins>>
    BY <1>7 DEF TryResolvedAlternate, Try
  <2>2. resolution.primary /= None
    <3>1. ServerTried
      BY <1>a, <2>1 DEF JobInv
    <3> QED
      BY <2>1, <3>1, StageName DEF ServerTried
  <2>3. ServerTried'
    BY <2>1, <2>2 DEF ServerTried, StageOf
  <2> QED
    BY <1>a, <2>1, <2>3 DEF JobInv
<1>8. CASE GiveUp
  <2>1. at' = "gave_up" /\ NoRequest /\ UNCHANGED <<form, logins>>
    BY <1>8 DEF GiveUp
  <2> QED
    BY <1>a, <2>1 DEF NoRequest, NoResolution, JobInv
<1>9. ASSUME NEW lines \in Playlist, Load(lines) PROVE JobInv'
  BY <1>9, <1>a DEF Load, JobInv
<1>10. CASE Split
  BY <1>10, <1>a DEF Split, JobInv
<1>11. CASE Store
  BY <1>11, <1>a, ServerTriedFrame DEF Store, JobInv
<1>12. CASE Publish
  <2>1. /\ at' = "succeeded" /\ NoRequest /\ UNCHANGED logins
        /\ form' = IF resolution.primary = None THEN form
                   ELSE [form EXCEPT !.server = resolution.primary, !.alt = resolution.alternate]
    BY <1>12 DEF Publish
  <2>2. form' \in [mode : {"xtream", "m3u", None}, server : Provider \cup {None},
                   alt : Provider \cup {None}]
    BY <2>1 DEF JobInv
  <2> QED
    BY <1>a, <2>1, <2>2 DEF NoRequest, NoResolution, JobInv
<1>13. CASE StoreStep
  BY <1>13, <1>a, ServerTriedFrame DEF StoreStep, JobInv
<1>14. CASE Restart
  <2>1. at' = "none" /\ NoRequest /\ form' = NoForm /\ UNCHANGED logins
    BY <1>14 DEF Restart
  <2>2. NoForm \in [mode : {"xtream", "m3u", None}, server : Provider \cup {None},
                    alt : Provider \cup {None}]
    BY DEF NoForm
  <2> QED
    BY <1>a, <2>1, <2>2 DEF NoRequest, NoResolution, JobInv
<1>15. CASE UNCHANGED vars
  BY <1>15, <1>a, ServerTriedFrame DEF vars, JobInv
<1> QED
  BY <1>1, <1>2, <1>3, <1>4, <1>5, <1>6, <1>7, <1>8, <1>9, <1>10, <1>11, <1>12, <1>13, <1>14,
     <1>15 DEF Next, LoginWorker

\* Initially there is no job.
LEMMA JobInit == Init => JobInv
<1> SUFFICES ASSUME Init PROVE JobInv
  OBVIOUS
<1>1. NoForm \in [mode : {"xtream", "m3u", None}, server : Provider \cup {None},
                  alt : Provider \cup {None}]
  BY DEF NoForm
<1>2. NoResolution \in [primary : Provider \cup {None}, alternate : Provider \cup {None}]
  BY DEF NoResolution
<1>3. at = "none" /\ at \notin Working
  BY DEF Init, Working, Asking, Storing, Required, Optional
<1>4. logins \in 0 .. MaxVersion /\ consent \in BOOLEAN
  <2>1. logins = 0 /\ consent = FALSE
    BY DEF Init
  <2>2. 0 \in 0 .. MaxVersion
    BY CatalogStoreAssumption
  <2> QED
    BY <2>1, <2>2
<1>5. form = NoForm /\ job = NoForm /\ stage = NoStage /\ resolution = NoResolution
  BY DEF Init
<1>6. at \notin Asking /\ at \notin Storing /\ at \notin {"load", "split"}
  BY <1>3 DEF Working
<1> QED
  BY <1>1, <1>2, <1>3, <1>4, <1>5, <1>6 DEF JobInv

----
(* The store: whoever runs, a transaction is open exactly while             *)
(* vip_database_replace_catalog holds the mutex, and its copy differs from  *)
(* the disk in the one catalog that is replaced.                            *)

\* What the open copy holds of the catalog being replaced, by the statement
\* that is next.
Written ==
  /\ replace.at \in {"insert_channels", "commit"} =>
       open.categories[replace.id] = replace.version
  /\ replace.at = "commit" => open.channels[replace.id] = replace.version

StoreInv ==
  /\ StoreTypeOK
  /\ MutexFree <=> open = None
  /\ open /= None =>
       /\ open.rows = disk.rows
       /\ \A p \in Provider \ {replace.id} : /\ open.categories[p] = disk.categories[p]
                                             /\ open.channels[p] = disk.channels[p]
       /\ Written

\* The places of replace, as a step sees them.
LEMMA GoToType ==
  ASSUME StoreInv, NEW from \in ReplaceStep, NEW to \in ReplaceStep \cup {"done"},
         GoTo(from, to)
  PROVE  /\ replace' \in [at : ReplaceStep \cup {"done"}, id : Provider, version : 1 .. MaxVersion]
         /\ replace.at = from /\ replace'.at = to
         /\ replace'.id = replace.id /\ replace'.version = replace.version
         /\ replace.id \in Provider /\ replace.version \in 1 .. MaxVersion
         /\ open \in Content /\ open /= None /\ Seen = open
<1>1. replace.at = from /\ from /= "free" /\ from /= "done"
  BY DEF GoTo, ReplaceStep
<1>2. replace \in [at : ReplaceStep \cup {"done"}, id : Provider, version : 1 .. MaxVersion]
  BY <1>1 DEF StoreInv, StoreTypeOK, Free
<1>3. open /= None /\ open \in Content
  BY <1>1 DEF StoreInv, StoreTypeOK, MutexFree
<1> QED
  BY <1>1, <1>2, <1>3 DEF GoTo, Seen

\* The statements of the transaction keep the store sound.
LEMMA ReplaceStepSound == StoreInv /\ ReplaceCatalog => StoreInv'
<1> SUFFICES ASSUME StoreInv, ReplaceCatalog PROVE StoreInv'
  OBVIOUS
<1>t. {0, Torn} \cup 1 .. MaxVersion \subseteq 0 .. Torn
  BY CatalogStoreAssumption DEF Torn
<1>n. None \notin Content
  BY NoTransactionAssumption
<1>d. disk \in Content
  BY DEF StoreInv, StoreTypeOK
\* a statement that leaves the transaction open
<1>e. ASSUME NEW from \in ReplaceStep, NEW to \in ReplaceStep, GoTo(from, to),
             NEW new \in Content, open' = new, UNCHANGED <<disk, told, writes>>,
             new.rows = open.rows,
             \A p \in Provider \ {replace.id} : /\ new.categories[p] = open.categories[p]
                                                /\ new.channels[p] = open.channels[p],
             to \in {"insert_channels", "commit"} =>
               new.categories[replace.id] = replace.version,
             to = "commit" => new.channels[replace.id] = replace.version
      PROVE  StoreInv'
  <2>1. /\ replace' \in [at : ReplaceStep \cup {"done"}, id : Provider, version : 1 .. MaxVersion]
        /\ replace'.at = to /\ replace'.id = replace.id /\ replace'.version = replace.version
        /\ open /= None
    BY <1>e, GoToType
  <2>2. to \notin {"free", "done"} /\ open' /= None
    BY <1>e, <1>n DEF ReplaceStep
  <2>3. StoreTypeOK'
    BY <1>e, <2>1 DEF StoreInv, StoreTypeOK
  <2> QED
    BY <1>e, <2>1, <2>2, <2>3 DEF StoreInv, MutexFree, Written
\* a statement that ends it
<1>f. ASSUME NEW from \in ReplaceStep, GoTo(from, "done"), open' = None,
             disk' \in Content, UNCHANGED <<told, writes>>
      PROVE  StoreInv'
  <2>1. /\ replace' \in [at : ReplaceStep \cup {"done"}, id : Provider, version : 1 .. MaxVersion]
        /\ replace'.at = "done"
    BY <1>f, GoToType
  <2>2. StoreTypeOK'
    BY <1>f, <2>1 DEF StoreInv, StoreTypeOK
  <2> QED
    BY <1>f, <2>1, <2>2 DEF StoreInv, MutexFree
<1> USE DEF ReplaceStep
<1>1. CASE DeleteCategories
  <2>1. GoTo("delete_categories", "delete_channels")
    BY <1>1 DEF DeleteCategories
  <2>2. replace.id \in Provider /\ open \in Content /\ Seen = open /\ open /= None
    BY <2>1, GoToType
  <2>3. open' = [open EXCEPT !.categories[replace.id] = 0] /\ UNCHANGED <<disk, told, writes>>
    BY <1>1, <2>2 DEF DeleteCategories, Execute
  <2> DEFINE new == [open EXCEPT !.categories[replace.id] = 0]
  <2>n. /\ new \in Content /\ new.categories = [open.categories EXCEPT ![replace.id] = 0]
       /\ new.channels = open.channels /\ new.rows = open.rows
       /\ open.categories \in [Provider -> 0 .. Torn]
    BY <1>t, <2>2 DEF Content
  <2>o. open' = new
    BY <2>3
  <2> HIDE DEF new
  <2> QED
    BY <1>e, <2>1, <2>2, <2>3, <2>n, <2>o
<1>2. CASE DeleteChannels
  <2>1. GoTo("delete_channels", "insert_categories")
    BY <1>2 DEF DeleteChannels
  <2>2. replace.id \in Provider /\ open \in Content /\ Seen = open /\ open /= None
    BY <2>1, GoToType
  <2>3. open' = [open EXCEPT !.channels[replace.id] = 0] /\ UNCHANGED <<disk, told, writes>>
    BY <1>2, <2>2 DEF DeleteChannels, Execute
  <2> DEFINE new == [open EXCEPT !.channels[replace.id] = 0]
  <2>n. /\ new \in Content /\ new.channels = [open.channels EXCEPT ![replace.id] = 0]
       /\ new.categories = open.categories /\ new.rows = open.rows
       /\ open.channels \in [Provider -> 0 .. Torn]
    BY <1>t, <2>2 DEF Content
  <2>o. open' = new
    BY <2>3
  <2> HIDE DEF new
  <2> QED
    BY <1>e, <2>1, <2>2, <2>3, <2>n, <2>o
<1>3. CASE InsertCategories
  <2>1. ASSUME NEW to \in {"insert_channels", "rollback"}, NEW v \in {replace.version, Torn},
               GoTo("insert_categories", to), to = "rollback" \/ v = replace.version,
               Execute([Seen EXCEPT !.categories[replace.id] = v]), UNCHANGED <<told, writes>>
        PROVE  StoreInv'
    <3>1. /\ replace.id \in Provider /\ open \in Content /\ Seen = open /\ open /= None
          /\ replace.version \in 1 .. MaxVersion
      BY <2>1, GoToType
    <3>2. /\ open' = [open EXCEPT !.categories[replace.id] = v] /\ UNCHANGED <<disk, told, writes>>
          /\ v \in 0 .. Torn
      BY <1>t, <2>1, <3>1 DEF Execute
    <3>3. to \in {"insert_channels", "commit"} => v = replace.version
      BY <2>1
    <3> DEFINE new == [open EXCEPT !.categories[replace.id] = v]
    <3>n. /\ new \in Content /\ new.categories = [open.categories EXCEPT ![replace.id] = v]
         /\ new.channels = open.channels /\ new.rows = open.rows
         /\ open.categories \in [Provider -> 0 .. Torn]
      BY <3>1, <3>2 DEF Content
    <3>o. open' = new
      BY <3>2
    <3> HIDE DEF new
    <3>4. \A p \in Provider \ {replace.id} : /\ new.categories[p] = open.categories[p]
                                             /\ new.channels[p] = open.channels[p]
      BY <3>n
    <3>5. /\ to \in {"insert_channels", "commit"} => new.categories[replace.id] = replace.version
          /\ to = "commit" => new.channels[replace.id] = replace.version
      BY <2>1, <3>1, <3>3, <3>n
    <3>6. to \in ReplaceStep /\ GoTo("insert_categories", to) /\ UNCHANGED <<disk, told, writes>>
      BY <2>1, <3>2
    <3>7. new \in Content /\ open' = new /\ new.rows = open.rows
      BY <3>n, <3>o
    <3> QED
      BY <1>e, <3>4, <3>5, <3>6, <3>7
  <2> QED
    BY <1>3, <2>1 DEF InsertCategories
<1>4. CASE InsertChannels
  <2>1. ASSUME NEW to \in {"commit", "rollback"}, NEW v \in {replace.version, Torn},
               GoTo("insert_channels", to), to = "rollback" \/ v = replace.version,
               Execute([Seen EXCEPT !.channels[replace.id] = v]), UNCHANGED <<told, writes>>
        PROVE  StoreInv'
    <3>1. /\ replace.id \in Provider /\ open \in Content /\ Seen = open /\ open /= None
          /\ replace.version \in 1 .. MaxVersion /\ replace.at = "insert_channels"
      BY <2>1, GoToType
    <3>2. /\ open' = [open EXCEPT !.channels[replace.id] = v] /\ UNCHANGED <<disk, told, writes>>
          /\ v \in 0 .. Torn
      BY <1>t, <2>1, <3>1 DEF Execute
    <3>3. open.categories[replace.id] = replace.version
      BY <3>1 DEF StoreInv, Written
    <3> DEFINE new == [open EXCEPT !.channels[replace.id] = v]
    <3>n. /\ new \in Content /\ new.channels = [open.channels EXCEPT ![replace.id] = v]
         /\ new.categories = open.categories /\ new.rows = open.rows
         /\ open.channels \in [Provider -> 0 .. Torn]
      BY <3>1, <3>2 DEF Content
    <3>o. open' = new
      BY <3>2
    <3> HIDE DEF new
    <3>4. \A p \in Provider \ {replace.id} : /\ new.categories[p] = open.categories[p]
                                             /\ new.channels[p] = open.channels[p]
      BY <3>n, <3>1
    <3>5. /\ to \in {"insert_channels", "commit"} => new.categories[replace.id] = replace.version
          /\ to = "commit" => new.channels[replace.id] = replace.version
      BY <2>1, <3>1, <3>3, <3>n
    <3>6. to \in ReplaceStep /\ GoTo("insert_channels", to) /\ UNCHANGED <<disk, told, writes>>
      BY <2>1, <3>2
    <3>7. new \in Content /\ open' = new /\ new.rows = open.rows
      BY <3>n, <3>o
    <3> QED
      BY <1>e, <3>4, <3>5, <3>6, <3>7
  <2> QED
    BY <1>4, <2>1 DEF InsertChannels
<1>5. CASE StatementFails
  <2>1. PICK from \in {"delete_categories", "delete_channels"} : GoTo(from, "rollback")
    BY <1>5 DEF StatementFails
  <2>2. open \in Content /\ UNCHANGED <<open, disk, told, writes>>
    BY <1>5, <2>1, GoToType DEF StatementFails
  <2> QED
    BY <1>e, <2>1, <2>2
<1>6. CASE Commit
  <2>1. GoTo("commit", "done") /\ open' = None /\ UNCHANGED <<told, writes>>
    BY <1>6 DEF Commit
  <2>2. disk' \in Content
    BY <1>6, <1>d, <2>1, GoToType DEF Commit
  <2> QED
    BY <1>f, <2>1, <2>2
<1>7. CASE Rollback
  BY <1>7, <1>d, <1>f DEF Rollback
<1> QED
  BY <1>1, <1>2, <1>3, <1>4, <1>5, <1>6, <1>7 DEF ReplaceCatalog

\* The start of a transaction, or its refusal.
LEMMA BeginSound ==
  ASSUME StoreInv, NEW id \in Provider, NEW version \in 1 .. MaxVersion,
         BeginReplace(id, version)
  PROVE  StoreInv'
<1>1. replace.at = "free" /\ open = None /\ disk \in Content /\ disk /= None
  BY NoTransactionAssumption DEF BeginReplace, Free, StoreInv, StoreTypeOK, MutexFree
<1>2. CASE /\ open' = disk /\ UNCHANGED <<disk, told, writes>>
           /\ \E place \in {"delete_categories", "rollback"} :
                replace' = [at |-> place, id |-> id, version |-> version]
  <2>1. PICK place \in {"delete_categories", "rollback"} :
          replace' = [at |-> place, id |-> id, version |-> version]
    BY <1>2
  <2>2. replace' \in [at : ReplaceStep \cup {"done"}, id : Provider, version : 1 .. MaxVersion]
    BY <2>1 DEF ReplaceStep
  <2>3. replace'.at \in {"delete_categories", "rollback"}
    BY <2>1
  <2>4. StoreTypeOK'
    BY <1>1, <1>2, <2>2 DEF StoreInv, StoreTypeOK
  <2> QED
    BY <1>1, <1>2, <2>3, <2>4 DEF StoreInv, MutexFree, Written
<1>3. CASE /\ UNCHANGED <<disk, open, told, writes>>
           /\ replace' = [at |-> "done", id |-> id, version |-> version]
  <2>1. replace' \in [at : ReplaceStep \cup {"done"}, id : Provider, version : 1 .. MaxVersion]
        /\ replace'.at = "done"
    BY <1>3
  <2>2. StoreTypeOK'
    BY <1>3, <2>1 DEF StoreInv, StoreTypeOK
  <2> QED
    BY <1>1, <1>3, <2>1, <2>2 DEF StoreInv, MutexFree
<1> QED
  BY <1>2, <1>3 DEF BeginReplace

\* A row is written outside any transaction: it is on the disk, and told.
LEMMA PutOnDisk ==
  ASSUME StoreInv, NEW t \in Table, NEW r \in 0 .. MaxWrites, Put(t, r)
  PROVE  /\ StoreInv'
         /\ UNCHANGED <<open, replace>>
         /\ disk' = [disk EXCEPT !.rows = [disk.rows EXCEPT ![t] = r]]
         /\ disk'.categories = disk.categories /\ disk'.channels = disk.channels
         /\ disk'.rows = [disk.rows EXCEPT ![t] = r]
         /\ told' = [told EXCEPT ![t] = r]
<1>1. /\ open = None /\ disk \in Content /\ UNCHANGED <<open, replace>>
      /\ writes' = writes + 1 /\ writes < MaxWrites /\ told' = [told EXCEPT ![t] = r]
      /\ disk' = [disk EXCEPT !.rows[t] = r]
  BY DEF Put, StoreInv, StoreTypeOK, Execute, Seen
<1>2. /\ disk' \in Content
      /\ disk'.categories = disk.categories /\ disk'.channels = disk.channels
      /\ disk'.rows = [disk.rows EXCEPT ![t] = r]
      /\ disk' = [disk EXCEPT !.rows = [disk.rows EXCEPT ![t] = r]]
  BY <1>1 DEF Content
<1>3. writes' \in 0 .. MaxWrites
  BY <1>1, CatalogStoreAssumption DEF StoreInv, StoreTypeOK
<1>4. told' \in [Table -> 0 .. MaxWrites]
  BY <1>1 DEF StoreInv, StoreTypeOK
<1>5. StoreTypeOK'
  BY <1>1, <1>2, <1>3, <1>4 DEF StoreInv, StoreTypeOK
<1> QED
  BY <1>1, <1>2, <1>5 DEF StoreInv, MutexFree

\* Each of the single-row operations is such a write.
LEMMA WritesAreRows ==
  ASSUME StoreInv, WriteRow \/ SaveProfile
  PROVE  \E t \in Table, r \in 0 .. MaxWrites : Put(t, r)
<1>1. ASSUME NEW t \in Table, Upsert(t) PROVE \E r \in 0 .. MaxWrites : Put(t, r)
  <2>1. writes + 1 \in 0 .. MaxWrites
    BY <1>1, CatalogStoreAssumption DEF Upsert, Put, StoreInv, StoreTypeOK
  <2> QED
    BY <1>1, <2>1 DEF Upsert
<1>2. ASSUME NEW on \in BOOLEAN, SetFavorite(on) PROVE \E r \in 0 .. MaxWrites : Put("favorites", r)
  <2>1. writes < MaxWrites /\ open = None /\ Seen = disk
    BY <1>2 DEF SetFavorite, Put, StoreInv, Seen
  <2>2. writes + 1 \in 0 .. MaxWrites /\ 0 \in 0 .. MaxWrites
    BY <2>1, CatalogStoreAssumption DEF StoreInv, StoreTypeOK
  <2>3. Seen.rows["favorites"] \in 0 .. MaxWrites
    BY <2>1 DEF StoreInv, StoreTypeOK, Content, Table
  <2> QED
    BY <1>2, <2>2, <2>3 DEF SetFavorite
<1> QED
  BY <1>1, <1>2
  DEF WriteRow, SetThumbnail, SaveProfile, SetProgress, SetSeriesProgress, SetMediaMetadata, Table

\* The mutex is released, or the process ends.
LEMMA FreedSound ==
  ASSUME StoreInv, replace' = Free, open' = None, UNCHANGED <<disk, told, writes>>
  PROVE  StoreInv'
BY DEF StoreInv, StoreTypeOK, Free, MutexFree

\* A step of the program does to the store one of its operations.
LEMMA StoreOperations ==
  ASSUME JobInv, StoreInv, Next
  PROVE  \/ UNCHANGED store
         \/ ReplaceCatalog
         \/ \E t \in Table, r \in 0 .. MaxWrites : Put(t, r)
         \/ \E id \in Provider, version \in 1 .. MaxVersion : BeginReplace(id, version)
         \/ replace' = Free /\ open' = None /\ UNCHANGED <<disk, told, writes>>
<1>1. ASSUME NEW f \in Form, StartLogin(f) PROVE UNCHANGED store
  BY <1>1 DEF StartLogin
<1>2. CASE HandleLogin
  BY <1>2, WritesAreRows DEF HandleLogin
<1>3. CASE LoginOneServer
  BY <1>3, LoginOneServerAsks DEF Asks
<1>4. CASE Accept \/ TryAlternate \/ Resolve \/ TryResolvedAlternate \/ GiveUp \/ Split
             \/ \E lines \in Playlist : Load(lines)
  BY <1>4 DEF Accept, TryAlternate, Resolve, TryResolvedAlternate, GiveUp, Split, Load
<1>5. CASE Store
  <2>1. ProviderOfLogin \in Provider
    BY <1>5, JobProvider DEF Store, Storing
  <2>2. logins \in 1 .. MaxVersion
    BY <1>5, CatalogStoreAssumption DEF Store, JobInv, Working, Storing
  <2> QED
    BY <1>5, <2>1, <2>2 DEF Store
<1>6. CASE Publish
  BY <1>6 DEF Publish, StoreInv, MutexFree
<1>7. CASE StoreStep
  BY <1>7, WritesAreRows DEF StoreStep
<1>8. CASE Restart
  BY <1>8 DEF Restart, Reopen
<1> QED
  BY <1>1, <1>2, <1>3, <1>4, <1>5, <1>6, <1>7, <1>8 DEF Next, LoginWorker

\* Every step keeps the store sound.
LEMMA StoreStepSound == JobInv /\ StoreInv /\ [Next]_vars => StoreInv'
<1> SUFFICES ASSUME JobInv, StoreInv, [Next]_vars PROVE StoreInv'
  OBVIOUS
<1>1. ASSUME UNCHANGED store PROVE StoreInv'
  BY <1>1 DEF store, StoreInv, StoreTypeOK, MutexFree, Written
<1>2. CASE UNCHANGED vars
  BY <1>1, <1>2 DEF vars
<1> QED
  BY <1>1, <1>2, StoreOperations, ReplaceStepSound, PutOnDisk, BeginSound, FreedSound

\* Initially it is empty.
LEMMA StoreInitSound == Init => StoreInv
<1> SUFFICES ASSUME Init PROVE StoreInv
  OBVIOUS
<1>1. StoreInit
  BY DEF Init
<1>2. 0 \in 0 .. Torn /\ 0 \in 0 .. MaxWrites
  BY CatalogStoreAssumption DEF Torn
<1>3. disk \in Content
  BY <1>1, <1>2 DEF StoreInit, Content
<1> QED
  BY <1>1, <1>2, <1>3 DEF StoreInit, StoreInv, StoreTypeOK, MutexFree, Free

----
(* The refinement: whatever statement fails and whenever the process ends,  *)
(* the disk goes from one whole catalog to another.                         *)

StoredCatalogs == [p \in Provider |-> StoredCatalog(p)]

\* The empty database.
LEMMA PromiseInit == Init => Promise!Init
<1> SUFFICES ASSUME Init PROVE Promise!Init
  OBVIOUS
<1>1. StoreInit
  BY DEF Init
<1> QED
  BY <1>1 DEF StoreInit, StoredCatalog, Promise!Init

\* A commit replaces one catalog by one version, or nothing happened.
LEMMA CommitReplaces ==
  ASSUME StoreInv, Commit
  PROVE  Promise!Next \/ UNCHANGED <<StoredCatalogs, disk.rows, told>>
<1>1. GoTo("commit", "done") /\ UNCHANGED told /\ (disk' = Seen \/ UNCHANGED disk)
  BY DEF Commit
<1>2. /\ replace.at = "commit" /\ replace.id \in Provider /\ replace.version \in 1 .. MaxVersion
      /\ open \in Content /\ open /= None /\ Seen = open
  BY <1>1, GoToType DEF ReplaceStep
<1>3. CASE UNCHANGED disk
  BY <1>1, <1>3 DEF StoredCatalogs, StoredCatalog
<1>4. CASE disk' = open
  <2>1. /\ open.categories[replace.id] = replace.version
        /\ open.channels[replace.id] = replace.version
        /\ open.rows = disk.rows
        /\ \A p \in Provider \ {replace.id} : /\ open.categories[p] = disk.categories[p]
                                              /\ open.channels[p] = disk.channels[p]
    BY <1>2 DEF StoreInv, Written
  <2>2. StoredCatalogs' = [StoredCatalogs EXCEPT ![replace.id] = replace.version]
    BY <1>2, <1>4, <2>1 DEF StoredCatalogs, StoredCatalog
  <2>3. Promise!Replace(replace.id, replace.version)
    BY <1>1, <1>4, <2>1, <2>2 DEF Promise!Replace, StoredCatalogs
  <2> QED
    BY <1>2, <2>3 DEF Promise!Next
<1> QED
  BY <1>1, <1>2, <1>3, <1>4

\* Every step keeps the promise or leaves the disk as it is.
LEMMA PromiseStep ==
  JobInv /\ StoreInv /\ [Next]_vars =>
    Promise!Next \/ UNCHANGED <<StoredCatalogs, disk.rows, told>>
<1> SUFFICES ASSUME JobInv, StoreInv, [Next]_vars
             PROVE  Promise!Next \/ UNCHANGED <<StoredCatalogs, disk.rows, told>>
  OBVIOUS
<1>1. ASSUME UNCHANGED <<disk, told>> PROVE UNCHANGED <<StoredCatalogs, disk.rows, told>>
  BY <1>1 DEF StoredCatalogs, StoredCatalog
<1>2. CASE UNCHANGED vars
  BY <1>1, <1>2 DEF vars, store
<1>3. CASE UNCHANGED store
  BY <1>1, <1>3 DEF store
<1>4. CASE Commit
  BY <1>4, CommitReplaces
<1>5. CASE DeleteCategories \/ DeleteChannels \/ InsertCategories \/ InsertChannels
             \/ StatementFails \/ Rollback
  <2>1. open /= None
    BY <1>5
    DEF DeleteCategories, DeleteChannels, InsertCategories, InsertChannels, StatementFails,
        Rollback, GoTo, StoreInv, MutexFree
  <2>2. UNCHANGED <<disk, told>>
    BY <1>5, <2>1
    DEF DeleteCategories, DeleteChannels, InsertCategories, InsertChannels, StatementFails,
        Rollback, Execute
  <2> QED
    BY <1>1, <2>2
<1>6. ASSUME NEW t \in Table, NEW r \in 0 .. MaxWrites, Put(t, r) PROVE Promise!Next
  <2>1. /\ disk'.categories = disk.categories /\ disk'.channels = disk.channels
        /\ disk'.rows = [disk.rows EXCEPT ![t] = r]
        /\ told' = [told EXCEPT ![t] = r]
    BY <1>6, PutOnDisk
  <2>2. StoredCatalogs' = StoredCatalogs
    BY <2>1 DEF StoredCatalogs, StoredCatalog
  <2>3. Promise!Put(t, r)
    BY <2>1, <2>2 DEF Promise!Put, StoredCatalogs
  <2> QED
    BY <2>3 DEF Promise!Next
<1>7. ASSUME NEW id \in Provider, NEW version \in 1 .. MaxVersion, BeginReplace(id, version)
      PROVE  UNCHANGED <<disk, told>>
  BY <1>7 DEF BeginReplace
<1> QED
  BY <1>1, <1>2, <1>3, <1>4, <1>5, <1>6, <1>7, StoreOperations DEF ReplaceCatalog

\* The catalog stored for an account is that of one login and a row whose
\* writer was told it is there is there, whichever statement fails, whoever
\* writes meanwhile and whenever the process ends: every behaviour of the
\* logins and the database is one of AtomicStore, for any number of providers
\* and logins.
THEOREM StoreIsAtomicAlways == Spec => StoreIsAtomic
<1>1. Init => JobInv /\ StoreInv /\ Promise!Init
  BY JobInit, StoreInitSound, PromiseInit
<1>2. JobInv /\ StoreInv /\ [Next]_vars => (JobInv /\ StoreInv)'
  BY JobStep, StoreStepSound
<1>3. JobInv /\ StoreInv /\ [Next]_vars =>
        [Promise!Next]_<<[p \in Provider |-> StoredCatalog(p)], disk.rows, told>>
  BY PromiseStep DEF StoredCatalogs
<1> QED
  BY <1>1, <1>2, <1>3, PTL DEF Spec, StoreIsAtomic, Promise!Spec

----
(* What is fetched, and whose it is.                                       *)

\* The first word of the identifiers in the catalog of a kind.
IdClass == [live |-> {"bare", "live"}, vod |-> {"vod:", "vod"}, series |-> {"series:", "series"}]

\* An item of an account, whose address is a server's.
ItemOf(i, provider, server) ==
  i = [id |-> i.id, provider |-> provider, server |-> server, direct |-> i.direct]

\* Catalogs: a record for each kind, with channels only if it was loaded.
AreCatalogs(c) ==
  /\ c = [k \in ContentKind |-> [categories |-> c[k].categories, channels |-> c[k].channels,
                                 loaded |-> c[k].loaded]]
  /\ \A k \in ContentKind : c[k].channels /= {} => c[k].loaded

FiledUnder(c, provider, server) ==
  \A k \in ContentKind :
    /\ \A i \in c[k].categories \cup c[k].channels : ItemOf(i, provider, server)
    /\ \A i \in c[k].channels : i.id[1] \in IdClass[k]

\* The parsers file what they make of an answer under the server that gave it.
LEMMA ParsersFile ==
  ASSUME NEW rows, NEW server
  PROVE  /\ \A i \in ParseCategories(rows, server) : ItemOf(i, server, server)
         /\ \A i \in ParseStreams(rows, server) :
              ItemOf(i, server, server) /\ i.id[1] \in IdClass["live"]
         /\ \A i \in ParseVod(rows, server) :
              ItemOf(i, server, server) /\ i.id[1] \in IdClass["vod"]
         /\ \A i \in ParseSeries(rows, server) :
              ItemOf(i, server, server) /\ i.id[1] \in IdClass["series"]
<1>1. ASSUME NEW word, NEW number, NEW direct
      PROVE  /\ ItemOf(Filed(<<word, number>>, server, direct), server, server)
             /\ Filed(<<word, number>>, server, direct).id[1] = word
  BY DEF Filed, ProviderId, ItemOf
<1>2. \A i \in ParseCategories(rows, server) : ItemOf(i, server, server) /\ i.id[1] = "category"
  <2> DEFINE kept == Groups(rows)
  <2>1. ParseCategories(rows, server) = {Filed(<<"category", r.number>>, server, None) : r \in kept}
    BY DEF ParseCategories
  <2> HIDE DEF kept
  <2>2. ASSUME NEW i \in ParseCategories(rows, server)
        PROVE  ItemOf(i, server, server) /\ i.id[1] = "category"
    <3>1. PICK r \in kept : i = Filed(<<"category", r.number>>, server, None)
      BY <2>1
    <3> QED
      BY <1>1, <3>1
  <2> QED
    BY <2>2
<1>3. \A i \in ParseStreams(rows, server) : ItemOf(i, server, server) /\ i.id[1] = "bare"
  <2> DEFINE kept == Channels(rows)
  <2>1. ParseStreams(rows, server) = {Filed(<<"bare", r.number>>, server, r.direct) : r \in kept}
    BY DEF ParseStreams
  <2> HIDE DEF kept
  <2>2. ASSUME NEW i \in ParseStreams(rows, server)
        PROVE  ItemOf(i, server, server) /\ i.id[1] = "bare"
    <3>1. PICK r \in kept : i = Filed(<<"bare", r.number>>, server, r.direct)
      BY <2>1
    <3> QED
      BY <1>1, <3>1
  <2> QED
    BY <2>2
<1>4. \A i \in ParseVod(rows, server) : ItemOf(i, server, server) /\ i.id[1] = "vod:"
  <2> DEFINE kept == Films(rows)
  <2>1. ParseVod(rows, server) = {Filed(<<"vod:", r.number>>, server, r.direct) : r \in kept}
    BY DEF ParseVod
  <2> HIDE DEF kept
  <2>2. ASSUME NEW i \in ParseVod(rows, server)
        PROVE  ItemOf(i, server, server) /\ i.id[1] = "vod:"
    <3>1. PICK r \in kept : i = Filed(<<"vod:", r.number>>, server, r.direct)
      BY <2>1
    <3> QED
      BY <1>1, <3>1
  <2> QED
    BY <2>2
<1>5. \A i \in ParseSeries(rows, server) : ItemOf(i, server, server) /\ i.id[1] = "series:"
  <2> DEFINE kept == Shows(rows)
  <2>1. ParseSeries(rows, server) = {Filed(<<"series:", r.number>>, server, None) : r \in kept}
    BY DEF ParseSeries
  <2> HIDE DEF kept
  <2>2. ASSUME NEW i \in ParseSeries(rows, server)
        PROVE  ItemOf(i, server, server) /\ i.id[1] = "series:"
    <3>1. PICK r \in kept : i = Filed(<<"series:", r.number>>, server, None)
      BY <2>1
    <3> QED
      BY <1>1, <3>1
  <2> QED
    BY <2>2
<1> QED
  BY <1>2, <1>3, <1>4, <1>5 DEF IdClass

\* No catalogs are catalogs of anybody.
LEMMA NoCatalogsFiled ==
  AreCatalogs(NoCatalogs) /\ \A provider, server : FiledUnder(NoCatalogs, provider, server)
BY DEF NoCatalogs, NoCatalog, AreCatalogs, FiledUnder

\* Replacing one kind's catalog by one filed alike keeps them so.
LEMMA OneReplaced ==
  ASSUME NEW c, NEW p, NEW s, AreCatalogs(c), FiledUnder(c, p, s),
         NEW k \in ContentKind, NEW x, NEW y, NEW b, y /= {} => b,
         \A i \in x \cup y : ItemOf(i, p, s), \A i \in y : i.id[1] \in IdClass[k],
         NEW d, d = [c EXCEPT ![k] = [categories |-> x, channels |-> y, loaded |-> b]]
  PROVE  AreCatalogs(d) /\ FiledUnder(d, p, s)
<1>1. d[k] = [categories |-> x, channels |-> y, loaded |-> b]
  BY DEF AreCatalogs
<1>2. \A j \in ContentKind \ {k} : d[j] = c[j]
  BY DEF AreCatalogs
<1>3. d = [j \in ContentKind |-> d[j]]
  BY DEF AreCatalogs
<1>4. \A j \in ContentKind :
        c[j] = [categories |-> c[j].categories, channels |-> c[j].channels, loaded |-> c[j].loaded]
  BY DEF AreCatalogs
<1>5. \A j \in ContentKind :
        d[j] = [categories |-> d[j].categories, channels |-> d[j].channels, loaded |-> d[j].loaded]
  BY <1>1, <1>2, <1>4
<1>6. AreCatalogs(d)
  BY <1>1, <1>2, <1>3, <1>5 DEF AreCatalogs
<1>7. FiledUnder(d, p, s)
  BY <1>1, <1>2 DEF FiledUnder
<1> QED
  BY <1>6, <1>7

\* The server whose addresses the catalogs hold.
ServerOfLogin == IF job.mode = "m3u" THEN job.server ELSE stage.server

\* While a server is asked, what was fetched is filed under that server; once
\* accepted, under the account of the login.
FetchedInv ==
  /\ AreCatalogs(fetched)
  /\ at \in Asking => FiledUnder(fetched, stage.server, stage.server)
  /\ at \in Storing => FiledUnder(fetched, ProviderOfLogin, ServerOfLogin)

\* Putting the categories or the items of one kind keeps the catalogs the asked
\* server's, and so does leaving the kind out.
LEMMA AnswersFiled ==
  ASSUME NEW c, NEW s, AreCatalogs(c), FiledUnder(c, s, s), NEW k \in ContentKind,
         NEW x, \A i \in x : ItemOf(i, s, s),
         NEW y, \A i \in y : ItemOf(i, s, s) /\ i.id[1] \in IdClass[k],
         NEW d, \/ d = c
                \/ d = [c EXCEPT ![k].categories = x]
                \/ d = [c EXCEPT ![k] = Loaded(@, y)]
                \/ d = [c EXCEPT ![k] = NoCatalog]
  PROVE  AreCatalogs(d) /\ FiledUnder(d, s, s)
<1>1. /\ c[k].channels /= {} => c[k].loaded
      /\ \A i \in c[k].categories \cup c[k].channels : ItemOf(i, s, s)
      /\ \A i \in c[k].channels : i.id[1] \in IdClass[k]
      /\ k \in DOMAIN c
  BY DEF AreCatalogs, FiledUnder
<1>2. CASE d = c
  BY <1>2
<1>3. CASE d = [c EXCEPT ![k].categories = x]
  <2>1. c[k] = [categories |-> c[k].categories, channels |-> c[k].channels,
                loaded |-> c[k].loaded]
    BY DEF AreCatalogs
  <2>2. [c[k] EXCEPT !.categories = x] =
          [categories |-> x, channels |-> c[k].channels, loaded |-> c[k].loaded]
    BY <2>1
  <2>3. d = [c EXCEPT ![k] = [categories |-> x, channels |-> c[k].channels,
                              loaded |-> c[k].loaded]]
    BY <1>3, <2>2
  <2>4. /\ \A i \in x \cup c[k].channels : ItemOf(i, s, s)
        /\ \A i \in c[k].channels : i.id[1] \in IdClass[k]
        /\ c[k].channels /= {} => c[k].loaded
    BY <1>1
  <2> QED
    BY <2>3, <2>4, OneReplaced
<1>4. CASE d = [c EXCEPT ![k] = Loaded(@, y)]
  <2>1. d = [c EXCEPT ![k] = [categories |-> c[k].categories, channels |-> y, loaded |-> TRUE]]
    BY <1>4, <1>1 DEF Loaded
  <2> QED
    BY <1>1, <2>1, OneReplaced
<1>5. CASE d = [c EXCEPT ![k] = NoCatalog]
  <2>1. d = [c EXCEPT ![k] = [categories |-> {}, channels |-> {}, loaded |-> FALSE]]
    BY <1>5 DEF NoCatalog
  <2> QED
    BY <2>1, OneReplaced
<1> QED
  BY <1>2, <1>3, <1>4, <1>5

\* One server's requests fetch that server's catalogs.
LEMMA RequestsFile ==
  ASSUME JobInv, FetchedInv, LoginOneServer
  PROVE  FetchedInv'
<1> DEFINE s == stage.server
<1>a. Asks
  BY LoginOneServerAsks
<1>b. AreCatalogs(fetched) /\ FiledUnder(fetched, s, s)
  BY <1>a DEF FetchedInv, Asks
<1>1. ASSUME NEW k \in ContentKind, NEW x, NEW y,
             \A i \in x : ItemOf(i, s, s),
             \A i \in y : ItemOf(i, s, s) /\ i.id[1] \in IdClass[k],
             \/ fetched' = fetched
             \/ fetched' = [fetched EXCEPT ![k].categories = x]
             \/ fetched' = [fetched EXCEPT ![k] = Loaded(@, y)]
             \/ fetched' = [fetched EXCEPT ![k] = NoCatalog]
      PROVE  FetchedInv'
  <2>1. AreCatalogs(fetched') /\ FiledUnder(fetched', s, s)
    BY <1>b, <1>1, AnswersFiled
  <2>2. stage' = stage /\ at' \in Asking /\ at' \notin Storing
    BY <1>a DEF Asks, Asking, Storing, Required, Optional
  <2> QED
    BY <2>1, <2>2 DEF FetchedInv, AreCatalogs, FiledUnder
<1>k. "live" \in ContentKind /\ "vod" \in ContentKind /\ "series" \in ContentKind
  BY DEF ContentKind
<1>2. CASE Authenticate \/ RequestFails
  <2>1. fetched' = fetched
    BY <1>2 DEF Authenticate, RequestFails, Succeeds
  <2>2. stage' = stage /\ at' \in Asking /\ at' \notin Storing
    BY <1>a DEF Asks, Asking, Storing, Required, Optional
  <2> QED
    BY <1>b, <2>1, <2>2 DEF FetchedInv, AreCatalogs, FiledUnder
<1>3. CASE LiveCategories \/ LiveStreams
  <2> DEFINE y == ParseStreams(Answered("streams"), s)
             x == ParseCategories(Answered("categories"), s)
  <2>1. \/ fetched' = [fetched EXCEPT !["live"].categories = x]
        \/ fetched' = [fetched EXCEPT !["live"] = Loaded(@, y)]
    BY <1>3 DEF LiveCategories, LiveStreams, Succeeds
  <2>2. /\ \A i \in x : ItemOf(i, s, s)
        /\ \A i \in y : ItemOf(i, s, s) /\ i.id[1] \in IdClass["live"]
    BY ParsersFile
  <2> HIDE DEF x, y
  <2> QED
    BY <1>1, <1>k, <2>1, <2>2
<1>4. CASE VodCategories \/ VodStreams
  <2> DEFINE y == ParseVod(Answered("vod"), s)
             x == ParseCategories(Answered("categories"), s)
  <2>1. \/ fetched' = [fetched EXCEPT !["vod"].categories = x]
        \/ fetched' = [fetched EXCEPT !["vod"] = Loaded(@, y)]
        \/ fetched' = [fetched EXCEPT !["vod"] = NoCatalog]
    BY <1>4 DEF VodCategories, VodStreams, Succeeds
  <2>2. /\ \A i \in x : ItemOf(i, s, s)
        /\ \A i \in y : ItemOf(i, s, s) /\ i.id[1] \in IdClass["vod"]
    BY ParsersFile
  <2> HIDE DEF x, y
  <2> QED
    BY <1>1, <1>k, <2>1, <2>2
<1>5. CASE SeriesCategories \/ SeriesList
  <2> DEFINE y == ParseSeries(Answered("series"), s)
             x == ParseCategories(Answered("categories"), s)
  <2>1. \/ fetched' = [fetched EXCEPT !["series"].categories = x]
        \/ fetched' = [fetched EXCEPT !["series"] = Loaded(@, y)]
        \/ fetched' = [fetched EXCEPT !["series"] = NoCatalog]
    BY <1>5 DEF SeriesCategories, SeriesList, Succeeds
  <2>2. /\ \A i \in x : ItemOf(i, s, s)
        /\ \A i \in y : ItemOf(i, s, s) /\ i.id[1] \in IdClass["series"]
    BY ParsersFile
  <2> HIDE DEF x, y
  <2> QED
    BY <1>1, <1>k, <2>1, <2>2
<1> QED
  BY <1>2, <1>3, <1>4, <1>5 DEF LoginOneServer

\* Filing items under another account leaves their identifiers and addresses.
LEMMA RemapFiled ==
  ASSUME NEW items, NEW o, NEW s, \A i \in items : ItemOf(i, o, s), NEW p
  PROVE  /\ Remap(items, p) /= {} => items /= {}
         /\ \A i \in Remap(items, p) : ItemOf(i, p, s)
         /\ \A class : (\A i \in items : i.id[1] \in class) =>
                       (\A i \in Remap(items, p) : i.id[1] \in class)
<1>1. ASSUME NEW i, ItemOf(i, o, s)
      PROVE  ItemOf([i EXCEPT !.provider = p], p, s) /\ [i EXCEPT !.provider = p].id = i.id
  BY <1>1 DEF ItemOf
<1>2. ASSUME NEW i \in Remap(items, p)
      PROVE  \E j \in items : i = [j EXCEPT !.provider = p]
  BY <1>2 DEF Remap
<1>3. ASSUME NEW i \in Remap(items, p)
      PROVE  ItemOf(i, p, s) /\ \E j \in items : i.id = j.id
  <2>1. PICK j \in items : i = [j EXCEPT !.provider = p]
    BY <1>2, <1>3
  <2>2. ItemOf(j, o, s)
    OBVIOUS
  <2>3. ItemOf(i, p, s) /\ i.id = j.id
    BY <1>1, <2>1, <2>2
  <2> QED
    BY <2>3
<1> QED
  BY <1>3

\* What is accepted is filed under the account of the login.
LEMMA AcceptedFiled ==
  ASSUME JobInv, FetchedInv, Accept
  PROVE  FetchedInv'
<1> USE DEF Accept
<1>1. AreCatalogs(fetched) /\ FiledUnder(fetched, stage.server, stage.server)
  BY DEF FetchedInv, Asking
<1>2. at' \in Storing /\ at' \notin Asking /\ job.mode = "xtream"
  BY DEF Storing, Asking, Required, Optional, JobInv
<1>3. UNCHANGED <<ProviderOfLogin, ServerOfLogin>>
  BY DEF ProviderOfLogin, ServerOfLogin, ProviderId
<1>4. ServerOfLogin = stage.server
  BY <1>2 DEF ServerOfLogin
<1>5. AreCatalogs(Accepted) /\ FiledUnder(Accepted, ProviderOfLogin, stage.server)
  <2>1. CASE stage.which /= "alternate"
    <3>1. Accepted = fetched /\ ProviderOfLogin = stage.server
      BY <1>2, <2>1 DEF Accepted, ProviderOfLogin, ProviderId
    <3> QED
      BY <1>1, <3>1
  <2>2. CASE stage.which = "alternate"
    <3> DEFINE p == job.server
               new == [k \in ContentKind |-> RemapCatalog(fetched[k], p)]
    <3>1. Accepted = new /\ ProviderOfLogin = p
      BY <2>2 DEF Accepted, ProviderOfLogin, ProviderId
    <3>3. \A k \in ContentKind :
            new[k] = [categories |-> Remap(fetched[k].categories, p),
                      channels |-> Remap(fetched[k].channels, p), loaded |-> fetched[k].loaded]
      BY <1>1 DEF AreCatalogs, RemapCatalog
    <3>4. new = [k \in ContentKind |-> new[k]]
      OBVIOUS
    <3> HIDE DEF new
    <3>5. ASSUME NEW k \in ContentKind
          PROVE  /\ new[k] = [categories |-> new[k].categories, channels |-> new[k].channels,
                              loaded |-> new[k].loaded]
                 /\ new[k].channels /= {} => new[k].loaded
                 /\ \A i \in new[k].categories \cup new[k].channels : ItemOf(i, p, stage.server)
                 /\ \A i \in new[k].channels : i.id[1] \in IdClass[k]
      <4> DEFINE categories == Remap(fetched[k].categories, p)
                 channels == Remap(fetched[k].channels, p)
      <4>1. /\ new[k] = [categories |-> categories, channels |-> channels,
                         loaded |-> fetched[k].loaded]
        BY <3>3
      <4>2. /\ fetched[k].channels /= {} => fetched[k].loaded
            /\ \A i \in fetched[k].categories : ItemOf(i, stage.server, stage.server)
            /\ \A i \in fetched[k].channels : ItemOf(i, stage.server, stage.server)
            /\ \A i \in fetched[k].channels : i.id[1] \in IdClass[k]
        BY <1>1 DEF AreCatalogs, FiledUnder
      <4>3. \A i \in categories : ItemOf(i, p, stage.server)
        BY <4>2, RemapFiled
      <4>4. channels /= {} => fetched[k].channels /= {}
        BY <4>2, RemapFiled
      <4>5. \A i \in channels : ItemOf(i, p, stage.server)
        BY <4>2, RemapFiled
      <4>6. \A i \in channels : i.id[1] \in IdClass[k]
        BY <4>2, RemapFiled
      <4> HIDE DEF categories, channels
      <4> QED
        BY <4>1, <4>2, <4>3, <4>4, <4>5, <4>6
    <3>7. AreCatalogs(new)
      BY <3>4, <3>5 DEF AreCatalogs
    <3>8. FiledUnder(new, p, stage.server)
      BY <3>5 DEF FiledUnder
    <3> QED
      BY <3>1, <3>7, <3>8
  <2> QED
    BY <2>1, <2>2
<1> QED
  BY <1>2, <1>3, <1>4, <1>5 DEF FetchedInv, AreCatalogs, FiledUnder

\* A playlist's catalogs are those of the playlist's address.
LEMMA SplitFiled ==
  ASSUME JobInv, Split
  PROVE  FetchedInv'
<1> USE DEF Split
<1> DEFINE s == job.server
           Some(k) == parsed.lists[k].channels /= <<>>
           new == [k \in ContentKind |->
                     [categories |-> {}, loaded |-> Some(k) \/ k = "live",
                      channels |-> IF Some(k) THEN {Filed(<<k>>, s, None)} ELSE {}]]
<1>1. fetched' = new
  OBVIOUS
<1> HIDE DEF Some
<1>2. ASSUME NEW k \in ContentKind
      PROVE  /\ new[k] = [categories |-> new[k].categories, channels |-> new[k].channels,
                          loaded |-> new[k].loaded]
             /\ new[k].channels /= {} => new[k].loaded
             /\ new[k].categories = {} /\ new[k].channels \subseteq {Filed(<<k>>, s, None)}
  <2>1. /\ new[k].categories = {} /\ new[k].loaded = (Some(k) \/ k = "live")
        /\ new[k].channels = (IF Some(k) THEN {Filed(<<k>>, s, None)} ELSE {})
    OBVIOUS
  <2>2. new[k] = [categories |-> new[k].categories, channels |-> new[k].channels,
                  loaded |-> new[k].loaded]
    OBVIOUS
  <2> QED
    BY <2>1, <2>2
<1>3. \A k \in ContentKind : ItemOf(Filed(<<k>>, s, None), s, s) /\ Filed(<<k>>, s, None).id[1] \in IdClass[k]
  BY DEF ContentKind, ItemOf, Filed, ProviderId, IdClass
<1>4. new = [k \in ContentKind |-> new[k]]
  OBVIOUS
<1> HIDE DEF new
<1>5. AreCatalogs(new)
  BY <1>2, <1>4 DEF AreCatalogs
<1>6. FiledUnder(new, s, s)
  BY <1>2, <1>3 DEF FiledUnder
<1>7. job' = job /\ job.mode = "m3u" /\ at' = "store"
  BY DEF JobInv
<1>8. ProviderOfLogin' = s /\ ServerOfLogin' = s /\ at' \notin Asking
  BY <1>7 DEF ProviderOfLogin, ServerOfLogin, ProviderId, Asking, Required, Optional
<1> QED
  BY <1>1, <1>5, <1>6, <1>8 DEF FetchedInv, AreCatalogs, FiledUnder

\* Every step keeps what was fetched the account's.
LEMMA FetchedStep == JobInv /\ FetchedInv /\ [Next]_vars => FetchedInv'
<1> SUFFICES ASSUME JobInv, FetchedInv, [Next]_vars PROVE FetchedInv'
  OBVIOUS
<1>1. ASSUME fetched' = NoCatalogs PROVE FetchedInv'
  BY <1>1, NoCatalogsFiled DEF FetchedInv, AreCatalogs, FiledUnder
<1>2. ASSUME fetched' = fetched, at' \notin Asking, at' \notin Storing PROVE FetchedInv'
  BY <1>2 DEF FetchedInv, AreCatalogs
<1>3. ASSUME UNCHANGED <<fetched, at, stage, job>> PROVE FetchedInv'
  <2>1. UNCHANGED <<ProviderOfLogin, ServerOfLogin>>
    BY <1>3 DEF ProviderOfLogin, ServerOfLogin
  <2> QED
    BY <1>3, <2>1 DEF FetchedInv, AreCatalogs, FiledUnder
<1>4. CASE UNCHANGED vars
  BY <1>3, <1>4 DEF vars, request
<1>5. ASSUME NEW f \in Form, StartLogin(f) PROVE FetchedInv'
  BY <1>1, <1>5 DEF StartLogin
<1>6. CASE HandleLogin
  BY <1>2, <1>6 DEF HandleLogin, request, Asking, Storing, Required, Optional
<1>7. CASE TryAlternate \/ Resolve \/ TryResolvedAlternate
  BY <1>1, <1>7 DEF TryAlternate, Resolve, TryResolvedAlternate, Try
<1>8. CASE GiveUp \/ Publish \/ Restart
  BY <1>1, <1>8 DEF GiveUp, Publish, Restart, NoRequest
<1>9. ASSUME NEW lines \in Playlist, Load(lines) PROVE FetchedInv'
  BY <1>2, <1>9 DEF Load, Asking, Storing, Required, Optional
<1>10. CASE Store
  <2>1. UNCHANGED <<fetched, stage, job>> /\ at \in Storing /\ at' \notin Asking
    BY <1>10 DEF Store, request, Asking, Storing, Required, Optional
  <2>2. UNCHANGED <<ProviderOfLogin, ServerOfLogin>>
    BY <2>1 DEF ProviderOfLogin, ServerOfLogin
  <2> QED
    BY <2>1, <2>2 DEF FetchedInv, AreCatalogs, FiledUnder
<1>11. CASE StoreStep
  BY <1>3, <1>11 DEF StoreStep, request
<1> QED
  BY <1>4, <1>5, <1>6, <1>7, <1>8, <1>9, <1>10, <1>11, RequestsFile, AcceptedFiled, SplitFiled
     DEF Next, LoginWorker

----
(* What is published.                                                      *)

\* What is shown is filed under the active account, and its addresses are those
\* of the server that the other workers will ask.
CatalogsInv ==
  /\ AreCatalogs(catalogs)
  /\ FiledUnder(catalogs, session.profile, ActiveServer)
  /\ ~session.resolved /\ session /= NoSession => session.profile = ProviderId(session.server)
  /\ session.profile \in Provider \cup {None}

\* Publishing shows what was fetched, with the session of the login.
LEMMA PublishSound ==
  ASSUME JobInv, FetchedInv, Publish
  PROVE  CatalogsInv'
<1> DEFINE known == resolution.primary = None
<1>1. /\ catalogs' = fetched
      /\ form' = IF known THEN form
                 ELSE [form EXCEPT !.server = resolution.primary, !.alt = resolution.alternate]
      /\ session' = [profile |-> ProviderOfLogin, server |-> form'.server, alt |-> form'.alt,
                     usesAlt |-> stage.which \in {"alternate", "resolved_alternate"},
                     resolved |-> resolution.primary /= None]
      /\ at \in Storing
  BY DEF Publish, Storing
<1>2. /\ session'.profile = ProviderOfLogin /\ session'.server = form'.server
      /\ session'.alt = form'.alt /\ session'.resolved = ~known
      /\ session'.usesAlt = (stage.which \in {"alternate", "resolved_alternate"})
  BY <1>1
<1>3. known => form' = form
  BY <1>1
<1>4. ~known => form'.server = resolution.primary /\ form'.alt = resolution.alternate
  <2>1. form \in [mode : {"xtream", "m3u", None}, server : Provider \cup {None},
                  alt : Provider \cup {None}]
    BY DEF JobInv
  <2>2. [form EXCEPT !.server = resolution.primary, !.alt = resolution.alternate] =
          [[form EXCEPT !.server = resolution.primary] EXCEPT !.alt = resolution.alternate]
    OBVIOUS
  <2> DEFINE one == [form EXCEPT !.server = resolution.primary]
  <2>3. one.server = resolution.primary /\ "server" \in DOMAIN one /\ "alt" \in DOMAIN one
    BY <2>1
  <2> HIDE DEF one
  <2>4. [one EXCEPT !.alt = resolution.alternate].server = one.server
    BY <2>3
  <2>5. [one EXCEPT !.alt = resolution.alternate].alt = resolution.alternate
    BY <2>3
  <2> QED
    BY <1>1, <2>2, <2>3, <2>4, <2>5 DEF one
<1>5. form = job /\ at \in Working
  BY <1>1 DEF JobInv, Working
<1>6. \/ /\ job.mode = "m3u" /\ stage = NoStage /\ known
      \/ /\ job.mode = "xtream" /\ ServerTried
  BY <1>1 DEF JobInv, NoResolution
<1> HIDE DEF known
<1>7. ActiveServer' = ServerOfLogin /\ (known => ProviderOfLogin = form'.server)
  <2>1. CASE job.mode = "m3u" /\ stage = NoStage /\ known
    <3>1. stage.which \notin Which
      BY <2>1, StageAssumption DEF NoStage
    <3> QED
      BY <1>2, <1>3, <1>5, <2>1, <3>1
         DEF ActiveServer, ServerOfLogin, ProviderOfLogin, ProviderId, Which
  <2>2. CASE job.mode = "xtream" /\ ServerTried
    <3>1. CASE StageOf("primary", job.server) /\ resolution = NoResolution
      BY <1>2, <1>3, <1>5, <2>2, <3>1, StageName
         DEF ActiveServer, ServerOfLogin, ProviderOfLogin, ProviderId, known, NoResolution
    <3>2. CASE StageOf("alternate", job.alt) /\ resolution = NoResolution
      BY <1>2, <1>3, <1>5, <2>2, <3>2, StageName
         DEF ActiveServer, ServerOfLogin, ProviderOfLogin, ProviderId, known, NoResolution
    <3>3. CASE StageOf("resolved", resolution.primary) /\ resolution.primary /= None
      <4>1. ~known /\ stage.which = "resolved" /\ stage.server = resolution.primary
        BY <3>3, StageName DEF known
      <4>2. ~session'.usesAlt /\ ServerOfLogin = stage.server
        BY <1>2, <2>2, <4>1 DEF ServerOfLogin
      <4> QED
        BY <1>2, <1>4, <4>1, <4>2 DEF ActiveServer
    <3>4. CASE StageOf("resolved_alternate", resolution.alternate) /\ resolution.primary /= None
      BY <1>2, <1>4, <2>2, <3>4, StageName
         DEF ActiveServer, ServerOfLogin, ProviderOfLogin, ProviderId, known
    <3> QED
      BY <2>2, <3>1, <3>2, <3>3, <3>4 DEF ServerTried
  <2> QED
    BY <1>6, <2>1, <2>2
<1>8. ProviderOfLogin \in Provider
  BY <1>1, JobProvider
<1>9. AreCatalogs(fetched) /\ FiledUnder(fetched, ProviderOfLogin, ServerOfLogin)
  BY <1>1 DEF FetchedInv
<1>10. AreCatalogs(catalogs)' /\ FiledUnder(catalogs, session.profile, ActiveServer)'
  BY <1>1, <1>2, <1>7, <1>9 DEF AreCatalogs, FiledUnder
<1>11. (~session.resolved /\ session /= NoSession => session.profile = ProviderId(session.server))'
  BY <1>2, <1>7 DEF ProviderId
<1> QED
  BY <1>2, <1>8, <1>10, <1>11 DEF CatalogsInv

\* What is shown changes only when a login publishes and at a restart.
LEMMA CatalogsStep == JobInv /\ FetchedInv /\ CatalogsInv /\ [Next]_vars => CatalogsInv'
<1> SUFFICES ASSUME JobInv, FetchedInv, CatalogsInv, [Next]_vars PROVE CatalogsInv'
  OBVIOUS
<1>1. ASSUME UNCHANGED <<catalogs, session>> PROVE CatalogsInv'
  <2>1. ActiveServer' = ActiveServer
    BY <1>1 DEF ActiveServer
  <2> QED
    BY <1>1, <2>1 DEF CatalogsInv, AreCatalogs, FiledUnder
<1>2. CASE Restart
  <2>1. catalogs' = NoCatalogs /\ session' = NoSession
    BY <1>2 DEF Restart
  <2>2. session'.profile = None /\ AreCatalogs(catalogs)'
    BY <2>1, NoCatalogsFiled DEF NoSession, AreCatalogs
  <2>3. FiledUnder(catalogs, session.profile, ActiveServer)'
    BY <2>1 DEF NoCatalogs, NoCatalog, FiledUnder
  <2> QED
    BY <2>1, <2>2, <2>3 DEF CatalogsInv
<1>3. CASE UNCHANGED vars \/ HandleLogin \/ LoginOneServer \/ StoreStep
  BY <1>1, <1>3, LoginOneServerAsks DEF vars, published, HandleLogin, Asks, StoreStep
<1>4. CASE Accept \/ TryAlternate \/ Resolve \/ TryResolvedAlternate \/ GiveUp \/ Split \/ Store
  BY <1>1, <1>4
     DEF published, Accept, TryAlternate, Resolve, TryResolvedAlternate, GiveUp, Split, Store
<1>5. ASSUME NEW f \in Form, StartLogin(f) PROVE CatalogsInv'
  BY <1>1, <1>5 DEF StartLogin, published
<1>6. ASSUME NEW lines \in Playlist, Load(lines) PROVE CatalogsInv'
  BY <1>1, <1>6 DEF Load, published
<1> QED
  BY <1>2, <1>3, <1>4, <1>5, <1>6, PublishSound DEF Next, LoginWorker

\* Nothing is fetched and nothing shown at first.
LEMMA CatalogsInit == Init => FetchedInv /\ CatalogsInv
<1> SUFFICES ASSUME Init PROVE FetchedInv /\ CatalogsInv
  OBVIOUS
<1>1. fetched = NoCatalogs /\ catalogs = NoCatalogs /\ session = NoSession
  BY DEF Init
<1>2. session.profile = None
  BY <1>1 DEF NoSession
<1> QED
  BY <1>1, <1>2, NoCatalogsFiled DEF FetchedInv, CatalogsInv

\* No identifier begins as those of two kinds do.
LEMMA ClassesApart ==
  \A j, k \in ContentKind : j /= k => IdClass[j] \cap IdClass[k] = {}
BY DEF ContentKind, IdClass

\* What is shown is one server's, filed under the active account, which is the
\* same whichever of its servers answered, and no channel, film and series share
\* an identifier: for any answers, forms and playlists.
THEOREM CatalogsAgreeAlways == Spec => []CatalogsAgree
<1>1. Init => JobInv /\ FetchedInv /\ CatalogsInv
  BY JobInit, CatalogsInit
<1>2. JobInv /\ FetchedInv /\ CatalogsInv /\ [Next]_vars => (JobInv /\ FetchedInv /\ CatalogsInv)'
  BY JobStep, FetchedStep, CatalogsStep
<1>3. CatalogsInv => CatalogsAgree
  <2> SUFFICES ASSUME CatalogsInv PROVE CatalogsAgree
    OBVIOUS
  <2>1. \A k \in ContentKind : \A i \in catalogs[k].categories \cup catalogs[k].channels :
          ItemOf(i, session.profile, ActiveServer)
    BY DEF CatalogsInv, FiledUnder
  <2>2. \A i \in Items : i.server = ActiveServer /\ i.provider = session.profile
    <3>1. ASSUME NEW i, NEW p, NEW s, ItemOf(i, p, s) PROVE i.server = s /\ i.provider = p
      BY <3>1 DEF ItemOf
    <3> QED
      BY <2>1, <3>1 DEF Items
  <2>3. \A k \in ContentKind : \A i \in catalogs[k].channels : i.id[1] \in IdClass[k]
    BY DEF CatalogsInv, FiledUnder
  <2>4. ASSUME NEW j \in ContentKind, NEW k \in ContentKind, j /= k
        PROVE  {i.id : i \in catalogs[j].channels} \cap {i.id : i \in catalogs[k].channels} = {}
    BY <2>3, <2>4, ClassesApart
  <2> QED
    BY <2>2, <2>4 DEF CatalogsInv, CatalogsAgree
<1> QED
  BY <1>1, <1>2, <1>3, PTL DEF Spec

----
(* Who is given the user's name and password.                              *)

Configured == {job.server, job.alt} \ {None}
Own == {"primary", "alternate"}

\* While a configured server is tried, nobody else has been asked; a server that
\* failed has been asked; the resolver's are tried only after all of these.
ConsentInv ==
  /\ notFound \subseteq Provider /\ asked \subseteq Provider \cup {"resolver"}
  /\ at \notin Asking => asked = {}
  /\ at \in Asking /\ stage.which \in Own =>
       asked \subseteq Configured /\ notFound \subseteq Configured
  /\ at \in Asking /\ stage.which = "alternate" => job.server \in asked
  /\ at \in Asking /\ stage.which \notin Own =>
       consent /\ Configured \subseteq asked /\ notFound \cap Configured /= {}
  /\ at = "failed" => stage.server \in asked

\* The server that a configured stage tries is a configured one.
LEMMA OwnServer ==
  ASSUME JobInv, at \in Asking
  PROVE  /\ stage.server \in Provider
         /\ stage.which \in Own => stage.server \in Configured
         /\ stage.which = "primary" => stage.server = job.server
         /\ stage.which = "alternate" => stage.server = job.alt
<1>1. ServerTried /\ at \in Working
  BY DEF JobInv, Working
<1>2. stage \in [which : Which, server : Provider]
  BY JobProvider
<1>3. stage.server \in Provider /\ stage.server /= None
  BY <1>2, CatalogStoreAssumption
<1>4. /\ stage.which = "primary" => stage.server = job.server
      /\ stage.which = "alternate" => stage.server = job.alt
  BY <1>1, StageName DEF ServerTried
<1> QED
  BY <1>3, <1>4 DEF Own, Configured

\* One server's requests ask that server.
LEMMA RequestsAsk ==
  ASSUME JobInv, ConsentInv, LoginOneServer
  PROVE  ConsentInv'
<1>1. Asks
  BY LoginOneServerAsks
<1>2. asked' = asked \cup {stage.server}
  BY DEF LoginOneServer, Authenticate, LiveCategories, LiveStreams, RequestFails, VodCategories,
         VodStreams, SeriesCategories, SeriesList, Succeeds
<1>3. notFound' = notFound \/ notFound' = notFound \cup {stage.server}
  BY DEF LoginOneServer, Authenticate, LiveCategories, LiveStreams, RequestFails, VodCategories,
         VodStreams, SeriesCategories, SeriesList, Succeeds
<1>4. at \in Asking /\ at' \in Asking /\ UNCHANGED <<job, consent, stage>>
  BY <1>1 DEF Asks
<1>5. Configured' = Configured
  BY <1>4 DEF Configured
<1>6. /\ stage.server \in Provider
      /\ stage.which \in Own => stage.server \in Configured
  BY <1>4, OwnServer
<1>7. (notFound \subseteq Provider /\ asked \subseteq Provider \cup {"resolver"})'
  BY <1>2, <1>3, <1>6 DEF ConsentInv
<1>8. stage.which \in Own => asked' \subseteq Configured /\ notFound' \subseteq Configured
  BY <1>2, <1>3, <1>4, <1>6 DEF ConsentInv
<1>9. stage.which = "alternate" => job.server \in asked'
  BY <1>2, <1>4 DEF ConsentInv
<1>10. stage.which \notin Own =>
         consent /\ Configured \subseteq asked' /\ notFound' \cap Configured /= {}
  BY <1>2, <1>3, <1>4 DEF ConsentInv
<1> QED
  BY <1>2, <1>4, <1>5, <1>7, <1>8, <1>9, <1>10 DEF ConsentInv

\* The resolver is asked only with consent, and after the configured servers.
LEMMA ResolveAsks ==
  ASSUME JobInv, ConsentInv, Resolve
  PROVE  ConsentInv'
<1>1. /\ at = "failed" /\ at \in Asking /\ at' = "authenticate" /\ at' \in Asking
      /\ asked' = asked \cup {"resolver"} /\ UNCHANGED <<consent, job, notFound>>
      /\ stage'.which = "resolved" /\ consent /\ notFound /= {}
      /\ stage.which = "alternate" \/ (stage.which = "primary" /\ job.alt = None)
  BY DEF Resolve, ConfiguredFailed, MayResolve, Try, Asking, Required, Optional
<1>2. Configured' = Configured
  BY <1>1 DEF Configured
<1>3. Configured \subseteq asked
  BY <1>1, OwnServer DEF ConsentInv, Configured
<1>4. notFound \cap Configured /= {}
  BY <1>1 DEF ConsentInv, Own
<1> QED
  BY <1>1, <1>2, <1>3, <1>4 DEF ConsentInv, Own

\* The next server is tried after the last one, which failed, was asked.
LEMMA TriesAsk ==
  ASSUME JobInv, ConsentInv, TryAlternate \/ TryResolvedAlternate
  PROVE  ConsentInv'
<1>1. /\ at = "failed" /\ at \in Asking /\ at' = "authenticate" /\ at' \in Asking
      /\ UNCHANGED <<consent, job, notFound, asked>>
      /\ \/ stage.which = "primary" /\ stage'.which = "alternate"
         \/ stage.which = "resolved" /\ stage'.which = "resolved_alternate"
  BY DEF TryAlternate, TryResolvedAlternate, Try, Asking, Required, Optional
<1>2. Configured' = Configured
  BY <1>1 DEF Configured
<1>3. stage.which = "primary" => job.server \in asked
  BY <1>1, OwnServer DEF ConsentInv
<1> QED
  BY <1>1, <1>2, <1>3 DEF ConsentInv, Own

\* Every step asks the resolver with consent only, and after the servers.
LEMMA ConsentStep == JobInv /\ ConsentInv /\ [Next]_vars => ConsentInv'
<1> SUFFICES ASSUME JobInv, ConsentInv, [Next]_vars PROVE ConsentInv'
  OBVIOUS
<1>1. ASSUME asked' = {}, at' \notin Asking, notFound' = {} PROVE ConsentInv'
  BY <1>1 DEF ConsentInv, Asking
<1>2. ASSUME UNCHANGED <<asked, at, notFound, stage, job, consent>> PROVE ConsentInv'
  BY <1>2 DEF ConsentInv, Configured
<1>3. ASSUME UNCHANGED <<asked, notFound>>, at \notin Asking, at' \notin Asking PROVE ConsentInv'
  BY <1>3 DEF ConsentInv, Asking
<1>4. CASE UNCHANGED vars \/ StoreStep
  BY <1>2, <1>4 DEF vars, request, StoreStep
<1>5. ASSUME NEW f \in Form, StartLogin(f) PROVE ConsentInv'
  <2>1. /\ asked' = {} /\ notFound' = {}
        /\ \/ at' = "load"
           \/ at' = "authenticate" /\ stage'.which = "primary"
    BY <1>5 DEF StartLogin
  <2> QED
    BY <2>1 DEF ConsentInv, Asking, Own, Required, Optional
<1>6. CASE HandleLogin \/ Split \/ Store
  BY <1>3, <1>6 DEF HandleLogin, Split, Store, request, Asking, Required, Optional
<1>7. ASSUME NEW lines \in Playlist, Load(lines) PROVE ConsentInv'
  BY <1>3, <1>7 DEF Load, Asking, Required, Optional
<1>8. CASE GiveUp \/ Publish \/ Restart \/ Accept
  BY <1>1, <1>8 DEF GiveUp, Publish, Restart, Accept, NoRequest, Asking, Required, Optional
<1> QED
  BY <1>4, <1>5, <1>6, <1>7, <1>8, RequestsAsk, ResolveAsks, TriesAsk DEF Next, LoginWorker

\* The name and the password go to nobody but the configured servers, unless the
\* user consented, all of these failed and one of them with a 404: for any forms,
\* answers and lists of the resolver.
THEOREM ConsentFirstAlways == Spec => []ConsentFirst
<1>1. Init => JobInv /\ ConsentInv
  <2>1. Init => ConsentInv
    BY DEF Init, ConsentInv, Asking, Required, Optional
  <2> QED
    BY <2>1, JobInit
<1>2. JobInv /\ ConsentInv /\ [Next]_vars => (JobInv /\ ConsentInv)'
  BY JobStep, ConsentStep
<1>3. ConsentInv => ConsentFirst
  BY DEF ConsentInv, ConsentFirst, Configured
<1> QED
  BY <1>1, <1>2, <1>3, PTL DEF Spec

\* The worker's and the store's state is what its names say.
THEOREM TypeCorrect == Spec => []TypeOK
<1>1. Init => JobInv /\ StoreInv /\ FetchedInv /\ CatalogsInv /\ ConsentInv
  <2>1. Init => ConsentInv
    BY DEF Init, ConsentInv, Asking, Required, Optional
  <2> QED
    BY <2>1, JobInit, StoreInitSound, CatalogsInit
<1>2. JobInv /\ StoreInv /\ FetchedInv /\ CatalogsInv /\ ConsentInv /\ [Next]_vars =>
        (JobInv /\ StoreInv /\ FetchedInv /\ CatalogsInv /\ ConsentInv)'
  BY JobStep, StoreStepSound, FetchedStep, CatalogsStep, ConsentStep
<1>3. JobInv /\ StoreInv /\ FetchedInv /\ CatalogsInv /\ ConsentInv => TypeOK
  <2> SUFFICES ASSUME JobInv, StoreInv, FetchedInv, CatalogsInv, ConsentInv PROVE TypeOK
    OBVIOUS
  <2>1. at \in Required \cup Optional \cup
          {"none", "answered", "failed", "load", "split", "store", "publish",
           "succeeded", "gave_up"}
    BY DEF JobInv, Working, Asking, Storing
  <2>2. /\ stage = NoStage \/ stage \in [which : Which, server : Provider]
        /\ {form, job} \subseteq [mode : {"xtream", "m3u", None},
                                  server : Provider \cup {None}, alt : Provider \cup {None}]
    BY JobProvider DEF JobInv
  <2>3. \A held \in {fetched, catalogs}, k \in ContentKind :
          held[k].channels /= {} => held[k].loaded
    BY DEF FetchedInv, CatalogsInv, AreCatalogs
  <2> QED
    BY <2>1, <2>2, <2>3 DEF TypeOK, StoreInv, JobInv, CatalogsInv, ConsentInv
<1> QED
  BY <1>1, <1>2, <1>3, PTL DEF Spec

----
(* The catalogs of a playlist.                                              *)

\* What holds at 0 and is kept by every step up to N holds up to N: the first
\* number at which it fails would have a predecessor.
LEMMA NoFirstFailure ==
  ASSUME NEW N \in Nat, NEW T, T \subseteq 0 .. N, 0 \notin T,
         \A n \in 1 .. N : n - 1 \notin T => n \notin T
  PROVE  T = {}
<1> SUFFICES ASSUME T /= {} PROVE FALSE
  OBVIOUS
<1>0. T \subseteq Nat
  OBVIOUS
<1>1. PICK n \in T : \A m \in T : ~ (<<m, n>> \in OpToRel(<, Nat))
  BY <1>0, NatLessThanWellFounded, WFMin, Zenon
<1>2. \A m \in T : m \in Nat /\ n \in Nat
  OBVIOUS
<1>3. \A m \in T : ~ (m < n)
  <2>1. ASSUME NEW m \in T, m < n PROVE <<m, n>> \in OpToRel(<, Nat)
    BY <1>2, <2>1 DEF OpToRel
  <2> QED
    BY <1>1, <2>1, Zenon
<1>4. n \in 1 .. N /\ n - 1 < n /\ n - 1 \notin T
  BY <1>3
<1> QED
  BY <1>4

\* The loop of vip_m3u_load goes from line to line.
LEMMA ReadingSteps ==
  ASSUME NEW source, NEW lines, Len(lines) \in Nat
  PROVE  /\ Reading(source, lines)[0] = NothingRead
         /\ \A n \in 1 .. Len(lines) :
              Reading(source, lines)[n] = ReadLine(source, Reading(source, lines)[n - 1], lines[n])
<1> DEFINE Next1(st, n) == ReadLine(source, st, lines[n])
           Loop(n, f) == f = [m \in 0 .. n |-> IF m = 0 THEN NothingRead ELSE Next1(f[m - 1], m)]
           T == {n \in 0 .. Len(lines) : ~ \E f : Loop(n, f)}
<1>1. Reading(source, lines) = CHOOSE f : Loop(Len(lines), f)
  BY DEF Reading
<1> HIDE DEF Next1
<1>2. 0 \notin T
  <2>1. Loop(0, [m \in 0 .. 0 |-> NothingRead])
    OBVIOUS
  <2> QED
    BY <2>1
<1>3. ASSUME NEW n \in 1 .. Len(lines), n - 1 \notin T PROVE n \notin T
  <2>1. PICK f : Loop(n - 1, f)
    BY <1>3
  <2> DEFINE g == [m \in 0 .. n |-> IF m = n THEN Next1(f[n - 1], n) ELSE f[m]]
  <2>2. \A m \in 0 .. n - 1 : g[m] = IF m = 0 THEN NothingRead ELSE Next1(f[m - 1], m)
    BY <2>1
  <2>3. \A m \in 1 .. n : g[m - 1] = f[m - 1]
    OBVIOUS
  <2>4. g[n] = Next1(g[n - 1], n)
    BY <2>3
  <2>5. \A m \in 0 .. n : g[m] = IF m = 0 THEN NothingRead ELSE Next1(g[m - 1], m)
    <3> HIDE DEF g
    <3>1. ASSUME NEW m \in 0 .. n PROVE m = n \/ m \in 0 .. n - 1
      BY <3>1
    <3> QED
      BY <2>2, <2>3, <2>4, <3>1
  <2>6. Loop(n, g)
    BY <2>5
  <2> QED
    BY <2>6
<1>4. T = {}
  BY <1>2, <1>3, NoFirstFailure
<1>5. Loop(Len(lines), Reading(source, lines))
  BY <1>1, <1>4
<1> DEFINE r == Reading(source, lines)
<1>6. \A m \in 0 .. Len(lines) : r[m] = IF m = 0 THEN NothingRead ELSE Next1(r[m - 1], m)
  BY <1>5
<1> QED
  BY <1>6 DEF Next1

\* The loop over a list copies from element to element.
LEMMA CopyingSteps ==
  ASSUME NEW list, NEW S, Len(list) \in Nat
  PROVE  /\ Copying(list, S)[0] = <<>>
         /\ \A n \in 1 .. Len(list) :
              Copying(list, S)[n] = IF list[n] \in S THEN Append(Copying(list, S)[n - 1], list[n])
                                    ELSE Copying(list, S)[n - 1]
<1> DEFINE Next1(copy, n) == IF list[n] \in S THEN Append(copy, list[n]) ELSE copy
           Loop(n, f) == f = [m \in 0 .. n |-> IF m = 0 THEN <<>> ELSE Next1(f[m - 1], m)]
           T == {n \in 0 .. Len(list) : ~ \E f : Loop(n, f)}
<1>1. Copying(list, S) = CHOOSE f : Loop(Len(list), f)
  BY DEF Copying
<1> HIDE DEF Next1
<1>2. 0 \notin T
  <2>1. Loop(0, [m \in 0 .. 0 |-> <<>>])
    OBVIOUS
  <2> QED
    BY <2>1
<1>3. ASSUME NEW n \in 1 .. Len(list), n - 1 \notin T PROVE n \notin T
  <2>1. PICK f : Loop(n - 1, f)
    BY <1>3
  <2> DEFINE g == [m \in 0 .. n |-> IF m = n THEN Next1(f[n - 1], n) ELSE f[m]]
  <2>2. \A m \in 0 .. n - 1 : g[m] = IF m = 0 THEN <<>> ELSE Next1(f[m - 1], m)
    BY <2>1
  <2>3. \A m \in 1 .. n : g[m - 1] = f[m - 1]
    OBVIOUS
  <2>4. g[n] = Next1(g[n - 1], n)
    BY <2>3
  <2>5. \A m \in 0 .. n : g[m] = IF m = 0 THEN <<>> ELSE Next1(g[m - 1], m)
    <3> HIDE DEF g
    <3>1. ASSUME NEW m \in 0 .. n PROVE m = n \/ m \in 0 .. n - 1
      BY <3>1
    <3> QED
      BY <2>2, <2>3, <2>4, <3>1
  <2>6. Loop(n, g)
    BY <2>5
  <2> QED
    BY <2>6
<1>4. T = {}
  BY <1>2, <1>3, NoFirstFailure
<1>5. Loop(Len(list), Copying(list, S))
  BY <1>1, <1>4
<1> DEFINE r == Copying(list, S)
<1>6. \A m \in 0 .. Len(list) : r[m] = IF m = 0 THEN <<>> ELSE Next1(r[m - 1], m)
  BY <1>5
<1> QED
  BY <1>6 DEF Next1

\* order lists the members of T, each once.
Enumerates(order, n, T) ==
  /\ order \in [1 .. n -> T]
  /\ \A i, j \in 1 .. n : order[i] = order[j] => i = j
  /\ \A t \in T : \E i \in 1 .. n : order[i] = t

\* more is order with x added at the end.
Extends(more, order, n, T, x) ==
  /\ Enumerates(more, n + 1, T \cup {x})
  /\ more[n + 1] = x
  /\ \A i \in 1 .. n : more[i] = order[i]

\* One more member is listed last.
LEMMA EnumerateMore ==
  ASSUME NEW n \in Nat, NEW T, NEW order, Enumerates(order, n, T), NEW x, x \notin T
  PROVE  \E more : Extends(more, order, n, T, x)
<1> DEFINE more == [i \in 1 .. n + 1 |-> IF i = n + 1 THEN x ELSE order[i]]
<1>1. more[n + 1] = x /\ \A i \in 1 .. n : more[i] = order[i] /\ more[i] \in T
  BY DEF Enumerates
<1>2. more \in [1 .. n + 1 -> T \cup {x}]
  BY DEF Enumerates
<1> HIDE DEF more
<1>3. \A i \in 1 .. n + 1 : i = n + 1 \/ i \in 1 .. n
  OBVIOUS
<1>4. \A i, j \in 1 .. n + 1 : more[i] = more[j] => i = j
  <2> SUFFICES ASSUME NEW i \in 1 .. n + 1, NEW j \in 1 .. n + 1, more[i] = more[j] PROVE i = j
    OBVIOUS
  <2>1. CASE i \in 1 .. n /\ j \in 1 .. n
    BY <1>1, <2>1 DEF Enumerates
  <2>2. CASE i = n + 1 \/ j = n + 1
    BY <1>1, <1>3, <2>2
  <2> QED
    BY <1>3, <2>1, <2>2
<1>5. \A t \in T \cup {x} : \E i \in 1 .. n + 1 : more[i] = t
  <2>1. ASSUME NEW t \in T PROVE \E i \in 1 .. n + 1 : more[i] = t
    <3>1. PICK i \in 1 .. n : order[i] = t
      BY DEF Enumerates
    <3> QED
      BY <1>1, <3>1
  <2> QED
    BY <1>1, <2>1
<1>6. Enumerates(more, n + 1, T \cup {x})
  BY <1>2, <1>4, <1>5 DEF Enumerates
<1> QED
  BY <1>1, <1>6 DEF Extends

\* A copy lists the places of a list's members in S.
CopyOf(copy, list, S, n, order) ==
  /\ Len(copy) \in 0 .. n
  /\ copy \in Seq(ToSet(list))
  /\ Enumerates(order, Len(copy), {i \in 1 .. n : list[i] \in S})
  /\ \A j \in 1 .. Len(copy) : copy[j] = list[order[j]]

\* The next element is copied if it is in S.
LEMMA CopyMore ==
  ASSUME NEW list, NEW S, list \in Seq(ToSet(list)), NEW n \in 1 .. Len(list),
         NEW copy, NEW order, CopyOf(copy, list, S, n - 1, order), list[n] \in S
  PROVE  \E more : CopyOf(Append(copy, list[n]), list, S, n, more)
<1> DEFINE M(m) == {i \in 1 .. m : list[i] \in S}
           new == Append(copy, list[n])
<1>1. M(n) = M(n - 1) \cup {n} /\ n \notin M(n - 1)
  OBVIOUS
<1>2. /\ Len(copy) \in 0 .. n - 1 /\ copy \in Seq(ToSet(list))
      /\ Enumerates(order, Len(copy), M(n - 1))
      /\ \A j \in 1 .. Len(copy) : copy[j] = list[order[j]]
  BY DEF CopyOf
<1>3. /\ Len(new) = Len(copy) + 1 /\ new \in Seq(ToSet(list))
      /\ new[Len(copy) + 1] = list[n] /\ \A j \in 1 .. Len(copy) : new[j] = copy[j]
  BY <1>2
<1>4. PICK more : Extends(more, order, Len(copy), M(n - 1), n)
  <2>1. Len(copy) \in Nat
    BY <1>2
  <2> HIDE DEF M
  <2> QED
    BY <2>1, <1>1, <1>2, EnumerateMore, Zenon
<1> HIDE DEF M, new
<1>5. \A j \in 1 .. Len(new) : new[j] = list[more[j]]
  <2>1. \A j \in 1 .. Len(copy) : new[j] = list[more[j]]
    BY <1>2, <1>3, <1>4 DEF Extends
  <2>2. new[Len(copy) + 1] = list[more[Len(copy) + 1]]
    BY <1>3, <1>4 DEF Extends
  <2>3. \A j \in 1 .. Len(new) : j \in 1 .. Len(copy) \/ j = Len(copy) + 1
    BY <1>2, <1>3
  <2> QED
    BY <2>1, <2>2, <2>3
<1>6. Len(new) \in 0 .. n
  BY <1>2, <1>3
<1>7. CopyOf(new, list, S, n, more)
  BY <1>1, <1>3, <1>4, <1>5, <1>6 DEF CopyOf, Extends, M
<1> QED
  BY <1>7 DEF new

\* One that is not is passed over.
LEMMA CopySame ==
  ASSUME NEW list, NEW S, NEW n \in 1 .. Len(list), Len(list) \in Nat,
         NEW copy, NEW order, CopyOf(copy, list, S, n - 1, order), list[n] \notin S
  PROVE  CopyOf(copy, list, S, n, order)
<1>1. {i \in 1 .. n : list[i] \in S} = {i \in 1 .. n - 1 : list[i] \in S}
  OBVIOUS
<1>2. Len(copy) \in 0 .. n - 1 => Len(copy) \in 0 .. n
  OBVIOUS
<1> QED
  BY <1>1, <1>2, Zenon DEF CopyOf

\* So what is copied of a list are its members of S, each once.
LEMMA CopiedFrom ==
  ASSUME NEW list, NEW S, list \in Seq(ToSet(list))
  PROVE  \E order : CopyOf(Copied(list, S), list, S, Len(list), order)
<1> DEFINE C(n) == Copying(list, S)[n]
           T == {n \in 0 .. Len(list) : ~ \E order : CopyOf(C(n), list, S, n, order)}
<1>0. Len(list) \in Nat
  OBVIOUS
<1>1. 0 \notin T
  <2>1. C(0) = <<>>
    BY <1>0, CopyingSteps
  <2>2. CopyOf(<<>>, list, S, 0, <<>>)
    BY DEF CopyOf, Enumerates
  <2> QED
    BY <2>1, <2>2
<1>2. ASSUME NEW n \in 1 .. Len(list), n - 1 \notin T PROVE n \notin T
  <2>1. PICK order : CopyOf(C(n - 1), list, S, n - 1, order)
    BY <1>2
  <2>2. C(n) = IF list[n] \in S THEN Append(C(n - 1), list[n]) ELSE C(n - 1)
    BY <1>0, CopyingSteps
  <2> HIDE DEF C
  <2>3. CASE list[n] \notin S
    BY <1>0, <2>1, <2>2, <2>3, CopySame
  <2>4. CASE list[n] \in S
    BY <2>1, <2>2, <2>4, CopyMore
  <2> QED
    BY <2>3, <2>4
<1> HIDE DEF C
<1>3. T = {}
  BY <1>0, <1>1, <1>2, NoFirstFailure
<1> QED
  BY <1>0, <1>3 DEF C, Copied

\* A sequence is one of its own members.
LEMMA OfItsOwn ==
  ASSUME NEW C, NEW seq \in Seq(C)
  PROVE  seq \in Seq(ToSet(seq)) /\ DOMAIN seq = 1 .. Len(seq) /\ Len(seq) \in Nat
BY DEF ToSet

\* What appending does to the members.
LEMMA OneAppended ==
  ASSUME NEW seq, seq \in Seq(ToSet(seq)), NEW e, NEW new, new = Append(seq, e)
  PROVE  /\ new \in Seq(ToSet(new)) /\ Len(new) = Len(seq) + 1 /\ new[Len(seq) + 1] = e
         /\ \A i \in 1 .. Len(seq) : new[i] = seq[i]
         /\ ToSet(new) = ToSet(seq) \cup {e}
<1>1. seq \in Seq(ToSet(seq) \cup {e}) /\ Len(seq) \in Nat /\ DOMAIN seq = 1 .. Len(seq)
  OBVIOUS
<1>2. /\ new \in Seq(ToSet(seq) \cup {e}) /\ Len(new) = Len(seq) + 1 /\ new[Len(seq) + 1] = e
      /\ \A i \in 1 .. Len(seq) : new[i] = seq[i]
  BY <1>1
<1>3. new \in Seq(ToSet(new)) /\ DOMAIN new = 1 .. Len(seq) + 1
  BY <1>2, OfItsOwn
<1>4. ToSet(new) \subseteq ToSet(seq) \cup {e}
  BY <1>1, <1>2, <1>3 DEF ToSet
<1>5. ToSet(seq) \cup {e} \subseteq ToSet(new)
  BY <1>1, <1>2, <1>3 DEF ToSet
<1> QED
  BY <1>2, <1>3, <1>4, <1>5

\* The last of a set of lines, if it is known to be one of them.
LEMMA LatestIs ==
  ASSUME NEW set, set \subseteq Nat, NEW i \in set, \A j \in set : j <= i
  PROVE  Latest(set) = i
<1>1. Latest(set) \in set /\ \A j \in set : j <= Latest(set)
  BY Zenon DEF Latest
<1> DEFINE last == Latest(set)
<1> HIDE DEF last
<1>2. last \in set /\ last \in Nat /\ i \in Nat /\ last <= i /\ i <= last
  BY <1>1 DEF last
<1>3. last = i
  BY <1>2
<1> QED
  BY <1>3 DEF last

\* The fallback index that is in force before line i.
IndexBefore(lines, i) ==
  IF Before(lines, i, "index") = {} THEN None ELSE lines[Latest(Before(lines, i, "index"))].base

\* A line that names the index does so for the lines after it.
LEMMA IndexSteps ==
  ASSUME NEW lines
  PROVE  /\ IndexBefore(lines, 1) = None
         /\ \A n \in Nat \ {0} :
              IndexBefore(lines, n + 1) = IF lines[n].line = "index" THEN lines[n].base
                                          ELSE IndexBefore(lines, n)
<1>1. IndexBefore(lines, 1) = None
  BY DEF IndexBefore, Before
<1>2. ASSUME NEW n \in Nat \ {0}
      PROVE  IndexBefore(lines, n + 1) = IF lines[n].line = "index" THEN lines[n].base
                                         ELSE IndexBefore(lines, n)
  <2>1. CASE lines[n].line = "index"
    <3>1. /\ n \in Before(lines, n + 1, "index") /\ Before(lines, n + 1, "index") \subseteq Nat
          /\ \A j \in Before(lines, n + 1, "index") : j <= n
      BY <2>1 DEF Before
    <3>2. Latest(Before(lines, n + 1, "index")) = n
      BY <3>1, LatestIs
    <3> QED
      BY <2>1, <3>1, <3>2 DEF IndexBefore
  <2>2. CASE lines[n].line /= "index"
    <3>1. Before(lines, n + 1, "index") = Before(lines, n, "index")
      BY <2>2 DEF Before
    <3> QED
      BY <2>2, <3>1 DEF IndexBefore
  <2> QED
    BY <2>1, <2>2
<1> QED
  BY <1>1, <1>2

\* The tags that belong to an entry whose address would be line i.
Tags(lines, i) ==
  {j \in Before(lines, i, "extinf") : Before(lines, i, "stream") \cap (j .. i) = {}}

\* A tag is that of the next stream, unless another tag comes before it.
LEMMA TagSteps ==
  ASSUME NEW lines
  PROVE  /\ OwnTag(lines, 1) = NoTag
         /\ \A n \in Nat \ {0} :
              /\ lines[n].line = "extinf" => OwnTag(lines, n + 1) = lines[n]
              /\ lines[n].line = "stream" => OwnTag(lines, n + 1) = NoTag
              /\ lines[n].line \in {"index", "other"} => OwnTag(lines, n + 1) = OwnTag(lines, n)
<1>0. \A i : OwnTag(lines, i) = IF Tags(lines, i) = {} THEN NoTag ELSE lines[Latest(Tags(lines, i))]
  BY Zenon DEF OwnTag, Tags
<1>1. OwnTag(lines, 1) = NoTag
  <2>1. Before(lines, 1, "extinf") = {}
    BY DEF Before
  <2>2. Tags(lines, 1) = {}
    BY <2>1 DEF Tags
  <2> QED
    BY <1>0, <2>2
<1>2. ASSUME NEW n \in Nat \ {0}, lines[n].line = "extinf" PROVE OwnTag(lines, n + 1) = lines[n]
  <2>1. n \in Before(lines, n + 1, "extinf")
    BY <1>2 DEF Before
  <2>2. Before(lines, n + 1, "stream") \cap (n .. n + 1) = {}
    BY <1>2 DEF Before
  <2>3. /\ n \in Tags(lines, n + 1) /\ Tags(lines, n + 1) \subseteq Nat
        /\ \A j \in Tags(lines, n + 1) : j <= n
    BY <2>1, <2>2 DEF Tags, Before
  <2>4. Latest(Tags(lines, n + 1)) = n
    BY <2>3, LatestIs
  <2> QED
    BY <1>0, <2>3, <2>4
<1>3. ASSUME NEW n \in Nat \ {0}, lines[n].line = "stream" PROVE OwnTag(lines, n + 1) = NoTag
  <2>1. n \in Before(lines, n + 1, "stream")
    BY <1>3 DEF Before
  <2>2. Tags(lines, n + 1) = {}
    BY <2>1 DEF Tags, Before
  <2> QED
    BY <1>0, <2>2
<1>4. ASSUME NEW n \in Nat \ {0}, lines[n].line \in {"index", "other"}
      PROVE  OwnTag(lines, n + 1) = OwnTag(lines, n)
  <2>1. /\ Before(lines, n + 1, "extinf") = Before(lines, n, "extinf")
        /\ Before(lines, n + 1, "stream") = Before(lines, n, "stream")
    BY <1>4 DEF Before
  <2>2. \A j : Before(lines, n, "stream") \cap (j .. n + 1) =
                Before(lines, n, "stream") \cap (j .. n)
    BY DEF Before
  <2>3. Tags(lines, n + 1) = Tags(lines, n)
    BY <2>1, <2>2 DEF Tags
  <2> QED
    BY <1>0, <2>3
<1> QED
  BY <1>1, <1>2, <1>3, <1>4

\* The state of vip_m3u_load.
IsReading(st) ==
  \E categories, channels, ids, index, pending :
    st = [categories |-> categories, channels |-> channels, ids |-> ids, index |-> index,
          pending |-> pending]

\* What a tag says, or what stands for it.
GroupOf(tag) == IF tag.group = None THEN NoGroup ELSE tag.group
LabelOf(tag) == IF tag.label = None THEN <<"canal">> ELSE tag.label

\* What a stream line adds to what has been read.
StreamAdds(new, st, l, channel, identity, url) ==
  /\ IsReading(new)
  /\ new.categories = EnsureCategory(st.categories, channel.group)
  /\ new.channels = Append(st.channels, channel)
  /\ new.ids = st.ids \cup {channel.id}
  /\ new.index = st.index
  /\ new.pending = NoTag
  /\ channel.id = ChannelId(st.ids, identity, url, Len(st.channels))
  /\ Last(channel.url) = l.url
  /\ channel.group = GroupOf(st.pending)
  /\ channel.label = LabelOf(st.pending)
  /\ channel.fallback = IF st.pending.fallback = None THEN None
                        ELSE <<st.index, st.pending.fallback>>

\* A stream line adds one channel, made of the pending tag.
LEMMA StreamReads ==
  ASSUME NEW source, NEW st, NEW l, IsReading(st)
  PROVE  \E channel, identity, url :
           StreamAdds(ReadStream(source, st, l), st, l, channel, identity, url)
<1>1. PICK categories, channels, ids, index, pending :
         st = [categories |-> categories, channels |-> channels, ids |-> ids, index |-> index,
               pending |-> pending]
  BY DEF IsReading
<1> DEFINE url == ResolveUrl(source, l)
           identity == IF pending.tvg = None THEN url ELSE <<"tvg", pending.tvg>>
           id == ChannelId(ids, identity, url, Len(channels))
           fallback == IF pending.fallback = None THEN None ELSE <<index, pending.fallback>>
           channel == [id |-> id, url |-> url, group |-> GroupOf(pending),
                       label |-> LabelOf(pending), fallback |-> fallback]
           new == [categories |-> EnsureCategory(categories, GroupOf(pending)),
                   channels |-> Append(channels, channel), ids |-> ids \cup {id},
                   index |-> index, pending |-> NoTag]
<1>2. Last(url) = l.url
  BY DEF ResolveUrl, Last
<1>3. ReadStream(source, st, l) = new
  <2>1. \A a, b, c, d :
          [st EXCEPT !.categories = a, !.channels = b, !.ids = c, !.pending = d] =
          [categories |-> a, channels |-> b, ids |-> c, index |-> index, pending |-> d]
    <3> TAKE a, b, c, d
    <3>1. [st EXCEPT !.categories = a, !.channels = b, !.ids = c, !.pending = d] =
          [[[[st EXCEPT !.categories = a] EXCEPT !.channels = b] EXCEPT !.ids = c]
             EXCEPT !.pending = d]
      OBVIOUS
    <3>2. PICK one : one = [st EXCEPT !.categories = a]
      OBVIOUS
    <3>3. one = [categories |-> a, channels |-> channels, ids |-> ids, index |-> index,
                 pending |-> pending]
      BY <1>1, <3>2
    <3>4. PICK two : two = [one EXCEPT !.channels = b]
      OBVIOUS
    <3>5. two = [categories |-> a, channels |-> b, ids |-> ids, index |-> index,
                 pending |-> pending]
      BY <3>3, <3>4
    <3>6. PICK three : three = [two EXCEPT !.ids = c]
      OBVIOUS
    <3>7. three = [categories |-> a, channels |-> b, ids |-> c, index |-> index,
                   pending |-> pending]
      BY <3>5, <3>6
    <3>8. [three EXCEPT !.pending = d] =
          [categories |-> a, channels |-> b, ids |-> c, index |-> index, pending |-> d]
      BY <3>7
    <3> QED
      BY <3>1, <3>2, <3>4, <3>6, <3>8, Zenon
  <2>2. /\ st.categories = categories /\ st.channels = channels /\ st.ids = ids
        /\ st.index = index /\ st.pending = pending
    BY <1>1
  <2>3. ReadStream(source, st, l) =
          [st EXCEPT !.categories = EnsureCategory(categories, GroupOf(pending)),
                     !.channels = Append(channels, channel), !.ids = ids \cup {id},
                     !.pending = NoTag]
    <3>1. PICK g, t : g = GroupOf(pending) /\ t = LabelOf(pending)
      OBVIOUS
    <3>2. /\ g = IF pending.group = None THEN NoGroup ELSE pending.group
          /\ t = IF pending.label = None THEN <<"canal">> ELSE pending.label
      BY <3>1 DEF GroupOf, LabelOf
    <3>3. ReadStream(source, st, l) =
          [st EXCEPT !.categories = EnsureCategory(categories, g),
                     !.channels = Append(channels, [id |-> id, url |-> url, group |-> g,
                                                    label |-> t, fallback |-> fallback]),
                     !.ids = ids \cup {id},
                     !.pending = NoTag]
      BY <2>2, <3>2, ZenonT(60) DEF ReadStream
    <3> QED
      BY <3>1, <3>3, Zenon
  <2> QED
    BY <2>1, <2>3, Zenon
<1>4. IsReading(new)
  BY DEF IsReading
<1>5. StreamAdds(new, st, l, channel, identity, url)
  BY <1>1, <1>2, <1>4 DEF StreamAdds
<1> QED
  BY <1>3, <1>5

\* The channels are those of the streams among the first n lines.
EntriesOf(channels, lines, n, order) ==
  /\ channels \in Seq(ToSet(channels)) /\ Len(channels) \in 0 .. n
  /\ Enumerates(order, Len(channels), {i \in 1 .. n : lines[i].line = "stream"})
  /\ \A j \in 1 .. Len(channels) : IsEntry(channels[j], lines, order[j])

\* No two have the same identifier, unless it was cut, and one with a position
\* has one that is taken.
OwnIds(channels, ids) ==
  /\ \A i, j \in 1 .. Len(channels) :
       channels[i].id = channels[j].id /\ channels[i].id \notin Cuts => i = j
  /\ \A i \in 1 .. Len(channels) : channels[i].id \in ids
  /\ \A u, v, p : <<u, v, p>> \in ids \ Cuts => p \in Nat /\ p < Len(channels)

\* The categories are the groups of the channels.
GroupsOf(categories, channels) ==
  /\ categories \in Seq(ToSet(categories))
  /\ ToSet(categories) = {c.group : c \in ToSet(channels)}

\* What vip_m3u_load holds after n lines.
WellRead(st, lines, n, order) ==
  /\ IsReading(st)
  /\ EntriesOf(st.channels, lines, n, order)
  /\ OwnIds(st.channels, st.ids)
  /\ GroupsOf(st.categories, st.channels)
  /\ st.pending = OwnTag(lines, n + 1)
  /\ st.index = IndexBefore(lines, n + 1)

\* Before the first line there is nothing.
LEMMA NothingIsWellRead ==
  ASSUME NEW lines
  PROVE  WellRead(NothingRead, lines, 0, <<>>)
<1>1. IsReading(NothingRead)
  BY DEF NothingRead, IsReading
<1>2. EntriesOf(<<>>, lines, 0, <<>>)
  BY DEF EntriesOf, Enumerates, ToSet
<1>3. OwnIds(<<>>, {})
  BY DEF OwnIds
<1>4. GroupsOf(<<>>, <<>>)
  BY DEF GroupsOf, ToSet
<1>5. OwnTag(lines, 0 + 1) = NoTag /\ IndexBefore(lines, 0 + 1) = None
  BY TagSteps, IndexSteps
<1> QED
  BY <1>1, <1>2, <1>3, <1>4, <1>5 DEF WellRead, NothingRead

\* The channel of a stream line is added to those of the streams before it.
LEMMA EntryAdded ==
  ASSUME NEW lines, NEW n \in Nat \ {0}, NEW channels, NEW order,
         EntriesOf(channels, lines, n - 1, order), lines[n].line = "stream",
         NEW channel, IsEntry(channel, lines, n)
  PROVE  \E more : EntriesOf(Append(channels, channel), lines, n, more)
<1> DEFINE M(m) == {i \in 1 .. m : lines[i].line = "stream"}
<1>1. M(n) = M(n - 1) \cup {n} /\ n \notin M(n - 1)
  OBVIOUS
<1>2. /\ Len(channels) \in 0 .. n - 1 /\ channels \in Seq(ToSet(channels))
      /\ Enumerates(order, Len(channels), M(n - 1))
      /\ \A j \in 1 .. Len(channels) : IsEntry(channels[j], lines, order[j])
  BY Zenon DEF EntriesOf
<1>3. PICK new : new = Append(channels, channel)
  OBVIOUS
<1>4. /\ Len(new) = Len(channels) + 1 /\ new \in Seq(ToSet(new))
      /\ new[Len(channels) + 1] = channel
      /\ \A j \in 1 .. Len(channels) : new[j] = channels[j]
  <2>1. channels \in Seq(ToSet(channels))
    BY <1>2
  <2> HIDE DEF M
  <2>2. /\ Len(new) = Len(channels) + 1 /\ new[Len(channels) + 1] = channel
        /\ \A j \in 1 .. Len(channels) : new[j] = channels[j]
    BY <2>1, <1>3
  <2>3. new \in Seq(ToSet(new))
    BY <2>1, <1>3, OneAppended
  <2> QED
    BY <2>2, <2>3
<1>5. PICK more : Extends(more, order, Len(channels), M(n - 1), n)
  <2>1. Len(channels) \in Nat
    BY <1>2
  <2> HIDE DEF M
  <2> QED
    BY <2>1, <1>1, <1>2, EnumerateMore, Zenon
<1> HIDE DEF M
<1>6. ASSUME NEW j \in 1 .. Len(new) PROVE IsEntry(new[j], lines, more[j])
  <2>1. CASE j = Len(channels) + 1
    BY <1>4, <1>5, <2>1 DEF Extends
  <2>2. CASE j \in 1 .. Len(channels)
    BY <1>2, <1>4, <1>5, <2>2, Zenon DEF Extends
  <2>3. j = Len(channels) + 1 \/ j \in 1 .. Len(channels)
    BY <1>2, <1>4
  <2> QED
    BY <2>1, <2>2, <2>3
<1>7. Len(new) \in 0 .. n
  BY <1>2, <1>4
<1>8. Enumerates(more, Len(new), {i \in 1 .. n : lines[i].line = "stream"})
  BY <1>1, <1>4, <1>5 DEF Extends, M
<1>9. EntriesOf(new, lines, n, more)
  BY <1>4, <1>6, <1>7, <1>8, Zenon DEF EntriesOf
<1> QED
  BY <1>3, <1>9

\* A line of another kind adds none.
LEMMA EntriesKept ==
  ASSUME NEW lines, NEW n \in Nat \ {0}, NEW channels, NEW order,
         EntriesOf(channels, lines, n - 1, order), lines[n].line /= "stream"
  PROVE  EntriesOf(channels, lines, n, order)
<1>1. {i \in 1 .. n : lines[i].line = "stream"} = {i \in 1 .. n - 1 : lines[i].line = "stream"}
  OBVIOUS
<1>2. Len(channels) \in 0 .. n - 1 => Len(channels) \in 0 .. n
  OBVIOUS
<1> QED
  BY <1>1, <1>2, Zenon DEF EntriesOf

\* ChannelId gives an identifier that nobody has, or a cut one.
LEMMA IdAdded ==
  ASSUME NEW channels, channels \in Seq(ToSet(channels)), NEW ids, OwnIds(channels, ids),
         NEW channel, NEW identity, NEW url,
         channel.id = ChannelId(ids, identity, url, Len(channels))
  PROVE  OwnIds(Append(channels, channel), ids \cup {channel.id})
<1>1. PICK new : new = Append(channels, channel)
  OBVIOUS
<1>2. /\ Len(channels) \in Nat /\ Len(new) = Len(channels) + 1
      /\ new[Len(channels) + 1] = channel
      /\ \A j \in 1 .. Len(channels) : new[j] = channels[j]
  BY <1>1, OneAppended
<1>3. PICK id : id = channel.id
  OBVIOUS
<1>4. \/ id = <<identity>> /\ id \notin ids
      \/ id = <<identity, url, Len(channels)>>
      \/ id \in Cuts
  BY <1>3 DEF ChannelId, Disambiguated, Cuts
<1>5. id \notin ids \/ id \in Cuts
  BY <1>2, <1>4 DEF OwnIds
<1>6. \A i, j \in 1 .. Len(new) : new[i].id = new[j].id /\ new[i].id \notin Cuts => i = j
  <2> SUFFICES ASSUME NEW i \in 1 .. Len(new), NEW j \in 1 .. Len(new), new[i].id = new[j].id,
                      new[i].id \notin Cuts
               PROVE  i = j
    OBVIOUS
  <2>1. CASE i \in 1 .. Len(channels) /\ j \in 1 .. Len(channels)
    BY <1>2, <2>1 DEF OwnIds
  <2>2. CASE i \in 1 .. Len(channels) /\ j = Len(channels) + 1
    <3>1. new[i].id \in ids /\ new[j].id = id
      BY <1>2, <1>3, <2>2 DEF OwnIds
    <3> QED
      BY <3>1, <1>5
  <2>3. CASE i = Len(channels) + 1 /\ j \in 1 .. Len(channels)
    <3>1. new[j].id \in ids /\ new[i].id = id
      BY <1>2, <1>3, <2>3 DEF OwnIds
    <3> QED
      BY <3>1, <1>5
  <2> QED
    BY <1>2, <2>1, <2>2, <2>3
<1>7. \A i \in 1 .. Len(new) : new[i].id \in ids \cup {id}
  BY <1>2, <1>3 DEF OwnIds
<1>8. ASSUME NEW u, NEW v, NEW p, <<u, v, p>> \in (ids \cup {id}) \ Cuts
      PROVE  p \in Nat /\ p < Len(new)
  <2>1. CASE <<u, v, p>> \in ids
    BY <1>2, <1>8, <2>1 DEF OwnIds
  <2>2. CASE <<u, v, p>> = id
    <3>1. id /= <<identity>>
      BY <2>2
    <3>2. <<u, v, p>> = <<identity, url, Len(channels)>>
      BY <1>4, <1>8, <2>2, <3>1, Zenon
    <3>3. p = Len(channels)
      BY <3>2
    <3> QED
      BY <1>2, <3>3
  <2> QED
    BY <1>8, <2>1, <2>2
<1> QED
  BY <1>1, <1>3, <1>6, <1>7, <1>8 DEF OwnIds

\* ensure_category adds the group of the channel that is added, if it is new.
LEMMA GroupAdded ==
  ASSUME NEW categories, NEW channels, channels \in Seq(ToSet(channels)),
         GroupsOf(categories, channels), NEW channel
  PROVE  GroupsOf(EnsureCategory(categories, channel.group), Append(channels, channel))
<1> DEFINE group == channel.group
<1>1. PICK new : new = Append(channels, channel)
  OBVIOUS
<1>2. ToSet(new) = ToSet(channels) \cup {channel}
  BY <1>1, OneAppended
<1>3. {c.group : c \in ToSet(new)} = {c.group : c \in ToSet(channels)} \cup {group}
  BY <1>2
<1>4. categories \in Seq(ToSet(categories)) /\ ToSet(categories) = {c.group : c \in ToSet(channels)}
  BY DEF GroupsOf
<1>5. PICK cats : cats = EnsureCategory(categories, group)
  OBVIOUS
<1> HIDE DEF group
<1>6. CASE Contains(categories, group)
  <2>1. group \in ToSet(categories)
    BY <1>4, <1>6, OfItsOwn DEF Contains, ToSet
  <2>2. cats = categories
    BY <1>5, <1>6 DEF EnsureCategory
  <2> QED
    BY <2>1, <2>2, <1>1, <1>3, <1>4, <1>5 DEF GroupsOf, group
<1>7. CASE ~ Contains(categories, group)
  <2>1. cats = Append(categories, group)
    BY <1>5, <1>7 DEF EnsureCategory
  <2>2. cats \in Seq(ToSet(cats)) /\ ToSet(cats) = ToSet(categories) \cup {group}
    BY <2>1, <1>4, OneAppended
  <2> QED
    BY <2>2, <1>1, <1>3, <1>4, <1>5 DEF GroupsOf, group
<1> QED
  BY <1>6, <1>7

\* An EXTINF line is the pending tag of the next stream.
LEMMA TagRead ==
  ASSUME NEW lines, NEW n \in Nat \ {0}, NEW st, NEW order, WellRead(st, lines, n - 1, order),
         lines[n].line = "extinf"
  PROVE  WellRead([st EXCEPT !.pending = lines[n]], lines, n, order)
<1>0. n - 1 + 1 = n
  OBVIOUS
<1>1. PICK categories, channels, ids, index, pending :
         st = [categories |-> categories, channels |-> channels, ids |-> ids, index |-> index,
               pending |-> pending]
  BY DEF WellRead, IsReading
<1>2. PICK new : new = [st EXCEPT !.pending = lines[n]]
  OBVIOUS
<1>3. new = [categories |-> categories, channels |-> channels, ids |-> ids, index |-> index,
             pending |-> lines[n]]
  BY <1>1, <1>2
<1>4. /\ new.categories = st.categories /\ new.channels = st.channels /\ new.ids = st.ids
      /\ new.index = st.index /\ new.pending = lines[n]
  BY <1>1, <1>3
<1>5. IsReading(new)
  BY <1>3 DEF IsReading
<1>6. EntriesOf(st.channels, lines, n, order)
  BY EntriesKept DEF WellRead
<1>7. OwnTag(lines, n + 1) = lines[n]
  BY TagSteps
<1>8. IndexBefore(lines, n + 1) = IndexBefore(lines, n)
  BY IndexSteps
<1> QED
  BY <1>0, <1>2, <1>4, <1>5, <1>6, <1>7, <1>8 DEF WellRead

\* The header names the index of the streams that follow.
LEMMA IndexRead ==
  ASSUME NEW lines, NEW n \in Nat \ {0}, NEW st, NEW order, WellRead(st, lines, n - 1, order),
         lines[n].line = "index"
  PROVE  WellRead([st EXCEPT !.index = lines[n].base], lines, n, order)
<1>0. n - 1 + 1 = n
  OBVIOUS
<1>1. PICK categories, channels, ids, index, pending :
         st = [categories |-> categories, channels |-> channels, ids |-> ids, index |-> index,
               pending |-> pending]
  BY DEF WellRead, IsReading
<1>2. PICK new : new = [st EXCEPT !.index = lines[n].base]
  OBVIOUS
<1>3. new = [categories |-> categories, channels |-> channels, ids |-> ids,
             index |-> lines[n].base, pending |-> pending]
  BY <1>1, <1>2
<1>4. /\ new.categories = st.categories /\ new.channels = st.channels /\ new.ids = st.ids
      /\ new.index = lines[n].base /\ new.pending = st.pending
  BY <1>1, <1>3
<1>5. IsReading(new)
  BY <1>3 DEF IsReading
<1>6. EntriesOf(st.channels, lines, n, order)
  BY EntriesKept DEF WellRead
<1>7. OwnTag(lines, n + 1) = OwnTag(lines, n)
  BY TagSteps
<1>8. IndexBefore(lines, n + 1) = lines[n].base
  BY IndexSteps
<1> QED
  BY <1>0, <1>2, <1>4, <1>5, <1>6, <1>7, <1>8 DEF WellRead

\* Any other line is skipped.
LEMMA OtherRead ==
  ASSUME NEW lines, NEW n \in Nat \ {0}, NEW st, NEW order, WellRead(st, lines, n - 1, order),
         lines[n].line = "other"
  PROVE  WellRead(st, lines, n, order)
<1>0. n - 1 + 1 = n
  OBVIOUS
<1>1. EntriesOf(st.channels, lines, n, order)
  BY EntriesKept DEF WellRead
<1>2. OwnTag(lines, n + 1) = OwnTag(lines, n)
  BY TagSteps
<1>3. IndexBefore(lines, n + 1) = IndexBefore(lines, n)
  BY IndexSteps
<1> QED
  BY <1>0, <1>1, <1>2, <1>3 DEF WellRead

\* A stream line takes the pending tag, and leaves none.
LEMMA StreamRead ==
  ASSUME NEW source, NEW lines, NEW n \in Nat \ {0}, NEW st, NEW order,
         WellRead(st, lines, n - 1, order), lines[n].line = "stream",
         NEW new, new = ReadStream(source, st, lines[n])
  PROVE  \E more : WellRead(new, lines, n, more)
<1>0. n - 1 + 1 = n
  OBVIOUS
<1>2. PICK channel, identity, url : StreamAdds(new, st, lines[n], channel, identity, url)
  <2>1. IsReading(st)
    BY DEF WellRead
  <2> QED
    BY <2>1, StreamReads, Zenon
<1>3. /\ EntriesOf(st.channels, lines, n - 1, order)
      /\ OwnIds(st.channels, st.ids) /\ GroupsOf(st.categories, st.channels)
      /\ st.pending = OwnTag(lines, n) /\ st.index = IndexBefore(lines, n)
      /\ st.channels \in Seq(ToSet(st.channels))
  BY <1>0 DEF WellRead, EntriesOf
<1>4. IsEntry(channel, lines, n)
  BY <1>2, <1>3, Zenon DEF StreamAdds, IsEntry, GroupOf, LabelOf, IndexBefore
<1>5. PICK more : EntriesOf(new.channels, lines, n, more)
  BY <1>2, <1>3, <1>4, EntryAdded DEF StreamAdds
<1>6. OwnIds(new.channels, new.ids)
  <2>1. PICK ids, len : ids = st.ids /\ len = Len(st.channels)
    OBVIOUS
  <2> QED
    BY <1>2, <1>3, IdAdded DEF StreamAdds
<1>7. GroupsOf(new.categories, new.channels)
  BY <1>2, <1>3, GroupAdded DEF StreamAdds
<1>8. OwnTag(lines, n + 1) = NoTag
  BY TagSteps
<1>9. IndexBefore(lines, n + 1) = IndexBefore(lines, n)
  BY IndexSteps
<1>10. WellRead(new, lines, n, more)
  BY <1>2, <1>3, <1>5, <1>6, <1>7, <1>8, <1>9 DEF WellRead, StreamAdds
<1> QED
  BY <1>10

\* vip_m3u_load: one channel for each stream, as its own entry says.
LEMMA PlaylistIsWellRead ==
  ASSUME NEW source, NEW lines, Len(lines) \in Nat,
         \A n \in 1 .. Len(lines) : lines[n].line \in LineKind
  PROVE  \E order : WellRead(LoadPlaylist(source, lines), lines, Len(lines), order)
<1> DEFINE R(n) == Reading(source, lines)[n]
           T == {n \in 0 .. Len(lines) : ~ \E order : WellRead(R(n), lines, n, order)}
<1>1. 0 \notin T
  <2>1. R(0) = NothingRead
    BY ReadingSteps
  <2> QED
    BY <2>1, NothingIsWellRead
<1>2. ASSUME NEW n \in 1 .. Len(lines), n - 1 \notin T PROVE n \notin T
  <2>1. PICK order : WellRead(R(n - 1), lines, n - 1, order)
    BY <1>2
  <2>2. R(n) = ReadLine(source, R(n - 1), lines[n])
    BY ReadingSteps
  <2>3. PICK st, new : st = R(n - 1) /\ new = R(n)
    OBVIOUS
  <2> HIDE DEF R
  <2>4. WellRead(st, lines, n - 1, order) /\ new = ReadLine(source, st, lines[n])
    BY <2>1, <2>2, <2>3, Zenon
  <2>5. \E more : WellRead(new, lines, n, more)
    <3>1. CASE lines[n].line = "extinf"
      <4>1. new = [st EXCEPT !.pending = lines[n]]
        BY <2>4, <3>1 DEF ReadLine
      <4> QED
        BY <2>4, <3>1, <4>1, TagRead
    <3>2. CASE lines[n].line = "index"
      <4>1. new = [st EXCEPT !.index = lines[n].base]
        BY <2>4, <3>2 DEF ReadLine
      <4> QED
        BY <2>4, <3>2, <4>1, IndexRead
    <3>3. CASE lines[n].line = "stream"
      <4>1. new = ReadStream(source, st, lines[n])
        BY <2>4, <3>3 DEF ReadLine
      <4>2. n \in Nat \ {0}
        OBVIOUS
      <4> QED
        BY <2>4, <3>3, <4>1, <4>2, StreamRead, Zenon
    <3>4. CASE lines[n].line = "other"
      <4>1. new = st
        BY <2>4, <3>4 DEF ReadLine
      <4> QED
        BY <2>4, <3>4, <4>1, OtherRead
    <3> QED
      BY <3>1, <3>2, <3>3, <3>4 DEF LineKind
  <2> QED
    BY <2>3, <2>5, Zenon
<1> HIDE DEF R
<1>3. T = {}
  BY <1>1, <1>2, NoFirstFailure
<1> QED
  BY <1>3 DEF R, LoadPlaylist

\* Two sets with a one-to-one correspondence have as many members.
LEMMA SameNumber ==
  ASSUME NEW A, NEW B, IsFiniteSet(B), NEW f \in [A -> B],
         \A a, b \in A : f[a] = f[b] => a = b,
         \A b \in B : \E a \in A : f[a] = b
  PROVE  Cardinality(A) = Cardinality(B)
<1> DEFINE g == [b \in B |-> CHOOSE a \in A : f[a] = b]
<1>1. \A b \in B : g[b] \in A /\ f[g[b]] = b
  OBVIOUS
<1>2. g \in [B -> A]
  BY <1>1
<1> HIDE DEF g
<1>3. g \in Injection(B, A)
  BY <1>1, <1>2 DEF Injection, IsInjective
<1>4. \A a \in A : g[f[a]] = a
  BY <1>1
<1>5. g \in Surjection(B, A)
  BY <1>2, <1>4 DEF Surjection
<1>6. ExistsBijection(B, A)
  BY <1>3, <1>5 DEF ExistsBijection, Bijection
<1> QED
  BY <1>6, FS_Bijection

\* The streams of a playlist are some of its lines.
LEMMA StreamsAreFinite ==
  ASSUME NEW lines, lines \in Seq(ToSet(lines))
  PROVE  /\ IsFiniteSet(Streams(lines))
         /\ Streams(lines) = {i \in 1 .. Len(lines) : lines[i].line = "stream"}
<1>1. Len(lines) \in Nat /\ DOMAIN lines = 1 .. Len(lines)
  OBVIOUS
<1>2. Streams(lines) \in SUBSET (1 .. Len(lines))
  BY <1>1 DEF Streams
<1>3. IsFiniteSet(1 .. Len(lines))
  BY <1>1, FS_Interval
<1>4. IsFiniteSet(Streams(lines))
  BY <1>2, <1>3, FS_Subset
<1> QED
  BY <1>1, <1>4 DEF Streams

\* origin says of each place of a list which of the channels is there.
SplitFrom(lists, channels, origin) ==
  \A k \in ContentKind :
    /\ Len(lists[k].channels) \in 0 .. Len(channels)
    /\ DOMAIN lists[k].channels = 1 .. Len(lists[k].channels)
    /\ \A q \in 1 .. Len(lists[k].channels) :
         /\ origin[k][q] \in 1 .. Len(channels)
         /\ KindOf(channels[origin[k][q]]) = k
         /\ lists[k].channels[q] = channels[origin[k][q]]
    /\ \A q, r \in 1 .. Len(lists[k].channels) : origin[k][q] = origin[k][r] => q = r
    /\ \A i \in 1 .. Len(channels) :
         KindOf(channels[i]) = k => \E q \in 1 .. Len(lists[k].channels) : origin[k][q] = i

\* vip_m3u_split_catalog copies each channel to the list of its kind.
LEMMA SplitHasOrigin ==
  ASSUME NEW categories, NEW channels, channels \in Seq(ToSet(channels))
  PROVE  \E origin : SplitFrom(SplitCatalog(categories, channels), channels, origin)
<1> DEFINE lists == SplitCatalog(categories, channels)
           N == Len(channels)
           IsOrigin(k, order) ==
             CopyOf(lists[k].channels, channels, ChannelsOfKind(channels, k), N, order)
           origin == [k \in ContentKind |-> CHOOSE order : IsOrigin(k, order)]
<1>1. \A k \in ContentKind :
        lists[k].channels = Copied(channels, ChannelsOfKind(channels, k))
  BY DEF SplitCatalog
<1>2. \A k \in ContentKind : IsOrigin(k, origin[k])
  BY <1>1, CopiedFrom
<1> HIDE DEF lists, origin
<1>3. ASSUME NEW k \in ContentKind
      PROVE  /\ Len(lists[k].channels) \in 0 .. Len(channels)
             /\ DOMAIN lists[k].channels = 1 .. Len(lists[k].channels)
             /\ \A q \in 1 .. Len(lists[k].channels) :
                  /\ origin[k][q] \in 1 .. Len(channels)
                  /\ KindOf(channels[origin[k][q]]) = k
                  /\ lists[k].channels[q] = channels[origin[k][q]]
             /\ \A q, r \in 1 .. Len(lists[k].channels) : origin[k][q] = origin[k][r] => q = r
             /\ \A i \in 1 .. Len(channels) :
                  KindOf(channels[i]) = k =>
                    \E q \in 1 .. Len(lists[k].channels) : origin[k][q] = i
  <2>1. PICK list, order : list = lists[k].channels /\ order = origin[k]
    OBVIOUS
  <2>2. CopyOf(list, channels, ChannelsOfKind(channels, k), N, order)
    BY <1>2, <2>1
  <2>3. \A i \in 1 .. N : channels[i] \in ChannelsOfKind(channels, k) <=> KindOf(channels[i]) = k
    BY DEF ChannelsOfKind, ToSet
  <2>4. {i \in 1 .. N : channels[i] \in ChannelsOfKind(channels, k)} =
        {i \in 1 .. N : KindOf(channels[i]) = k}
    BY <2>3
  <2>5. /\ Len(list) \in 0 .. N /\ list \in Seq(ToSet(channels))
        /\ Enumerates(order, Len(list), {i \in 1 .. N : KindOf(channels[i]) = k})
        /\ \A q \in 1 .. Len(list) : list[q] = channels[order[q]]
    BY <2>2, <2>4, Zenon DEF CopyOf
  <2>6. DOMAIN list = 1 .. Len(list)
    BY <2>5
  <2>7. \A q \in 1 .. Len(list) : order[q] \in 1 .. N /\ KindOf(channels[order[q]]) = k
    BY <2>5 DEF Enumerates
  <2>8. /\ \A q, r \in 1 .. Len(list) : order[q] = order[r] => q = r
        /\ \A i \in 1 .. N : KindOf(channels[i]) = k => \E q \in 1 .. Len(list) : order[q] = i
    BY <2>5 DEF Enumerates
  <2> QED
    BY <2>1, <2>5, <2>6, <2>7, <2>8
<1>4. SplitFrom(lists, channels, origin)
  BY <1>3 DEF SplitFrom
<1> QED
  BY <1>4 DEF lists

\* The members of a copy are the list's members of the set.
LEMMA CopiedMembers ==
  ASSUME NEW list, NEW S, list \in Seq(ToSet(list))
  PROVE  ToSet(Copied(list, S)) = ToSet(list) \cap S
<1>1. PICK copy, order : copy = Copied(list, S) /\ CopyOf(copy, list, S, Len(list), order)
  BY CopiedFrom
<1>2. /\ DOMAIN copy = 1 .. Len(copy) /\ DOMAIN list = 1 .. Len(list)
      /\ \A j \in 1 .. Len(copy) : copy[j] = list[order[j]]
  BY <1>1 DEF CopyOf
<1>3. /\ \A j \in 1 .. Len(copy) : order[j] \in 1 .. Len(list) /\ list[order[j]] \in S
      /\ \A i \in 1 .. Len(list) : list[i] \in S => \E j \in 1 .. Len(copy) : order[j] = i
  BY <1>1 DEF CopyOf, Enumerates
<1>4. ToSet(copy) \subseteq ToSet(list) \cap S
  BY <1>2, <1>3 DEF ToSet
<1>5. ASSUME NEW e \in ToSet(list) \cap S PROVE e \in ToSet(copy)
  <2>1. PICK i \in 1 .. Len(list) : list[i] = e
    BY <1>2 DEF ToSet
  <2>2. PICK j \in 1 .. Len(copy) : order[j] = i
    BY <1>3, <2>1
  <2>3. copy[j] = e
    BY <1>2, <2>1, <2>2
  <2> QED
    BY <1>2, <2>3 DEF ToSet
<1> QED
  BY <1>1, <1>4, <1>5

\* vip_m3u_split_catalog keeps what vip_m3u_load has read.
LEMMA SplitIsExact ==
  ASSUME NEW lines, lines \in Seq(ToSet(lines)), NEW st, NEW order,
         WellRead(st, lines, Len(lines), order)
  PROVE  CatalogsExact(lines, SplitCatalog(st.categories, st.channels))
<1>1. PICK channels, lists : channels = st.channels /\ lists = SplitCatalog(st.categories, channels)
  OBVIOUS
<1>2. /\ channels \in Seq(ToSet(channels)) /\ Len(channels) \in 0 .. Len(lines)
      /\ Enumerates(order, Len(channels), Streams(lines))
      /\ \A j \in 1 .. Len(channels) : IsEntry(channels[j], lines, order[j])
  BY <1>1, StreamsAreFinite DEF WellRead, EntriesOf
<1>3. \A i, j \in 1 .. Len(channels) :
        channels[i].id = channels[j].id /\ channels[i].id \notin Cuts => i = j
  BY <1>1 DEF WellRead, OwnIds
<1>4. PICK origin : SplitFrom(lists, channels, origin)
  BY <1>1, <1>2, SplitHasOrigin
<1> DEFINE places == {q \in ContentKind \X (1 .. Len(lines)) : q[2] \in DOMAIN lists[q[1]].channels}
           At(p) == lists[p[1]].channels[p[2]]
           From(p) == origin[p[1]][p[2]]
<1>5. ASSUME NEW p \in places
      PROVE  /\ p[1] \in ContentKind /\ p[2] \in 1 .. Len(lists[p[1]].channels)
             /\ From(p) \in 1 .. Len(channels) /\ At(p) = channels[From(p)]
             /\ KindOf(channels[From(p)]) = p[1] /\ p = <<p[1], p[2]>>
  <2>1. p[1] \in ContentKind /\ p[2] \in DOMAIN lists[p[1]].channels /\ p = <<p[1], p[2]>>
    OBVIOUS
  <2> QED
    BY <2>1, <1>4 DEF SplitFrom
<1>6. ASSUME NEW p \in places, NEW q \in places, From(p) = From(q) PROVE p = q
  <2>1. p[1] = q[1]
    BY <1>5, <1>6
  <2>2. PICK k \in ContentKind : k = p[1] /\ k = q[1]
    BY <1>5, <2>1
  <2>3. \A i, j \in 1 .. Len(lists[k].channels) : origin[k][i] = origin[k][j] => i = j
    BY <1>4 DEF SplitFrom
  <2>4. p[2] \in 1 .. Len(lists[k].channels) /\ q[2] \in 1 .. Len(lists[k].channels)
    BY <1>5, <2>2
  <2>5. origin[k][p[2]] = origin[k][q[2]]
    BY <1>6, <2>2
  <2>6. p[2] = q[2]
    BY <2>3, <2>4, <2>5
  <2> QED
    BY <1>5, <2>1, <2>6
<1>7. ASSUME NEW i \in 1 .. Len(channels)
      PROVE  \E p \in places : From(p) = i /\ p[1] = KindOf(channels[i])
  <2>1. PICK k \in ContentKind : k = KindOf(channels[i])
    BY DEF KindOf, ClassifyGroup, ContentKind
  <2>2. /\ Len(lists[k].channels) \in 0 .. Len(channels)
        /\ DOMAIN lists[k].channels = 1 .. Len(lists[k].channels)
    BY <1>4 DEF SplitFrom
  <2>3. PICK q \in 1 .. Len(lists[k].channels) : origin[k][q] = i
    BY <1>4, <2>1 DEF SplitFrom
  <2>4. q \in 1 .. Len(lines)
    BY <1>2, <2>2, <2>3
  <2>5. <<k, q>> \in places
    BY <2>2, <2>3, <2>4
  <2> QED
    BY <2>1, <2>3, <2>5
<1> HIDE DEF places
<1>8. Cardinality(places) = Cardinality(Streams(lines))
  <2> DEFINE f == [p \in places |-> order[From(p)]]
  <2>1. f \in [places -> Streams(lines)]
    BY <1>2, <1>5 DEF Enumerates
  <2>2. \A p, q \in places : f[p] = f[q] => p = q
    <3> SUFFICES ASSUME NEW p \in places, NEW q \in places, f[p] = f[q] PROVE p = q
      OBVIOUS
    <3>1. PICK i, j : i = From(p) /\ j = From(q)
      OBVIOUS
    <3>2. i \in 1 .. Len(channels) /\ j \in 1 .. Len(channels)
      BY <1>5, <3>1
    <3>3. order[i] = order[j]
      BY <3>1
    <3>4. i = j
      BY <1>2, <3>2, <3>3 DEF Enumerates
    <3> QED
      BY <1>6, <3>1, <3>4
  <2>3. ASSUME NEW s \in Streams(lines) PROVE \E p \in places : f[p] = s
    <3>1. PICK i \in 1 .. Len(channels) : order[i] = s
      BY <1>2 DEF Enumerates
    <3> QED
      BY <1>7, <3>1
  <2>4. IsFiniteSet(Streams(lines))
    BY StreamsAreFinite
  <2> HIDE DEF f
  <2> QED
    BY <2>1, <2>2, <2>3, <2>4, SameNumber
<1>9. ASSUME NEW i \in Streams(lines) PROVE \E p \in places : IsEntry(At(p), lines, i)
  <2>1. PICK j \in 1 .. Len(channels) : order[j] = i
    BY <1>2 DEF Enumerates
  <2>2. PICK p \in places : From(p) = j
    BY <1>7
  <2>3. At(p) = channels[j]
    BY <1>5, <2>2
  <2> QED
    BY <1>2, <2>1, <2>3
<1>10. ASSUME NEW p \in places PROVE \E i \in Streams(lines) : IsEntry(At(p), lines, i)
  <2>1. order[From(p)] \in Streams(lines)
    BY <1>2, <1>5 DEF Enumerates
  <2>2. IsEntry(At(p), lines, order[From(p)])
    BY <1>2, <1>5
  <2> QED
    BY <2>1, <2>2
<1>11. ASSUME NEW p \in places, NEW q \in places, At(p).id = At(q).id, At(p).id \notin Cuts
       PROVE  p = q
  <2>1. From(p) = From(q)
    <3> HIDE DEF At, From
    <3>1. /\ From(p) \in 1 .. Len(channels) /\ At(p) = channels[From(p)]
          /\ From(q) \in 1 .. Len(channels) /\ At(q) = channels[From(q)]
      BY <1>5
    <3> QED
      BY <1>3, <1>11, <3>1
  <2> QED
    BY <1>6, <2>1
<1>12. ASSUME NEW k \in ContentKind
       PROVE  ToSet(lists[k].categories) = {At(p).group : p \in {p \in places : p[1] = k}}
  <2>1. lists[k].categories = Copied(st.categories, {c.group : c \in ChannelsOfKind(channels, k)})
    BY <1>1 DEF SplitCatalog
  <2>2. ToSet(lists[k].categories) =
        ToSet(st.categories) \cap {c.group : c \in ChannelsOfKind(channels, k)}
    BY <2>1, CopiedMembers DEF WellRead, GroupsOf
  <2>3. ToSet(st.categories) = {c.group : c \in ToSet(channels)}
    BY <1>1 DEF WellRead, GroupsOf
  <2>4. ToSet(lists[k].categories) = {c.group : c \in ChannelsOfKind(channels, k)}
    BY <2>2, <2>3 DEF ChannelsOfKind
  <2>5. ChannelsOfKind(channels, k) = {At(p) : p \in {p \in places : p[1] = k}}
    <3>1. ASSUME NEW p \in places, p[1] = k PROVE At(p) \in ChannelsOfKind(channels, k)
      <4>1. PICK i : i = From(p)
        OBVIOUS
      <4>2. /\ i \in 1 .. Len(channels) /\ At(p) = channels[i] /\ KindOf(channels[i]) = k
        BY <1>5, <3>1, <4>1
      <4> HIDE DEF At, From
      <4>3. channels[i] \in ToSet(channels)
        BY <1>2, <4>2 DEF ToSet
      <4> QED
        BY <4>2, <4>3 DEF ChannelsOfKind
    <3>2. ASSUME NEW c \in ChannelsOfKind(channels, k)
          PROVE  \E p \in places : p[1] = k /\ At(p) = c
      <4>0. c \in ToSet(channels) /\ KindOf(c) = k
        BY <3>2 DEF ChannelsOfKind
      <4>1. PICK i \in 1 .. Len(channels) : channels[i] = c /\ KindOf(channels[i]) = k
        BY <1>2, <4>0 DEF ToSet
      <4>2. PICK p \in places : From(p) = i /\ p[1] = KindOf(channels[i])
        BY <1>7
      <4> QED
        BY <1>5, <4>1, <4>2
    <3> QED
      BY <3>1, <3>2
  <2> QED
    BY <2>4, <2>5
<1>13. CatalogsExact(lines, lists)
  BY <1>8, <1>9, <1>10, <1>11, <1>12, Zenon DEF CatalogsExact, places
<1> QED
  BY <1>1, <1>13

\* A playlist that was loaded stays as it was read until it is split or dropped.
LEMMA ExactStep == PlaylistExact /\ [Next]_vars => PlaylistExact'
<1> SUFFICES ASSUME PlaylistExact, [Next]_vars PROVE PlaylistExact'
  OBVIOUS
<1>1. ASSUME parsed' = parsed PROVE PlaylistExact'
  BY <1>1 DEF PlaylistExact
<1>2. ASSUME parsed' = None PROVE PlaylistExact'
  BY <1>2 DEF PlaylistExact
<1>3. ASSUME NEW lines \in Playlist, Load(lines) PROVE PlaylistExact'
  <2>1. /\ lines \in Seq(ToSet(lines)) /\ Len(lines) \in Nat
        /\ \A n \in 1 .. Len(lines) : lines[n].line \in LineKind
    <3>1. lines \in Seq(ToSet(lines)) /\ \A l \in ToSet(lines) : l.line \in LineKind
      BY LoginAssumption
    <3>2. \A n \in 1 .. Len(lines) : lines[n] \in ToSet(lines)
      BY <3>1, OfItsOwn DEF ToSet
    <3> QED
      BY <3>1, <3>2, OfItsOwn
  <2>2. PICK read : read = LoadPlaylist(job.server, lines)
    OBVIOUS
  <2>3. \E order : WellRead(read, lines, Len(lines), order)
    BY <2>1, <2>2, PlaylistIsWellRead
  <2>4. parsed' = [lines |-> lines, lists |-> SplitCatalog(read.categories, read.channels)]
    BY <1>3, <2>2 DEF Load
  <2>5. CatalogsExact(lines, SplitCatalog(read.categories, read.channels))
    BY <2>1, <2>3, SplitIsExact
  <2> QED
    BY <2>4, <2>5 DEF PlaylistExact
<1>4. CASE UNCHANGED vars \/ StoreStep \/ HandleLogin \/ Store
  BY <1>1, <1>4 DEF vars, request, StoreStep, HandleLogin, Store
<1>5. CASE LoginOneServer
  BY <1>1, <1>5, LoginOneServerAsks DEF Asks
<1>6. CASE Accept \/ TryAlternate \/ Resolve \/ TryResolvedAlternate
  BY <1>1, <1>6 DEF Accept, TryAlternate, Resolve, TryResolvedAlternate
<1>7. ASSUME NEW f \in Form, StartLogin(f) PROVE PlaylistExact'
  BY <1>2, <1>7 DEF StartLogin
<1>8. CASE GiveUp \/ Split \/ Publish \/ Restart
  BY <1>2, <1>8 DEF GiveUp, Split, Publish, Restart, NoRequest
<1> QED
  BY <1>3, <1>4, <1>5, <1>6, <1>7, <1>8 DEF Next, LoginWorker

\* Every stream of a playlist is in exactly one catalog, with the attributes of
\* its own entry and an identifier of its own, unless that is of a text that did
\* not fit, and a catalog has exactly the categories of its channels: for
\* playlists of any length.
THEOREM PlaylistExactAlways == Spec => []PlaylistExact
<1>1. Init => PlaylistExact
  BY DEF Init, PlaylistExact
<1> QED
  BY <1>1, ExactStep, PTL DEF Spec
====
