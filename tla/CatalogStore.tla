---- MODULE CatalogStore ----
(***************************************************************************)
(* The SQLite database: catalogs, which a login replaces statement by      *)
(* statement in a transaction, and single rows that other threads write.   *)
(* Models src/database/database.c; SQLite itself is external: one          *)
(* connection in WAL mode, on which a statement outside a transaction is   *)
(* durable at once and one inside works on a copy until COMMIT.            *)
(*                                                                         *)
(* Every operation holds db->mutex from its first to its last statement.   *)
(* A catalog is its two tables, each holding the rows of one version.  The *)
(* other tables hold one row each, named by the write that made it.        *)
(***************************************************************************)
EXTENDS Naturals, Absent

CONSTANTS
  Provider,   \* provider identifiers
  MaxVersion, \* bound: versions of a catalog
  MaxWrites   \* bound: single rows written

ASSUME CatalogStoreAssumption ==
  /\ None \notin Provider
  /\ MaxVersion \in Nat /\ MaxWrites \in Nat

Table == {"favorites", "thumbnails", "profiles", "progress", "series_progress", "metadata"}
Torn == MaxVersion + 1   \* some rows of a list only

VARIABLES
  disk,     \* what a new connection reads
  open,     \* the copy an open transaction works on
  replace,  \* where vip_database_replace_catalog stands: who holds the mutex
  told,     \* history: what the last writer of each row was told it holds
  writes    \* rows written

store == <<disk, open, replace, told, writes>>

Content == [categories : [Provider -> 0 .. Torn], channels : [Provider -> 0 .. Torn],
            rows : [Table -> 0 .. MaxWrites]]

ASSUME NoTransactionAssumption == None \notin Content

ReplaceStep == {"delete_categories", "delete_channels", "insert_categories",
                "insert_channels", "commit", "rollback"}

Free == [at |-> "free", id |-> None, version |-> 0]

StoreTypeOK ==
  /\ disk \in Content
  /\ open \in Content \cup {None}
  /\ replace \in {Free} \cup
       [at : ReplaceStep \cup {"done"}, id : Provider, version : 1 .. MaxVersion]
  /\ told \in [Table -> 0 .. MaxWrites]
  /\ writes \in 0 .. MaxWrites

StoreInit ==
  /\ disk = [categories |-> [p \in Provider |-> 0], channels |-> [p \in Provider |-> 0],
             rows |-> [t \in Table |-> 0]]
  /\ open = None
  /\ replace = Free
  /\ told = [t \in Table |-> 0] /\ writes = 0

----
(* One statement.                                                          *)

Seen == IF open = None THEN disk ELSE open

Execute(new) ==
  IF open = None THEN disk' = new /\ UNCHANGED open ELSE open' = new /\ UNCHANGED disk

----
(* vip_database_replace_catalog, for the catalog `version` of provider id. *)

GoTo(from, to) == replace.at = from /\ replace' = [replace EXCEPT !.at = to]

\* BEGIN IMMEDIATE, or another process has the lock, or a transaction is open.
\* Then the statements are prepared, if they can be.
BeginReplace(id, version) ==
  /\ replace = Free
  /\ \/ /\ open = None /\ open' = disk
        /\ \E at \in {"delete_categories", "rollback"} :
             replace' = [at |-> at, id |-> id, version |-> version]
     \/ /\ replace' = [at |-> "done", id |-> id, version |-> version]
        /\ UNCHANGED open
  /\ UNCHANGED <<disk, told, writes>>

DeleteCategories ==
  /\ GoTo("delete_categories", "delete_channels")
  /\ Execute([Seen EXCEPT !.categories[replace.id] = 0])
  /\ UNCHANGED <<told, writes>>

DeleteChannels ==
  /\ GoTo("delete_channels", "insert_categories")
  /\ Execute([Seen EXCEPT !.channels[replace.id] = 0])
  /\ UNCHANGED <<told, writes>>

\* The loop over the rows ends, or one of them fails.
InsertCategories ==
  /\ \/ /\ GoTo("insert_categories", "insert_channels")
        /\ Execute([Seen EXCEPT !.categories[replace.id] = replace.version])
     \/ /\ GoTo("insert_categories", "rollback")
        /\ Execute([Seen EXCEPT !.categories[replace.id] = Torn])
  /\ UNCHANGED <<told, writes>>

InsertChannels ==
  /\ \/ /\ GoTo("insert_channels", "commit")
        /\ Execute([Seen EXCEPT !.channels[replace.id] = replace.version])
     \/ /\ GoTo("insert_channels", "rollback")
        /\ Execute([Seen EXCEPT !.channels[replace.id] = Torn])
  /\ UNCHANGED <<told, writes>>

StatementFails ==
  /\ \E at \in {"delete_categories", "delete_channels"} : GoTo(at, "rollback")
  /\ UNCHANGED <<disk, open, told, writes>>

\* SQLite ends a transaction whose COMMIT fails (in WAL mode it is never busy).
Commit ==
  /\ GoTo("commit", "done")
  /\ open' = None
  /\ disk' = Seen \/ UNCHANGED disk
  /\ UNCHANGED <<told, writes>>

\* Plausible slip: the transaction stays open.
RollbackForgotten ==
  /\ GoTo("rollback", "done")
  /\ UNCHANGED <<disk, open, told, writes>>

Rollback ==
  /\ GoTo("rollback", "done")
  /\ open' = None
  /\ UNCHANGED <<disk, told, writes>>

ReplaceCatalog ==
  \/ DeleteCategories \/ DeleteChannels \/ InsertCategories \/ InsertChannels
  \/ StatementFails \/ Commit \/ Rollback

----
(* The operations of one statement.  One that fails changes nothing.       *)

MutexFree == replace.at \in {"free", "done"}

\* The row of table t becomes r, and its writer is told so.
Put(t, r) ==
  /\ MutexFree /\ writes < MaxWrites
  /\ writes' = writes + 1
  /\ Execute([Seen EXCEPT !.rows[t] = r])
  /\ told' = [told EXCEPT ![t] = r]
  /\ UNCHANGED replace

\* INSERT ... ON CONFLICT DO UPDATE.
Upsert(t) == Put(t, writes + 1)

\* INSERT ... ON CONFLICT DO NOTHING, or DELETE.
SetFavorite(on) ==
  Put("favorites", IF ~on THEN 0
                   ELSE IF Seen.rows["favorites"] /= 0 THEN Seen.rows["favorites"]
                   ELSE writes + 1)

SetThumbnail == Upsert("thumbnails")
SaveProfile == Upsert("profiles")
SetProgress == Upsert("progress")
SetSeriesProgress == Upsert("series_progress")
SetMediaMetadata == Upsert("metadata")

\* By the scheduler's workers, the details worker and the interface thread.
WriteRow ==
  \/ \E on \in BOOLEAN : SetFavorite(on)
  \/ SetThumbnail \/ SetProgress \/ SetSeriesProgress \/ SetMediaMetadata

----
\* The process ends, at whatever moment, and the database is opened again:
\* migrate finds its tables.
Reopen ==
  /\ open' = None
  /\ replace' = Free
  /\ UNCHANGED <<disk, told, writes>>

\* The catalog of p as a whole: one version, or a mixture, which AtomicStore
\* does not know.
StoredCatalog(p) ==
  IF disk.categories[p] = disk.channels[p] THEN disk.categories[p] ELSE Torn

Promise == INSTANCE AtomicStore WITH
  catalog <- [p \in Provider |-> StoredCatalog(p)],
  row <- disk.rows
====
