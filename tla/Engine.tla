------------------------------- MODULE Engine -------------------------------
(***************************************************************************)
(* Databases and collections of the multi-collection engine                *)
(* (engine/engine.go over catalog/master.go): creating, dropping, reopening *)
(* the file, and the transactions that still hold a collection's handle.   *)
(*                                                                         *)
(* Every method of Engine runs under e.mu; ddl names the one that is       *)
(* between two of its pager commits, where a crash can fall.  What is      *)
(* staged is in memory; a pager commit saves all of it at once (module     *)
(* Pager), or fails: the process goes on with what it staged, the file has *)
(* it or not, and the next commit saves it with its own.  The maps of the  *)
(* catalog mirror its heaps in memory, so one copy stands for both.  Heap  *)
(* pages carry the collection id and are not freed by a drop; a collection *)
(* opens with every record on pages of its id.  A document is known by the *)
(* creation (inc) of the collection it was written to.                     *)
(***************************************************************************)
EXTENDS Integers, FiniteSetsExt

CONSTANTS
  Clients,
  Databases, Names,
  MaxCreates,    \* bound: collections created
  MaxReopens,    \* bound: crashes and clean closes, each followed by Open
  MaxFails       \* bound: pager commits that return an error

ASSUME EngineAssumption ==
  /\ MaxCreates \in Nat /\ MaxReopens \in Nat /\ MaxFails \in Nat

VARIABLES
  dbs,         \* database records
  mcat,        \* namespace -> collection record [id, inc]
  heaps,       \* collection id -> documents on its heap pages
  nextCollID,
  colls,       \* namespace -> open handle
  held,        \* client -> set of at most one [ns, rec] it works with
  ddl,         \* the DDL operation between two of its commits, and the
               \*   namespaces it has left to do
  saved,       \* the records and pages that the file has
  creates, reopens, fails,
  late,        \* ghost: namespaces whose record was staged through a handle
               \*   that a drop had taken out of the engine
  undone,      \* ghost: namespaces whose record the catalog has changed, and
               \*   whose handle the engine has not, for a failed commit
  cut          \* ghost: databases with an operation that a crash or a failed
               \*   commit cut short

engineVars == <<dbs, mcat, heaps, nextCollID, colls, held, ddl, saved, creates,
                reopens, fails, late, undone, cut>>

Namespaces == Databases \X Names
FirstUserCollID == 16
CollIDStride == 16
CollIDs == {FirstUserCollID + CollIDStride * n : n \in 0..MaxCreates}

Idle == [op |-> "idle", db |-> "", todo |-> {}]

ListCollections(db) == {ns \in DOMAIN mcat : ns[1] = db}

put(f, x, v) == [y \in DOMAIN f \cup {x} |-> IF y = x THEN v ELSE f[y]]
remove(f, x) == [y \in DOMAIN f \ {x} |-> f[y]]

staged == [dbs |-> dbs, mcat |-> mcat, heaps |-> heaps]

pgrCommit(ok) ==
  /\ ok \/ fails < MaxFails
  /\ fails' = IF ok THEN fails ELSE fails + 1
  /\ saved' \in {staged'} \cup (IF ok THEN {} ELSE {saved})

(***************************************************************************)
(* createLocked: the database record is committed before the collection's. *)
(***************************************************************************)

createLocked(ns, ok) ==
  /\ ddl = Idle /\ creates < MaxCreates
  /\ ns \notin DOMAIN mcat
  /\ dbs' = dbs \cup {ns[1]}
  /\ UNCHANGED <<mcat, heaps, nextCollID, colls, held, creates, reopens, late, undone>>
  /\ \/ ns[1] \in dbs /\ ok /\ UNCHANGED <<saved, fails>>
     \/ ns[1] \notin dbs /\ pgrCommit(ok)
  /\ ddl' = IF ok THEN [op |-> "create", db |-> ns[1], todo |-> {ns}] ELSE Idle
  /\ cut' = IF ok THEN cut ELSE cut \cup {ns[1]}

\* Mutant: the lowest id that no record of the catalog has.
createFinish_freeID(ns, ok) ==
  LET used == {mcat[n].id : n \in DOMAIN mcat}
      rec == [id |-> Min(CollIDs \ used), inc |-> creates + 1]
  IN  /\ ddl.op = "create" /\ ns \in ddl.todo
      /\ nextCollID' = nextCollID + CollIDStride
      /\ mcat' = put(mcat, ns, rec)
      /\ colls' = IF ok THEN put(colls, ns, rec) ELSE colls
      /\ creates' = creates + 1
      /\ UNCHANGED <<dbs, heaps, held, reopens, late>>
      /\ pgrCommit(ok)
      /\ ddl' = Idle
      /\ undone' = IF ok THEN undone \ {ns} ELSE undone \cup {ns}
      /\ cut' = IF ok THEN cut \ {ns[1]} ELSE cut \cup {ns[1]}

\* A commit, openCollection or enableColumnar that fails leaves the record
\* staged and makes no handle.
createFinish(ns, ok) ==
  LET rec == [id |-> nextCollID, inc |-> creates + 1]
  IN  /\ ddl.op = "create" /\ ns \in ddl.todo
      /\ nextCollID' = nextCollID + CollIDStride
      /\ mcat' = put(mcat, ns, rec)
      /\ colls' = IF ok THEN put(colls, ns, rec) ELSE colls
      /\ creates' = creates + 1
      /\ UNCHANGED <<dbs, heaps, held, reopens, late>>
      /\ pgrCommit(ok)
      /\ ddl' = Idle
      /\ undone' = IF ok THEN undone \ {ns} ELSE undone \cup {ns}
      /\ cut' = IF ok THEN cut \ {ns[1]} ELSE cut \cup {ns[1]}

(***************************************************************************)
(* Drops: each record removed is a pager commit of its own.  One that      *)
(* fails ends the operation: the record is gone, the handle is not.        *)
(***************************************************************************)

\* Mutant: the handle stays in the engine's table.
removeCollection_keepsHandle(ns, ok) ==
  /\ mcat' = remove(mcat, ns)
  /\ colls' = colls
  /\ UNCHANGED <<dbs, heaps>>
  /\ pgrCommit(ok)
  /\ late' = late \ {ns}
  /\ undone' = IF ok \/ ns \notin DOMAIN colls THEN undone \ {ns} ELSE undone \cup {ns}
  /\ cut' = IF ok THEN cut ELSE cut \cup {ns[1]}

removeCollection(ns, ok) ==
  /\ mcat' = remove(mcat, ns)
  /\ colls' = IF ok THEN remove(colls, ns) ELSE colls
  /\ UNCHANGED <<dbs, heaps>>
  /\ pgrCommit(ok)
  /\ late' = late \ {ns}
  /\ undone' = IF ok \/ ns \notin DOMAIN colls THEN undone \ {ns} ELSE undone \cup {ns}
  /\ cut' = IF ok THEN cut ELSE cut \cup {ns[1]}

DropCollection(ns, ok) ==
  /\ ddl = Idle /\ ns \in DOMAIN mcat
  /\ removeCollection(ns, ok)
  /\ ddl' = IF ok THEN [op |-> "drop", db |-> ns[1], todo |-> {}] ELSE Idle
  /\ UNCHANGED <<nextCollID, held, creates, reopens>>

DropDatabase(db) ==
  /\ ddl = Idle /\ (db \in dbs \/ ListCollections(db) # {})
  /\ ddl' = [op |-> "dropDatabase", db |-> db, todo |-> ListCollections(db)]
  /\ UNCHANGED <<dbs, mcat, heaps, nextCollID, colls, held, saved, creates, reopens,
                 fails, late, undone, cut>>

dropNext(ns, ok) ==
  /\ ddl.op = "dropDatabase" /\ ns \in ddl.todo
  /\ removeCollection(ns, ok)
  /\ ddl' = IF ok THEN [ddl EXCEPT !.todo = @ \ {ns}] ELSE Idle
  /\ UNCHANGED <<nextCollID, held, creates, reopens>>

\* DropCollection removes the database record with its last collection;
\* DropDatabase removes it in any case.
lastGone == ddl.db \in dbs /\ (ddl.op = "dropDatabase" \/ ListCollections(ddl.db) = {})

RemoveDatabase(ok) ==
  /\ ddl.op \in {"drop", "dropDatabase"} /\ ddl.todo = {}
  /\ UNCHANGED <<mcat, heaps, nextCollID, colls, held, creates, reopens, late, undone>>
  /\ \/ /\ lastGone
        /\ dbs' = dbs \ {ddl.db}
        /\ pgrCommit(ok)
        /\ cut' = IF ok THEN cut \ {ddl.db} ELSE cut \cup {ddl.db}
     \/ ~lastGone /\ ok /\ UNCHANGED <<dbs, saved, fails, cut>>
  /\ ddl' = Idle

(***************************************************************************)
(* Clients take a handle under e.mu and commit without it.                 *)
(***************************************************************************)

GetCollection(c, ns) ==
  /\ ddl = Idle /\ held[c] = {}
  /\ ns \in DOMAIN colls
  /\ held' = [held EXCEPT ![c] = {[ns |-> ns, rec |-> colls[ns]]}]
  /\ UNCHANGED <<dbs, mcat, heaps, nextCollID, colls, ddl, saved, creates, reopens,
                 fails, late, undone, cut>>

\* The commit of an insert.  The first one of a collection roots the _id index
\* and later ones may split its root; either stages the collection record anew,
\* also when the catalog has lost it.
CommitInsert(c, ok) ==
  \E h \in held[c] :
    LET first == h.rec.inc \notin heaps[h.rec.id]
        isLate == h.ns \notin DOMAIN colls \/ colls[h.ns] # h.rec
    IN  /\ heaps' = [heaps EXCEPT ![h.rec.id] = @ \cup {h.rec.inc}]
        /\ held' = [held EXCEPT ![c] = {}]
        /\ UNCHANGED <<dbs, nextCollID, colls, ddl, creates, reopens>>
        /\ \E rootMoved \in {TRUE, first} :
             /\ mcat' = IF rootMoved THEN put(mcat, h.ns, h.rec) ELSE mcat
             /\ late' = IF rootMoved /\ isLate THEN late \cup {h.ns} ELSE late
             /\ undone' = IF rootMoved /\ ~isLate THEN undone \ {h.ns} ELSE undone
             /\ cut' = IF ok \/ ~rootMoved \/ h.ns \in DOMAIN mcat THEN cut
                       ELSE cut \cup {h.ns[1]}
        /\ pgrCommit(ok)

\* The transaction is rolled back.
Rollback(c) ==
  /\ held[c] # {}
  /\ held' = [held EXCEPT ![c] = {}]
  /\ UNCHANGED <<dbs, mcat, heaps, nextCollID, colls, ddl, saved, creates, reopens,
                 fails, late, undone, cut>>

(***************************************************************************)
(* The process ends, in the middle of a DDL operation or not, and the file *)
(* is opened again.  Close checkpoints what is committed and no more.      *)
(***************************************************************************)

MaxCollID(cat) == IF DOMAIN cat = {} THEN 0 ELSE Max({cat[ns].id : ns \in DOMAIN cat})

\* Mutant: the highest id in use, without the stride and the floor.
seedCollID_max(cat) == MaxCollID(cat)

seedCollID(cat) ==
  IF MaxCollID(cat) >= FirstUserCollID THEN MaxCollID(cat) + CollIDStride
  ELSE FirstUserCollID

Open ==
  /\ reopens < MaxReopens
  /\ reopens' = reopens + 1
  /\ dbs' = saved.dbs /\ mcat' = saved.mcat /\ heaps' = saved.heaps
  /\ nextCollID' = seedCollID(saved.mcat)
  /\ colls' = saved.mcat
  /\ held' = [c \in Clients |-> {}]
  /\ ddl' = Idle /\ late' = {} /\ undone' = {}
  /\ cut' = IF ddl = Idle THEN cut ELSE cut \cup {ddl.db}
  /\ UNCHANGED <<saved, creates, fails>>

EngineInit ==
  /\ dbs = {} /\ mcat = << >> /\ colls = << >>
  /\ heaps = [id \in CollIDs |-> {}]
  /\ nextCollID = FirstUserCollID
  /\ held = [c \in Clients |-> {}]
  /\ ddl = Idle /\ saved = staged
  /\ creates = 0 /\ reopens = 0 /\ fails = 0
  /\ late = {} /\ undone = {} /\ cut = {}

\* The bounded run is over.
EngineFinished ==
  /\ creates = MaxCreates /\ ddl = Idle
  /\ UNCHANGED engineVars

EngineNext ==
  \/ \E ok \in BOOLEAN :
       \/ \E ns \in Namespaces : createLocked(ns, ok) \/ createFinish(ns, ok)
                                   \/ DropCollection(ns, ok) \/ dropNext(ns, ok)
       \/ RemoveDatabase(ok)
       \/ \E c \in Clients : CommitInsert(c, ok)
  \/ \E db \in Databases : DropDatabase(db)
  \/ \E c \in Clients :
       Rollback(c) \/ \E ns \in Namespaces : GetCollection(c, ns)
  \/ Open
  \/ EngineFinished

EngineSpec == EngineInit /\ [][EngineNext]_engineVars
-----------------------------------------------------------------------------

CollRecords == [id : CollIDs, inc : 1..MaxCreates]

EngineTypeOK ==
  /\ dbs \subseteq Databases
  /\ DOMAIN mcat \subseteq Namespaces /\ mcat \in [DOMAIN mcat -> CollRecords]
  /\ DOMAIN colls \subseteq Namespaces /\ colls \in [DOMAIN colls -> CollRecords]
  /\ heaps \in [CollIDs -> SUBSET (1..MaxCreates)]
  /\ nextCollID \in CollIDs
  /\ held \in [Clients -> SUBSET [ns : Namespaces, rec : CollRecords]]
  /\ \A c \in Clients : Cardinality(held[c]) <= 1
  /\ ddl.op \in {"idle", "create", "drop", "dropDatabase"}
  /\ ddl.todo \subseteq Namespaces
  /\ saved.dbs \subseteq Databases
  /\ DOMAIN saved.mcat \subseteq Namespaces
  /\ saved.mcat \in [DOMAIN saved.mcat -> CollRecords]
  /\ saved.heaps \in [CollIDs -> SUBSET (1..MaxCreates)]
  /\ creates \in 0..MaxCreates /\ reopens \in 0..MaxReopens /\ fails \in 0..MaxFails
  /\ late \subseteq Namespaces /\ undone \subseteq Namespaces /\ cut \subseteq Databases

\* No two collections of the catalog share heap pages, and the allocator is
\* above every id in use, however often the file was reopened.
CollIDsDistinct ==
  /\ \A ns1, ns2 \in DOMAIN mcat : mcat[ns1].id = mcat[ns2].id => ns1 = ns2
  /\ \A ns \in DOMAIN mcat : mcat[ns].id < nextCollID

\* Between DDL operations the engine has a handle exactly for the collections
\* of the catalog, and it is the one the catalog records (createLocked,
\* DropCollection, DropDatabase and Open keep e.colls and e.mcat in step), but
\* for a namespace whose record a transaction still running at its drop has
\* staged again, and for one that a create or a drop with a failing commit has
\* left with a record and no handle or the other way round.
HandlesMatchCatalog ==
  ddl = Idle => \A ns \in Namespaces \ (late \cup undone) :
    /\ ns \in DOMAIN colls <=> ns \in DOMAIN mcat
    /\ ns \in DOMAIN colls => colls[ns] = mcat[ns]

\* Creating or dropping a collection leaves no database record without a
\* collection, and DropDatabase none at all, unless a crash comes between the
\* pager commits of the operation or one of them fails.
NoEmptyDatabase ==
  ddl = Idle => \A db \in dbs \ cut : ListCollections(db) # {}

\* The three places that know of a collection, its handle, its record and that
\* of its database, are in step between DDL operations.
CatalogInStep == HandlesMatchCatalog /\ NoEmptyDatabase

\* A collection holds only documents written since it was created: the heap
\* pages of its id, which is what rebuild reads, are not those of a collection
\* dropped before (MaxCollID seeds the allocator with fresh ids).
NoDroppedDocuments ==
  \A ns \in DOMAIN colls : heaps[colls[ns].id] \subseteq {colls[ns].inc}

\* Until the file is reopened that is so, whatever is dropped, created again
\* and committed late: createLocked advances the allocator for good.
NoDroppedDocumentsWhileOpen == reopens = 0 => NoDroppedDocuments
=============================================================================
