---------------------------- MODULE EngineProofs ----------------------------
(***************************************************************************)
(* Theorems about Engine for any clients, databases and names, and any     *)
(* number of creations, reopenings and failing commits.                    *)
(***************************************************************************)
EXTENDS Engine, FiniteSetTheorems, WellFoundedInduction, TLAPS

Pairs(cat) == {<<ns, cat[ns]>> : ns \in DOMAIN cat}

\* The collections somebody knows: from the catalog in memory, from the one in
\* the file, from the engine's table of handles, or from a handle in a client's
\* hand.
Known ==
  Pairs(mcat) \cup Pairs(saved.mcat) \cup Pairs(colls)
    \cup {<<h.ns, h.rec>> : h \in UNION {held[c] : c \in Clients}}

\* An id belongs to one collection, wherever it is known from, and the next id
\* is above all of them.  The catalog alone is not enough: a transaction still
\* running at a drop puts its collection back.
KnownOnce ==
  /\ \A p, q \in Known : p[2].id = q[2].id => p = q
  /\ \A p \in Known : p[2].id < nextCollID

\* The operation that is between two of its commits.
DdlOK ==
  /\ ddl \in [op : {"idle", "create", "drop", "dropDatabase"},
              db : Databases \cup {""}, todo : SUBSET Namespaces]
  /\ ddl.op = "idle" => ddl = Idle
  /\ ddl.op # "idle" => ddl.db \in Databases /\ \A ns \in ddl.todo : ns[1] = ddl.db
  /\ ddl.op = "create" => creates < MaxCreates

\* Handles and records agree also in the middle of an operation.
HandlesAgree ==
  \A ns \in Namespaces \ (late \cup undone) :
    /\ ns \in DOMAIN colls <=> ns \in DOMAIN mcat
    /\ ns \in DOMAIN colls => colls[ns] = mcat[ns]

\* Only the database that an operation works on may be without a collection.
OthersFull ==
  \A db \in dbs \ cut :
    (ddl = Idle \/ db # ddl.db) => ListCollections(db) # {}

\* The file has the records that memory has, but for a database with an
\* operation cut short.
Synced ==
  \A db \in Databases \ cut :
    /\ db \in dbs <=> db \in saved.dbs
    /\ \A ns \in Namespaces :
         ns[1] = db => (ns \in DOMAIN mcat <=> ns \in DOMAIN saved.mcat)

\* Before the first reopening pages are only written under ids given out, by
\* the one collection that has the id.
PagesFresh ==
  reopens = 0 =>
    /\ \A id \in CollIDs : id >= nextCollID => heaps[id] = {}
    /\ \A p \in Known : heaps[p[2].id] \subseteq {p[2].inc}

\* The inductive invariant.
EInv ==
  /\ EngineTypeOK
  /\ nextCollID <= FirstUserCollID + CollIDStride * creates
  /\ DdlOK /\ KnownOnce /\ HandlesAgree /\ OthersFull /\ Synced /\ PagesFresh

\* What a pager commit leaves in the file.
Saves(ok) ==
  \/ ~ok /\ saved' = saved
  \/ saved'.dbs = dbs' /\ saved'.mcat = mcat' /\ saved'.heaps = heaps'

\* A non-empty bounded set of naturals has a greatest element, the one
\* MaxCollID takes.
LEMMA MaxBounded ==
  ASSUME NEW N \in Nat, NEW S \in SUBSET (0..N), S # {}
  PROVE  Max(S) \in S /\ \A y \in S : y <= Max(S)
<1> DEFINE D == {N - x : x \in S}
<1>1. D \in SUBSET Nat /\ D # {}
  <2>1. \A x \in S : N - x \in Nat
    OBVIOUS
  <2> QED BY <2>1, Zenon
<1>2. PICK d \in D : \A y \in D : ~ (<<y, d>> \in OpToRel(<, Nat))
  BY <1>1, WFMin, NatLessThanWellFounded, Zenon
<1>3. PICK x \in S : d = N - x
  BY <1>2, Zenon
<1>4. ASSUME NEW y \in S, ~(y <= x)
      PROVE  FALSE
  <2>1. N - y \in D /\ N - y \in Nat /\ d \in Nat /\ N - y < d
    BY <1>3, <1>4
  <2>2. <<N - y, d>> \in OpToRel(<, Nat)
    BY <2>1, Zenon DEF OpToRel
  <2> QED BY <2>1, <2>2, <1>2, Zenon
<1> QED BY <1>4, Zenon DEF Max

\* What is known of is a namespace with a record.
LEMMA KnownTyped ==
  ASSUME EngineTypeOK
  PROVE  \A p \in Known : p \in Namespaces \X CollRecords
<1>1. Pairs(saved.mcat) \subseteq Namespaces \X CollRecords
  BY DEF EngineTypeOK, Pairs
<1>2. Pairs(mcat) \cup Pairs(colls) \subseteq Namespaces \X CollRecords
  BY DEF EngineTypeOK, Pairs
<1>3. {<<h.ns, h.rec>> : h \in UNION {held[c] : c \in Clients}}
        \subseteq Namespaces \X CollRecords
  BY DEF EngineTypeOK
<1> QED BY <1>1, <1>2, <1>3, Zenon DEF Known

\* A commit saves what is staged, or fails and may leave the file as it was.
LEMMA CommitSaves ==
  ASSUME EngineTypeOK, NEW ok \in BOOLEAN, pgrCommit(ok)
  PROVE  fails' \in 0..MaxFails /\ Saves(ok)
<1>1. fails' \in 0..MaxFails
  BY EngineAssumption DEF EngineTypeOK, pgrCommit
<1>2. saved' = staged' \/ (~ok /\ saved' = saved)
  <2>1. saved' \in {staged'} \cup (IF ok THEN {} ELSE {saved})
    BY DEF pgrCommit
  <2>2. CASE ok
    BY <2>1, <2>2, Zenon
  <2>3. CASE ~ok
    BY <2>1, <2>3, Zenon
  <2> QED BY <2>2, <2>3
<1>3. staged'.dbs = dbs' /\ staged'.mcat = mcat' /\ staged'.heaps = heaps'
  BY Zenon DEF staged
<1> QED BY <1>1, <1>2, <1>3, Zenon DEF Saves

\* What it leaves there has its type, and names no collection that memory or the
\* file did not.
LEMMA SavedTyped ==
  ASSUME EngineTypeOK, NEW ok, Saves(ok) \/ saved' = saved,
         dbs' \subseteq Databases, DOMAIN mcat' \subseteq Namespaces,
         mcat' \in [DOMAIN mcat' -> CollRecords],
         heaps' \in [CollIDs -> SUBSET (1..MaxCreates)]
  PROVE  /\ saved'.dbs \subseteq Databases /\ DOMAIN saved'.mcat \subseteq Namespaces
         /\ saved'.mcat \in [DOMAIN saved'.mcat -> CollRecords]
         /\ saved'.heaps \in [CollIDs -> SUBSET (1..MaxCreates)]
<1>1. CASE saved' = saved
  BY <1>1, Zenon DEF EngineTypeOK
<1>2. CASE saved'.dbs = dbs' /\ saved'.mcat = mcat' /\ saved'.heaps = heaps'
  BY <1>2, Zenon
<1> QED BY <1>1, <1>2, Zenon DEF Saves

LEMMA SavedKnown ==
  ASSUME NEW ok, Saves(ok) \/ saved' = saved
  PROVE  Pairs(saved'.mcat) \subseteq Pairs(mcat') \cup Pairs(saved.mcat)
BY Zenon DEF Saves

\* The records stay the same on both sides when a failing commit is of an
\* operation that is marked as cut short.
LEMMA SyncedStep ==
  ASSUME Synced, NEW ok, Saves(ok),
         ok \/ /\ cut \subseteq cut'
               /\ \A db \in Databases \ cut' :
                    /\ db \in dbs' <=> db \in dbs
                    /\ \A ns \in Namespaces :
                         ns[1] = db => (ns \in DOMAIN mcat' <=> ns \in DOMAIN mcat)
  PROVE  Synced'
<1>1. CASE saved'.dbs = dbs' /\ saved'.mcat = mcat'
  BY <1>1, Zenon DEF Synced
<1>2. CASE ~ok /\ saved' = saved
  BY <1>2, Zenon DEF Synced
<1> QED BY <1>1, <1>2, Zenon DEF Saves

\* The ids the allocator can give out.
LEMMA CollIDsNat ==
  /\ CollIDs \subseteq Nat
  /\ CollIDs \subseteq FirstUserCollID..(FirstUserCollID + CollIDStride * MaxCreates)
  /\ \A n \in 0..MaxCreates : FirstUserCollID + CollIDStride * n \in CollIDs
  /\ \A a \in CollIDs : \A b \in CollIDs : a < b => a + CollIDStride <= b
  /\ \A a \in CollIDs : \A n \in 0..MaxCreates - 1 :
       a <= FirstUserCollID + CollIDStride * n => a + CollIDStride \in CollIDs
<1> USE EngineAssumption DEF FirstUserCollID, CollIDStride
<1>1. \A a \in CollIDs : \E n \in 0..MaxCreates : a = 16 + 16 * n
  BY DEF CollIDs
<1>2. \A n \in 0..MaxCreates : 16 + 16 * n \in CollIDs
  BY DEF CollIDs
<1>3. \A a \in CollIDs : a \in Nat /\ a \in 16..(16 + 16 * MaxCreates)
  BY <1>1
<1>4. ASSUME NEW a \in CollIDs, NEW b \in CollIDs, a < b
      PROVE  a + 16 <= b
  BY <1>1, <1>4
<1>5. ASSUME NEW a \in CollIDs, NEW n \in 0..MaxCreates - 1, a <= 16 + 16 * n
      PROVE  a + 16 \in CollIDs
  <2>1. PICK m \in 0..MaxCreates : a = 16 + 16 * m
    BY <1>1
  <2>2. m + 1 \in 0..MaxCreates /\ a + 16 = 16 + 16 * (m + 1)
    BY <2>1, <1>5
  <2> QED BY <2>2, <1>2, Zenon
<1> QED BY <1>2, <1>3, <1>4, <1>5

\* A step that makes no new collection known and writes no page keeps the ids
\* apart and the pages fresh.
LEMMA KnownShrinks ==
  ASSUME KnownOnce, PagesFresh, Known' \subseteq Known,
         UNCHANGED <<nextCollID, heaps, reopens>>
  PROVE  KnownOnce' /\ PagesFresh'
<1>1. KnownOnce'
  BY DEF KnownOnce
<1>2. PagesFresh'
  BY DEF PagesFresh
<1> QED BY <1>1, <1>2

\* The database record comes first, in a commit of its own.
LEMMA CreateLockedInv ==
  ASSUME EInv, NEW ns \in Namespaces, NEW ok \in BOOLEAN, createLocked(ns, ok)
  PROVE  EInv'
<1> USE DEF EInv
<1>1. ns[1] \in Databases
  BY DEF Namespaces
<1>2. /\ ddl = Idle /\ creates < MaxCreates /\ dbs' = dbs \cup {ns[1]}
      /\ UNCHANGED <<mcat, heaps, nextCollID, colls, held, creates, reopens, late, undone>>
      /\ ddl' = IF ok THEN [op |-> "create", db |-> ns[1], todo |-> {ns}] ELSE Idle
      /\ cut' = IF ok THEN cut ELSE cut \cup {ns[1]}
      /\ \/ ok /\ dbs' = dbs /\ saved' = saved /\ fails' = fails
         \/ pgrCommit(ok)
  BY DEF createLocked
<1>3. /\ fails' \in 0..MaxFails
      /\ Saves(ok) \/ (ok /\ dbs' = dbs /\ saved' = saved)
  <2>1. CASE ok /\ dbs' = dbs /\ saved' = saved /\ fails' = fails
    BY <2>1, Zenon DEF EngineTypeOK
  <2>2. CASE pgrCommit(ok)
    BY <2>2, CommitSaves
  <2> QED BY <1>2, <2>1, <2>2, Zenon
<1>4. EngineTypeOK'
  <2>1. dbs' \subseteq Databases /\ cut' \subseteq Databases
    BY <1>1, <1>2 DEF EngineTypeOK
  <2>2. /\ saved'.dbs \subseteq Databases /\ DOMAIN saved'.mcat \subseteq Namespaces
        /\ saved'.mcat \in [DOMAIN saved'.mcat -> CollRecords]
        /\ saved'.heaps \in [CollIDs -> SUBSET (1..MaxCreates)]
    BY <1>2, <1>3, <2>1, SavedTyped, Zenon DEF EngineTypeOK
  <2>3. ddl'.op \in {"idle", "create", "drop", "dropDatabase"} /\ ddl'.todo \subseteq Namespaces
    BY <1>2, Zenon DEF Idle
  <2> QED BY <1>2, <1>3, <2>1, <2>2, <2>3, Zenon DEF EngineTypeOK
<1>5. Known' \subseteq Known
  BY <1>2, <1>3, SavedKnown, Zenon DEF Known
<1>6. KnownOnce' /\ PagesFresh'
  BY <1>2, <1>5, KnownShrinks
<1>7. DdlOK'
  BY <1>1, <1>2, Zenon DEF DdlOK, Idle
<1>8. HandlesAgree'
  BY <1>2, Zenon DEF HandlesAgree
<1>9. OthersFull'
  <2> SUFFICES ASSUME NEW db \in dbs' \ cut', db # ddl'.db \/ ddl' = Idle
               PROVE  ListCollections(db)' # {}
    BY DEF OthersFull
  <2>1. db # ns[1]
    <3>1. CASE ok
      BY <1>2, <3>1, Zenon DEF Idle
    <3>2. CASE ~ok
      BY <1>2, <3>2
    <3> QED BY <3>1, <3>2
  <2>2. db \in dbs \ cut
    BY <1>2, <2>1
  <2> QED BY <1>2, <2>2 DEF OthersFull, ListCollections
<1>10. Synced'
  <2>1. CASE ok /\ dbs' = dbs /\ saved' = saved
    BY <1>2, <2>1, Zenon DEF Synced
  <2>2. CASE Saves(ok)
    BY <1>2, <2>2, SyncedStep, Zenon
  <2> QED BY <1>3, <2>1, <2>2
<1> QED BY <1>2, <1>4, <1>6, <1>7, <1>8, <1>9, <1>10

\* The collection gets the next id, which nobody knows, and pages nobody wrote.
LEMMA CreateFinishInv ==
  ASSUME EInv, NEW ns \in Namespaces, NEW ok \in BOOLEAN, createFinish(ns, ok)
  PROVE  EInv'
<1> USE DEF EInv
<1> DEFINE rec == [id |-> nextCollID, inc |-> creates + 1]
<1>1. /\ ddl.op = "create" /\ ns \in ddl.todo
      /\ nextCollID' = nextCollID + CollIDStride
      /\ mcat' = put(mcat, ns, rec)
      /\ colls' = IF ok THEN put(colls, ns, rec) ELSE colls
      /\ creates' = creates + 1
      /\ ddl' = Idle
      /\ undone' = IF ok THEN undone \ {ns} ELSE undone \cup {ns}
      /\ cut' = IF ok THEN cut \ {ns[1]} ELSE cut \cup {ns[1]}
      /\ UNCHANGED <<dbs, heaps, held, reopens, late>>
      /\ pgrCommit(ok)
  BY DEF createFinish
<1>2. /\ creates \in 0..MaxCreates /\ creates < MaxCreates /\ ns[1] = ddl.db
      /\ nextCollID \in CollIDs
  BY <1>1, Zenon DEF DdlOK, EngineTypeOK
<1>3. /\ creates \in 0..MaxCreates - 1 /\ creates' \in 0..MaxCreates
      /\ nextCollID <= FirstUserCollID + CollIDStride * creates
  BY <1>1, <1>2, EngineAssumption
<1>4. nextCollID' \in CollIDs
  BY <1>1, <1>2, <1>3, CollIDsNat
<1>5. nextCollID \in Nat /\ nextCollID < nextCollID' /\ nextCollID' \in Nat
  <2>1. nextCollID \in Nat
    BY <1>2, CollIDsNat, Zenon
  <2>2. nextCollID' = nextCollID + 16
    BY <1>1 DEF CollIDStride
  <2> QED BY <2>1, <2>2
<1>6. nextCollID' <= FirstUserCollID + CollIDStride * creates'
  BY <1>1, <1>2, <1>3, <1>5 DEF FirstUserCollID, CollIDStride
<1>7. rec \in CollRecords
  BY <1>2, EngineAssumption DEF CollRecords
<1> HIDE DEF rec
<1>17. fails' \in 0..MaxFails /\ Saves(ok)
  BY <1>1, CommitSaves
<1>8. EngineTypeOK'
  <2>1. /\ DOMAIN mcat' \subseteq Namespaces /\ mcat' \in [DOMAIN mcat' -> CollRecords]
        /\ DOMAIN colls' \subseteq Namespaces /\ colls' \in [DOMAIN colls' -> CollRecords]
    BY <1>1, <1>7 DEF EngineTypeOK, put
  <2>2. /\ saved'.dbs \subseteq Databases /\ DOMAIN saved'.mcat \subseteq Namespaces
        /\ saved'.mcat \in [DOMAIN saved'.mcat -> CollRecords]
        /\ saved'.heaps \in [CollIDs -> SUBSET (1..MaxCreates)]
    BY <1>1, <1>17, <2>1, SavedTyped, Zenon DEF EngineTypeOK
  <2>3. cut' \subseteq Databases /\ undone' \subseteq Namespaces
    BY <1>1 DEF EngineTypeOK, Namespaces
  <2>4. ddl'.op = "idle" /\ ddl'.todo = {}
    BY <1>1, Zenon DEF Idle
  <2> QED BY <1>1, <1>3, <1>4, <1>17, <2>1, <2>2, <2>3, <2>4, Zenon DEF EngineTypeOK
<1>9. Known' \subseteq Known \cup {<<ns, rec>>}
  <2>1. Pairs(mcat') \subseteq Pairs(mcat) \cup {<<ns, rec>>}
    BY <1>1, Zenon DEF Pairs, put
  <2>2. Pairs(colls') \subseteq Pairs(colls) \cup {<<ns, rec>>}
    BY <1>1, Zenon DEF Pairs, put
  <2>3. Pairs(saved'.mcat) \subseteq Pairs(mcat') \cup Pairs(saved.mcat)
    BY <1>17, SavedKnown, Zenon
  <2> QED BY <1>1, <2>1, <2>2, <2>3, Zenon DEF Known
<1>10. rec.id = nextCollID /\ rec.inc = creates + 1
  BY DEF rec
<1>11. \A p \in Known : p[2].id \in CollIDs /\ p[2].id < nextCollID
  BY KnownTyped DEF KnownOnce, CollRecords
<1>12. KnownOnce'
  <2>1. \A p \in Known' : p[2].id < nextCollID'
    <3>1. \A p \in Known : p[2].id \in Nat /\ p[2].id < nextCollID
      BY <1>11, CollIDsNat, Zenon
    <3> QED BY <1>5, <1>9, <1>10, <3>1
  <2>2. \A p, q \in Known' : p[2].id = q[2].id => p = q
    BY <1>5, <1>9, <1>10, <1>11 DEF KnownOnce
  <2> QED BY <2>1, <2>2 DEF KnownOnce
<1>13. PagesFresh'
  <2> SUFFICES ASSUME reopens = 0
               PROVE  /\ \A id \in CollIDs : id >= nextCollID' => heaps[id] = {}
                      /\ \A p \in Known' : heaps[p[2].id] \subseteq {p[2].inc}
    BY <1>1 DEF PagesFresh
  <2>1. heaps[rec.id] = {}
    BY <1>2, <1>5, <1>10 DEF PagesFresh
  <2>2. \A id \in CollIDs : id >= nextCollID' => id >= nextCollID
    BY <1>5, <1>4, CollIDsNat
  <2> QED BY <2>1, <2>2, <1>9 DEF PagesFresh
<1>14. DdlOK'
  BY <1>1, Zenon DEF DdlOK, Idle
<1>15. HandlesAgree'
  BY <1>1 DEF HandlesAgree, put
<1>16. OthersFull'
  <2> SUFFICES ASSUME NEW db \in dbs \ cut'
               PROVE  \E n \in DOMAIN mcat' : n[1] = db
    BY <1>1 DEF OthersFull, ListCollections
  <2>1. DOMAIN mcat' = DOMAIN mcat \cup {ns}
    BY <1>1 DEF put
  <2>2. CASE db = ns[1]
    BY <2>1, <2>2
  <2>3. CASE db # ns[1]
    <3>1. db \notin cut
      BY <1>1, <2>3
    <3> QED BY <2>1, <2>3, <3>1, <1>2 DEF OthersFull, ListCollections
  <2> QED BY <2>2, <2>3
<1>18. Synced'
  <2>1. DOMAIN mcat' = DOMAIN mcat \cup {ns}
    BY <1>1 DEF put
  <2> QED BY <1>1, <1>17, <2>1, SyncedStep, Zenon
<1> QED BY <1>6, <1>8, <1>12, <1>13, <1>14, <1>15, <1>16, <1>18

\* Taking a collection out of the catalog and, when the commit is good, out of
\* the table.
LEMMA RemoveCollectionInv ==
  ASSUME EngineTypeOK, KnownOnce, HandlesAgree, Synced, PagesFresh,
         NEW ns \in Namespaces, NEW ok \in BOOLEAN, removeCollection(ns, ok),
         UNCHANGED <<nextCollID, held, reopens>>
  PROVE  /\ KnownOnce' /\ HandlesAgree' /\ Synced' /\ PagesFresh'
         /\ DOMAIN mcat' = DOMAIN mcat \ {ns}
         /\ DOMAIN mcat' \subseteq Namespaces /\ mcat' \in [DOMAIN mcat' -> CollRecords]
         /\ DOMAIN colls' \subseteq Namespaces
         /\ colls' \in [DOMAIN colls' -> CollRecords]
         /\ late' \subseteq Namespaces /\ undone' \subseteq Namespaces
         /\ cut' \subseteq Databases /\ fails' \in 0..MaxFails
         /\ saved'.dbs \subseteq Databases /\ DOMAIN saved'.mcat \subseteq Namespaces
         /\ saved'.mcat \in [DOMAIN saved'.mcat -> CollRecords]
         /\ saved'.heaps \in [CollIDs -> SUBSET (1..MaxCreates)]
<1>1. /\ mcat' = remove(mcat, ns)
      /\ colls' = IF ok THEN remove(colls, ns) ELSE colls
      /\ UNCHANGED <<dbs, heaps>> /\ pgrCommit(ok)
      /\ late' = late \ {ns}
      /\ undone' = IF ok \/ ns \notin DOMAIN colls THEN undone \ {ns}
                   ELSE undone \cup {ns}
      /\ cut' = IF ok THEN cut ELSE cut \cup {ns[1]}
  BY DEF removeCollection
<1>2. fails' \in 0..MaxFails /\ Saves(ok)
  BY <1>1, CommitSaves
<1>3. /\ DOMAIN mcat' = DOMAIN mcat \ {ns} /\ mcat' \in [DOMAIN mcat' -> CollRecords]
      /\ DOMAIN colls' \subseteq DOMAIN colls /\ colls' \in [DOMAIN colls' -> CollRecords]
      /\ late' \subseteq Namespaces /\ undone' \subseteq Namespaces
      /\ cut' \subseteq Databases
  BY <1>1 DEF EngineTypeOK, remove, Namespaces
<1>4. Known' \subseteq Known
  <2>1. Pairs(mcat') \subseteq Pairs(mcat) /\ Pairs(colls') \subseteq Pairs(colls)
    BY <1>1 DEF Pairs, remove
  <2>2. Pairs(saved'.mcat) \subseteq Pairs(mcat') \cup Pairs(saved.mcat)
    BY <1>2, SavedKnown, Zenon
  <2> QED BY <2>1, <2>2, Zenon DEF Known
<1>5. KnownOnce' /\ PagesFresh'
  BY <1>1, <1>4, KnownShrinks
<1>6. HandlesAgree'
  BY <1>1 DEF HandlesAgree, remove
<1>7. Synced'
  BY <1>1, <1>2, <1>3, SyncedStep, Zenon
<1>8. /\ saved'.dbs \subseteq Databases /\ DOMAIN saved'.mcat \subseteq Namespaces
      /\ saved'.mcat \in [DOMAIN saved'.mcat -> CollRecords]
      /\ saved'.heaps \in [CollIDs -> SUBSET (1..MaxCreates)]
  <2>1. DOMAIN mcat' \subseteq Namespaces
    BY <1>3 DEF EngineTypeOK
  <2> QED BY <1>1, <1>2, <1>3, <2>1, SavedTyped, Zenon DEF EngineTypeOK
<1> QED BY <1>2, <1>3, <1>5, <1>6, <1>7, <1>8 DEF EngineTypeOK

\* Dropping one collection, and one of a database that goes.
LEMMA DropInv ==
  ASSUME EInv, NEW ns \in Namespaces, NEW ok \in BOOLEAN,
         DropCollection(ns, ok) \/ dropNext(ns, ok)
  PROVE  EInv'
<1> USE DEF EInv
<1>1. /\ removeCollection(ns, ok)
      /\ UNCHANGED <<dbs, heaps, nextCollID, held, creates, reopens>>
      /\ cut' = IF ok THEN cut ELSE cut \cup {ns[1]}
  BY DEF DropCollection, dropNext, removeCollection
<1>2. /\ ddl # Idle => ddl.db = ns[1]
      /\ \/ ~ok /\ ddl' = Idle
         \/ /\ ddl'.op \in {"drop", "dropDatabase"} /\ ddl' # Idle /\ ddl'.db = ns[1]
            /\ ddl'.todo \subseteq Namespaces /\ \A n \in ddl'.todo : n[1] = ns[1]
            /\ ddl' = [op |-> ddl'.op, db |-> ns[1], todo |-> ddl'.todo]
  <2>1. CASE DropCollection(ns, ok)
    BY <2>1, Zenon DEF DropCollection, Idle
  <2>2. CASE dropNext(ns, ok)
    <3>1. /\ ddl.op = "dropDatabase" /\ ns \in ddl.todo
          /\ ddl' = IF ok THEN [ddl EXCEPT !.todo = @ \ {ns}] ELSE Idle
      BY <2>2 DEF dropNext
    <3>2. ddl.db = ns[1] /\ \A n \in ddl.todo : n[1] = ns[1]
      <4>1. ddl.op # "idle"
        BY <3>1
      <4> QED BY <3>1, <4>1, Zenon DEF DdlOK
    <3>3. CASE ok
      <4>1. ddl' = [op |-> "dropDatabase", db |-> ns[1], todo |-> ddl.todo \ {ns}]
        BY <3>1, <3>2, <3>3, Zenon DEF DdlOK
      <4> QED BY <3>2, <4>1, Zenon DEF DdlOK, Idle
    <3>4. CASE ~ok
      BY <3>1, <3>2, <3>4, Zenon
    <3> QED BY <3>3, <3>4
  <2> QED BY <2>1, <2>2
<1>3. /\ KnownOnce' /\ HandlesAgree' /\ Synced' /\ PagesFresh'
      /\ DOMAIN mcat' = DOMAIN mcat \ {ns}
      /\ DOMAIN mcat' \subseteq Namespaces /\ mcat' \in [DOMAIN mcat' -> CollRecords]
      /\ DOMAIN colls' \subseteq Namespaces
      /\ colls' \in [DOMAIN colls' -> CollRecords]
      /\ late' \subseteq Namespaces /\ undone' \subseteq Namespaces
      /\ cut' \subseteq Databases /\ fails' \in 0..MaxFails
      /\ saved'.dbs \subseteq Databases /\ DOMAIN saved'.mcat \subseteq Namespaces
      /\ saved'.mcat \in [DOMAIN saved'.mcat -> CollRecords]
      /\ saved'.heaps \in [CollIDs -> SUBSET (1..MaxCreates)]
  BY <1>1, RemoveCollectionInv, Zenon
<1>4. EngineTypeOK'
  <2>1. ddl'.op \in {"idle", "create", "drop", "dropDatabase"} /\ ddl'.todo \subseteq Namespaces
    <3>1. CASE ddl' = Idle
      BY <3>1, Zenon DEF Idle
    <3>2. CASE ddl' # Idle
      BY <1>2, <3>2, Zenon
    <3> QED BY <3>1, <3>2
  <2> QED BY <1>1, <1>3, <2>1, Zenon DEF EngineTypeOK
<1>5. DdlOK'
  <2>1. ns[1] \in Databases
    BY DEF Namespaces
  <2>2. CASE ddl' = Idle
    BY <2>2, Zenon DEF DdlOK, Idle
  <2>3. CASE ddl' # Idle
    BY <1>2, <2>1, <2>3, Zenon DEF DdlOK
  <2> QED BY <2>2, <2>3
<1>6. OthersFull'
  <2> SUFFICES ASSUME NEW db \in dbs \ cut, db # ns[1]
               PROVE  \E n \in DOMAIN mcat' : n[1] = db
    BY <1>1, <1>2 DEF OthersFull, ListCollections
  <2>1. ListCollections(db) # {}
    BY <1>2 DEF OthersFull
  <2> QED BY <1>3, <2>1 DEF ListCollections
<1> QED BY <1>1, <1>3, <1>4, <1>5, <1>6

\* The last step of dropping a collection and of dropping a database.
LEMMA RemoveDatabaseInv ==
  ASSUME EInv, NEW ok \in BOOLEAN, RemoveDatabase(ok)
  PROVE  EInv'
<1> USE DEF EInv
<1>1. /\ UNCHANGED <<mcat, heaps, nextCollID, colls, held, creates, reopens, late, undone>>
      /\ ddl.op \in {"drop", "dropDatabase"} /\ ddl' = Idle
      /\ \/ /\ dbs' = dbs \ {ddl.db} /\ pgrCommit(ok)
            /\ cut' = IF ok THEN cut \ {ddl.db} ELSE cut \cup {ddl.db}
         \/ ~lastGone /\ ok /\ UNCHANGED <<dbs, saved, fails, cut>>
  BY DEF RemoveDatabase
<1>2. /\ fails' \in 0..MaxFails
      /\ Saves(ok) \/ saved' = saved
      /\ dbs' \subseteq dbs /\ cut' \subseteq cut \cup {ddl.db}
  <2>1. CASE /\ dbs' = dbs \ {ddl.db} /\ pgrCommit(ok)
             /\ cut' = IF ok THEN cut \ {ddl.db} ELSE cut \cup {ddl.db}
    <3>1. fails' \in 0..MaxFails /\ Saves(ok)
      BY <2>1, CommitSaves
    <3> QED BY <2>1, <3>1
  <2>2. CASE UNCHANGED <<dbs, saved, fails, cut>>
    BY <2>2, Zenon DEF EngineTypeOK
  <2> QED BY <1>1, <2>1, <2>2, Zenon
<1>3. ddl.db \in Databases
  <2>1. ddl.op # "idle"
    BY <1>1
  <2> QED BY <2>1, Zenon DEF DdlOK
<1>4. DdlOK'
  BY <1>1, Zenon DEF DdlOK, Idle
<1>5. EngineTypeOK'
  <2>1. dbs' \subseteq Databases /\ cut' \subseteq Databases
    BY <1>2, <1>3, Zenon DEF EngineTypeOK
  <2>2. /\ saved'.dbs \subseteq Databases /\ DOMAIN saved'.mcat \subseteq Namespaces
        /\ saved'.mcat \in [DOMAIN saved'.mcat -> CollRecords]
        /\ saved'.heaps \in [CollIDs -> SUBSET (1..MaxCreates)]
    BY <1>1, <1>2, <2>1, SavedTyped, Zenon DEF EngineTypeOK
  <2>3. ddl'.op = "idle" /\ ddl'.todo = {}
    BY <1>1, Zenon DEF Idle
  <2> QED BY <1>1, <1>2, <2>1, <2>2, <2>3, Zenon DEF EngineTypeOK
<1>6. Known' \subseteq Known
  BY <1>1, <1>2, SavedKnown, Zenon DEF Known
<1>7. KnownOnce' /\ PagesFresh'
  BY <1>1, <1>6, KnownShrinks
<1>8. HandlesAgree'
  BY <1>1, Zenon DEF HandlesAgree
<1>9. OthersFull'
  <2> SUFFICES ASSUME NEW db \in dbs' \ cut'
               PROVE  ListCollections(db) # {}
    BY <1>1 DEF OthersFull, ListCollections
  <2>1. CASE db = ddl.db
    BY <1>1, <2>1 DEF lastGone
  <2>2. CASE db # ddl.db
    BY <1>1, <2>2 DEF OthersFull
  <2> QED BY <2>1, <2>2
<1>10. Synced'
  <2>1. CASE /\ dbs' = dbs \ {ddl.db} /\ pgrCommit(ok)
             /\ cut' = IF ok THEN cut \ {ddl.db} ELSE cut \cup {ddl.db}
    <3>1. Saves(ok)
      BY <2>1, CommitSaves
    <3> QED BY <1>1, <2>1, <3>1, SyncedStep, Zenon
  <2>2. CASE UNCHANGED <<dbs, saved, fails, cut>>
    BY <1>1, <2>2, Zenon DEF Synced
  <2> QED BY <1>1, <2>1, <2>2, Zenon
<1> QED BY <1>1, <1>4, <1>5, <1>7, <1>8, <1>9, <1>10

\* The first step of dropping a database lists what there is to drop.
LEMMA DropDatabaseInv ==
  ASSUME EInv, NEW db \in Databases, DropDatabase(db)
  PROVE  EInv'
<1> USE DEF EInv
<1>1. /\ UNCHANGED <<dbs, mcat, heaps, nextCollID, colls, held, saved, creates,
                     reopens, fails, late, undone, cut>>
      /\ ddl = Idle
      /\ ddl' = [op |-> "dropDatabase", db |-> db, todo |-> ListCollections(db)]
  BY DEF DropDatabase
<1>2. ListCollections(db) \subseteq Namespaces /\ \A n \in ListCollections(db) : n[1] = db
  BY DEF ListCollections, EngineTypeOK
<1>3. Known' = Known
  BY <1>1, Zenon DEF Known
<1>4. KnownOnce' /\ PagesFresh'
  BY <1>1, <1>3, KnownShrinks
<1>5. DdlOK'
  BY <1>1, <1>2, Zenon DEF DdlOK, Idle
<1>6. EngineTypeOK'
  <2>1. ddl'.op = "dropDatabase" /\ ddl'.todo \subseteq Namespaces
    BY <1>1, <1>2, Zenon
  <2> QED BY <1>1, <2>1, Zenon DEF EngineTypeOK
<1>7. OthersFull'
  BY <1>1 DEF OthersFull, ListCollections
<1>8. HandlesAgree' /\ Synced'
  BY <1>1, Zenon DEF HandlesAgree, Synced
<1> QED BY <1>1, <1>4, <1>5, <1>6, <1>7, <1>8

\* Taking a handle from the table, and giving it up.
LEMMA HandleInv ==
  ASSUME EInv, NEW c \in Clients,
         Rollback(c) \/ \E ns \in Namespaces : GetCollection(c, ns)
  PROVE  EInv'
<1> USE DEF EInv
<1>1. UNCHANGED <<dbs, mcat, heaps, nextCollID, colls, ddl, saved, creates, reopens,
                  fails, late, undone, cut>>
  BY DEF Rollback, GetCollection
<1>2. \E S : /\ held' = [held EXCEPT ![c] = S] /\ Cardinality(S) <= 1
             /\ S \subseteq {[ns |-> n, rec |-> colls[n]] : n \in DOMAIN colls}
  <2>1. CASE Rollback(c)
    <3> DEFINE S == {}
    <3>1. /\ held' = [held EXCEPT ![c] = S] /\ Cardinality(S) <= 1
          /\ S \subseteq {[ns |-> n, rec |-> colls[n]] : n \in DOMAIN colls}
      BY <2>1, FS_EmptySet DEF Rollback
    <3> HIDE DEF S
    <3> QED BY <3>1, Zenon
  <2>2. CASE \E ns \in Namespaces : GetCollection(c, ns)
    <3>1. PICK ns \in Namespaces : GetCollection(c, ns)
      BY <2>2
    <3>2. Cardinality({[ns |-> ns, rec |-> colls[ns]]}) = 1
      BY FS_Singleton, Zenon
    <3> DEFINE S == {[ns |-> ns, rec |-> colls[ns]]}
    <3>3. /\ held' = [held EXCEPT ![c] = S] /\ Cardinality(S) <= 1
          /\ S \subseteq {[ns |-> n, rec |-> colls[n]] : n \in DOMAIN colls}
      BY <3>1, <3>2 DEF GetCollection
    <3> HIDE DEF S
    <3> QED BY <3>3, Zenon
  <2> QED BY <2>1, <2>2
<1>3. PICK S : /\ held' = [held EXCEPT ![c] = S] /\ Cardinality(S) <= 1
               /\ S \subseteq {[ns |-> n, rec |-> colls[n]] : n \in DOMAIN colls}
  BY <1>2, Zenon
<1>4. EngineTypeOK'
  <2>1. S \subseteq [ns : Namespaces, rec : CollRecords]
    BY <1>3 DEF EngineTypeOK
  <2> QED BY <1>1, <1>3, <2>1 DEF EngineTypeOK
<1>5. Known' \subseteq Known
  <2>1. \A d \in Clients : held'[d] = IF d = c THEN S ELSE held[d]
    BY <1>3 DEF EngineTypeOK
  <2>2. \A h \in S : <<h.ns, h.rec>> \in Pairs(colls)
    BY <1>3 DEF Pairs
  <2>3. \A h \in UNION {held'[d] : d \in Clients} :
          h \in S \/ h \in UNION {held[d] : d \in Clients}
    BY <2>1
  <2> QED BY <1>1, <2>2, <2>3 DEF Known
<1>6. KnownOnce' /\ PagesFresh'
  BY <1>1, <1>5, KnownShrinks
<1> QED
  BY <1>1, <1>4, <1>6, Zenon
     DEF DdlOK, HandlesAgree, OthersFull, Synced, ListCollections

\* A commit through a handle the table may have lost: it writes pages of its
\* own id and may put its own record back.
LEMMA CommitInsertInv ==
  ASSUME EInv, NEW c \in Clients, NEW ok \in BOOLEAN, CommitInsert(c, ok)
  PROVE  EInv'
<1> USE DEF EInv
<1>1. PICK h \in held[c] :
        /\ heaps' = [heaps EXCEPT ![h.rec.id] = @ \cup {h.rec.inc}]
        /\ \/ mcat' = mcat /\ late' = late /\ undone' = undone /\ cut' = cut
           \/ /\ mcat' = put(mcat, h.ns, h.rec)
              /\ \/ late' = late \cup {h.ns} /\ undone' = undone
                 \/ /\ h.ns \in DOMAIN colls /\ colls[h.ns] = h.rec
                    /\ late' = late /\ undone' = undone \ {h.ns}
              /\ cut' = IF ok \/ h.ns \in DOMAIN mcat THEN cut ELSE cut \cup {h.ns[1]}
        /\ held' = [held EXCEPT ![c] = {}]
        /\ UNCHANGED <<dbs, nextCollID, colls, ddl, creates, reopens>>
        /\ pgrCommit(ok)
  BY Zenon DEF CommitInsert
<1>2. h \in [ns : Namespaces, rec : CollRecords]
  BY DEF EngineTypeOK
<1>3. h.ns \in Namespaces /\ h.rec \in CollRecords
      /\ h.rec.id \in CollIDs /\ h.rec.inc \in 1..MaxCreates
  BY <1>2 DEF CollRecords
<1>4. <<h.ns, h.rec>> \in Known
  BY DEF Known
<1>12. fails' \in 0..MaxFails /\ Saves(ok)
  BY <1>1, CommitSaves
<1>5. Known' \subseteq Known
  <2>1. \A d \in Clients : held'[d] \subseteq held[d]
    BY <1>1 DEF EngineTypeOK
  <2>2. {<<h1.ns, h1.rec>> : h1 \in UNION {held'[d] : d \in Clients}}
          \subseteq {<<h1.ns, h1.rec>> : h1 \in UNION {held[d] : d \in Clients}}
    BY <2>1
  <2>3. Pairs(mcat') \subseteq Pairs(mcat) \cup {<<h.ns, h.rec>>}
    BY <1>1 DEF Pairs, put
  <2>4. Pairs(saved'.mcat) \subseteq Pairs(mcat') \cup Pairs(saved.mcat)
    BY <1>12, SavedKnown, Zenon
  <2> QED BY <1>1, <1>4, <2>2, <2>3, <2>4, Zenon DEF Known
<1>6. EngineTypeOK'
  <2>1. /\ DOMAIN mcat' \subseteq Namespaces /\ mcat' \in [DOMAIN mcat' -> CollRecords]
        /\ late' \subseteq Namespaces /\ undone' \subseteq Namespaces
        /\ cut' \subseteq Databases
    BY <1>1, <1>3 DEF EngineTypeOK, put, Namespaces
  <2>2. heaps' \in [CollIDs -> SUBSET (1..MaxCreates)]
    BY <1>1, <1>3 DEF EngineTypeOK
  <2>3. /\ held' \in [Clients -> SUBSET [ns : Namespaces, rec : CollRecords]]
        /\ \A d \in Clients : Cardinality(held'[d]) <= 1
    BY <1>1, FS_EmptySet DEF EngineTypeOK
  <2>4. /\ saved'.dbs \subseteq Databases /\ DOMAIN saved'.mcat \subseteq Namespaces
        /\ saved'.mcat \in [DOMAIN saved'.mcat -> CollRecords]
        /\ saved'.heaps \in [CollIDs -> SUBSET (1..MaxCreates)]
    BY <1>1, <1>12, <2>1, <2>2, SavedTyped, Zenon DEF EngineTypeOK
  <2> QED BY <1>1, <1>12, <2>1, <2>2, <2>3, <2>4, Zenon DEF EngineTypeOK
<1>7. KnownOnce'
  BY <1>1, <1>5 DEF KnownOnce
<1>8. PagesFresh'
  <2> SUFFICES ASSUME reopens = 0
               PROVE  /\ \A id \in CollIDs : id >= nextCollID => heaps'[id] = {}
                      /\ \A p \in Known' : heaps'[p[2].id] \subseteq {p[2].inc}
    BY <1>1 DEF PagesFresh
  <2>1. \A id \in CollIDs :
          heaps'[id] = IF id = h.rec.id THEN heaps[id] \cup {h.rec.inc} ELSE heaps[id]
    BY <1>1, Zenon DEF EngineTypeOK
  <2>2. h.rec.id < nextCollID /\ nextCollID \in Nat /\ h.rec.id \in Nat
    BY <1>3, <1>4, CollIDsNat DEF KnownOnce, EngineTypeOK
  <2>3. \A id \in CollIDs : id >= nextCollID => heaps'[id] = {}
    <3> SUFFICES ASSUME NEW id \in CollIDs, id >= nextCollID
                 PROVE  heaps'[id] = {}
      OBVIOUS
    <3>1. id \in Nat
      BY CollIDsNat
    <3>2. id # h.rec.id
      BY <2>2, <3>1
    <3> QED BY <2>1, <3>2, Zenon DEF PagesFresh
  <2>4. ASSUME NEW p \in Known
        PROVE  heaps'[p[2].id] \subseteq {p[2].inc}
    <3>1. p[2].id \in CollIDs /\ heaps[p[2].id] \subseteq {p[2].inc}
      BY KnownTyped DEF PagesFresh, CollRecords
    <3>2. p[2].id = h.rec.id => p[2].inc = h.rec.inc
      BY <1>4 DEF KnownOnce
    <3> QED BY <2>1, <3>1, <3>2, Zenon
  <2> QED BY <2>3, <2>4, <1>5
<1>9. HandlesAgree'
  <2>1. CASE mcat' = mcat /\ late' = late /\ undone' = undone
    BY <1>1, <2>1 DEF HandlesAgree
  <2>2. CASE mcat' = put(mcat, h.ns, h.rec) /\ late' = late \cup {h.ns} /\ undone' = undone
    BY <1>1, <2>2 DEF HandlesAgree, put
  <2>3. CASE /\ mcat' = put(mcat, h.ns, h.rec) /\ h.ns \in DOMAIN colls
             /\ colls[h.ns] = h.rec /\ late' = late /\ undone' = undone \ {h.ns}
    BY <1>1, <2>3 DEF HandlesAgree, put
  <2> QED BY <1>1, <2>1, <2>2, <2>3, Zenon
<1>10. OthersFull'
  <2>1. DOMAIN mcat \subseteq DOMAIN mcat'
    BY <1>1 DEF put
  <2>2. cut \subseteq cut'
    BY <1>1
  <2> QED BY <1>1, <2>1, <2>2 DEF OthersFull, ListCollections
<1>11. DdlOK'
  BY <1>1, Zenon DEF DdlOK
<1>13. Synced'
  <2>1. CASE mcat' = mcat /\ cut' = cut
    BY <1>1, <1>12, <2>1, SyncedStep, Zenon
  <2>2. CASE /\ mcat' = put(mcat, h.ns, h.rec)
             /\ cut' = IF ok \/ h.ns \in DOMAIN mcat THEN cut ELSE cut \cup {h.ns[1]}
    <3>1. DOMAIN mcat' = DOMAIN mcat \cup {h.ns}
      BY <2>2 DEF put
    <3> QED BY <1>1, <1>12, <2>2, <3>1, SyncedStep, Zenon
  <2> QED BY <1>1, <2>1, <2>2, Zenon
<1>14. UNCHANGED <<nextCollID, creates>>
  BY <1>1
<1> HIDE DEF EInv
<1> QED
  BY <1>6, <1>7, <1>8, <1>9, <1>10, <1>11, <1>13, <1>14, Zenon DEF EInv

\* The allocator seeded from a catalog is above every id in it, and is an
\* id it could have given out.
LEMMA SeedAbove ==
  ASSUME EInv, NEW cat, Pairs(cat) \subseteq Known,
         cat \in [DOMAIN cat -> CollRecords]
  PROVE  /\ \A ns \in DOMAIN cat : cat[ns].id < seedCollID(cat)
         /\ seedCollID(cat) \in CollIDs
         /\ seedCollID(cat) <= FirstUserCollID + CollIDStride * creates
<1> USE DEF EInv
<1> DEFINE S == {cat[ns].id : ns \in DOMAIN cat}
           top == FirstUserCollID + CollIDStride * MaxCreates
<1>1. creates \in 0..MaxCreates /\ nextCollID \in CollIDs
  BY DEF EngineTypeOK
<1>2. /\ FirstUserCollID = FirstUserCollID + CollIDStride * 0 /\ 0 \in 0..MaxCreates
      /\ FirstUserCollID <= FirstUserCollID + CollIDStride * creates
  BY <1>1, EngineAssumption DEF FirstUserCollID, CollIDStride
<1>3. FirstUserCollID \in CollIDs
  BY <1>2, CollIDsNat
<1>4. CASE DOMAIN cat = {}
  <2>1. seedCollID(cat) = FirstUserCollID
    BY <1>4 DEF seedCollID, MaxCollID, FirstUserCollID
  <2> QED BY <1>2, <1>3, <1>4, <2>1
<1>5. CASE DOMAIN cat # {}
  <2>1. S # {} /\ \A x \in S : x \in CollIDs /\ x < nextCollID
    <3>1. \A ns \in DOMAIN cat : <<ns, cat[ns]>> \in Known
      BY DEF Pairs
    <3>2. \A ns \in DOMAIN cat : cat[ns].id < nextCollID
      BY <3>1, Zenon DEF KnownOnce
    <3>3. \A ns \in DOMAIN cat : cat[ns].id \in CollIDs
      BY DEF CollRecords
    <3> QED BY <1>5, <3>2, <3>3
  <2>2. top \in Nat /\ S \in SUBSET (0..top)
    <3> HIDE DEF S
    <3>1. top \in Nat
      BY EngineAssumption DEF FirstUserCollID, CollIDStride
    <3>2. \A x \in CollIDs : x \in 0..top
      BY CollIDsNat, EngineAssumption DEF FirstUserCollID, CollIDStride
    <3> QED BY <2>1, <3>1, <3>2
  <2>3. MaxCollID(cat) \in S /\ \A x \in S : x <= MaxCollID(cat)
    <3> HIDE DEF top
    <3>1. Max(S) \in S /\ \A x \in S : x <= Max(S)
      BY <2>1, <2>2, MaxBounded, Zenon
    <3> QED BY <1>5, <3>1, Zenon DEF MaxCollID
  <2> HIDE DEF S
  <2>4. MaxCollID(cat) \in CollIDs /\ MaxCollID(cat) < nextCollID
    BY <2>1, <2>3
  <2>5. MaxCollID(cat) \in Nat /\ MaxCollID(cat) >= FirstUserCollID
    BY <2>4, CollIDsNat, EngineAssumption DEF FirstUserCollID, CollIDStride
  <2>6. seedCollID(cat) = MaxCollID(cat) + CollIDStride
    BY <2>5 DEF seedCollID
  <2>7. MaxCollID(cat) + CollIDStride <= nextCollID
    BY <1>1, <2>4, CollIDsNat
  <2>8. seedCollID(cat) \in Nat /\ nextCollID \in Nat /\ seedCollID(cat) <= nextCollID
    BY <1>1, <2>5, <2>6, <2>7, CollIDsNat DEF CollIDStride
  <2>9. seedCollID(cat) <= FirstUserCollID + CollIDStride * creates
    BY <1>1, <2>8 DEF FirstUserCollID, CollIDStride
  <2>10. seedCollID(cat) \in CollIDs
    <3>1. PICK n \in 0..MaxCreates : nextCollID = 16 + 16 * n
      BY <1>1 DEF CollIDs, FirstUserCollID, CollIDStride
    <3>2. PICK m \in 0..MaxCreates : MaxCollID(cat) = 16 + 16 * m
      BY <2>4 DEF CollIDs, FirstUserCollID, CollIDStride
    <3>3. m + 1 \in 0..MaxCreates /\ seedCollID(cat) = 16 + 16 * (m + 1)
      BY <2>4, <2>6, <3>1, <3>2, EngineAssumption DEF CollIDStride
    <3> QED BY <3>3 DEF CollIDs, FirstUserCollID, CollIDStride
  <2>11. \A x \in S : x \in Nat
    BY <2>1, CollIDsNat, Zenon
  <2>12. \A x \in S : x < seedCollID(cat)
    BY <2>3, <2>5, <2>6, <2>11 DEF CollIDStride
  <2> QED BY <2>9, <2>10, <2>12 DEF S
<1> QED BY <1>4, <1>5, Zenon

\* Opening the file again.
LEMMA OpenInv ==
  ASSUME EInv, Open
  PROVE  EInv'
<1> USE DEF EInv
<1>1. /\ reopens < MaxReopens /\ reopens' = reopens + 1
      /\ dbs' = saved.dbs /\ mcat' = saved.mcat /\ heaps' = saved.heaps
      /\ nextCollID' = seedCollID(saved.mcat) /\ colls' = saved.mcat
      /\ held' = [c \in Clients |-> {}]
      /\ ddl' = Idle /\ late' = {} /\ undone' = {}
      /\ cut' = IF ddl = Idle THEN cut ELSE cut \cup {ddl.db}
      /\ UNCHANGED <<saved, creates, fails>>
  BY DEF Open
<1>2. Known' = Pairs(saved.mcat)
  <2>1. UNION {held'[c] : c \in Clients} = {}
    BY <1>1
  <2> QED BY <1>1, <2>1, Zenon DEF Known
<1>9. /\ \A ns \in DOMAIN saved.mcat : saved.mcat[ns].id < seedCollID(saved.mcat)
      /\ seedCollID(saved.mcat) \in CollIDs
      /\ seedCollID(saved.mcat) <= FirstUserCollID + CollIDStride * creates
  <2>1. Pairs(saved.mcat) \subseteq Known /\ saved.mcat \in [DOMAIN saved.mcat -> CollRecords]
    BY Zenon DEF Known, EngineTypeOK
  <2> QED BY <2>1, SeedAbove, Zenon
<1>3. EngineTypeOK'
  <2>1. cut' \subseteq Databases
    BY <1>1, Zenon DEF EngineTypeOK, DdlOK, Idle
  <2>2. reopens' \in 0..MaxReopens
    BY <1>1, EngineAssumption DEF EngineTypeOK
  <2>3. ddl'.op = "idle" /\ ddl'.todo = {}
    BY <1>1, Zenon DEF Idle
  <2>4. /\ held' \in [Clients -> SUBSET [ns : Namespaces, rec : CollRecords]]
        /\ \A c \in Clients : Cardinality(held'[c]) <= 1
    BY <1>1, FS_EmptySet
  <2> QED BY <1>1, <1>9, <2>1, <2>2, <2>3, <2>4, Zenon DEF EngineTypeOK
<1>4. KnownOnce'
  <2>1. Known' \subseteq Known
    BY <1>2, Zenon DEF Known
  <2>2. \A p \in Known' : p[2].id < nextCollID'
    BY <1>1, <1>2, <1>9 DEF Pairs
  <2> QED BY <2>1, <2>2 DEF KnownOnce
<1>5. PagesFresh'
  <2>1. reopens' # 0
    BY <1>1 DEF EngineTypeOK
  <2> QED BY <2>1 DEF PagesFresh
<1>6. DdlOK'
  BY <1>1, Zenon DEF DdlOK, Idle
<1>7. HandlesAgree'
  BY <1>1 DEF HandlesAgree
<1>8. OthersFull'
  <2> SUFFICES ASSUME NEW db \in saved.dbs \ cut'
               PROVE  \E n \in DOMAIN saved.mcat : n[1] = db
    BY <1>1 DEF OthersFull, ListCollections
  <2>1. db \in Databases \ cut /\ (ddl = Idle \/ db # ddl.db)
    BY <1>1 DEF EngineTypeOK
  <2>2. ListCollections(db) # {}
    BY <2>1 DEF OthersFull, Synced
  <2>3. PICK n \in DOMAIN mcat : n[1] = db
    BY <2>2 DEF ListCollections
  <2>4. n \in Namespaces
    BY DEF EngineTypeOK
  <2> QED BY <2>1, <2>3, <2>4, Zenon DEF Synced
<1>10. Synced'
  BY <1>1, Zenon DEF Synced
<1> QED BY <1>1, <1>3, <1>4, <1>5, <1>6, <1>7, <1>8, <1>9, <1>10, Zenon

LEMMA InitEInv == EngineInit => EInv
<1> SUFFICES ASSUME EngineInit PROVE EInv
  OBVIOUS
<1> USE DEF EngineInit
<1>1. DOMAIN mcat = {} /\ DOMAIN colls = {} /\ \A c \in Clients : held[c] = {}
  OBVIOUS
<1>7. saved.dbs = dbs /\ saved.mcat = mcat /\ saved.heaps = heaps
  BY Zenon DEF staged
<1>2. Known = {}
  BY <1>1, <1>7 DEF Known, Pairs
<1>3. FirstUserCollID = FirstUserCollID + CollIDStride * creates /\ 0 \in 0..MaxCreates
  BY EngineAssumption DEF FirstUserCollID, CollIDStride
<1>4. nextCollID \in CollIDs
  BY <1>3, CollIDsNat
<1>5. EngineTypeOK
  <2>1. mcat \in [{} -> CollRecords] /\ colls \in [{} -> CollRecords]
    BY <1>1
  <2>2. /\ creates \in 0..MaxCreates /\ reopens \in 0..MaxReopens /\ fails \in 0..MaxFails
        /\ ddl.op = "idle" /\ ddl.todo = {}
    <3>1. creates = 0 /\ reopens = 0 /\ fails = 0 /\ ddl = Idle
      OBVIOUS
    <3> HIDE DEF EngineInit
    <3>2. ddl.op = "idle" /\ ddl.todo = {}
      BY <3>1, Zenon DEF Idle
    <3> QED BY <3>1, <3>2, EngineAssumption
  <2>3. /\ held \in [Clients -> SUBSET [ns : Namespaces, rec : CollRecords]]
        /\ \A c \in Clients : Cardinality(held[c]) <= 1
        /\ heaps \in [CollIDs -> SUBSET (1..MaxCreates)]
        /\ dbs = {} /\ late = {} /\ undone = {} /\ cut = {}
    BY FS_EmptySet
  <2> HIDE DEF EngineInit
  <2> QED BY <1>1, <1>4, <1>7, <2>1, <2>2, <2>3, Zenon DEF EngineTypeOK
<1>6. nextCollID <= FirstUserCollID + CollIDStride * creates
  BY <1>3 DEF FirstUserCollID, CollIDStride
<1> QED
  BY <1>1, <1>2, <1>5, <1>6, <1>7, Zenon
     DEF EInv, KnownOnce, DdlOK, Idle, HandlesAgree, OthersFull, Synced, PagesFresh

LEMMA NextEInv ==
  ASSUME EInv, [EngineNext]_engineVars
  PROVE  EInv'
<1>1. ASSUME NEW ns \in Namespaces, NEW ok \in BOOLEAN, createLocked(ns, ok) PROVE EInv'
  BY <1>1, CreateLockedInv
<1>2. ASSUME NEW ns \in Namespaces, NEW ok \in BOOLEAN, createFinish(ns, ok) PROVE EInv'
  BY <1>2, CreateFinishInv
<1>3. ASSUME NEW ns \in Namespaces, NEW ok \in BOOLEAN,
             DropCollection(ns, ok) \/ dropNext(ns, ok)
      PROVE  EInv'
  BY <1>3, DropInv
<1>4. ASSUME NEW ok \in BOOLEAN, RemoveDatabase(ok) PROVE EInv'
  BY <1>4, RemoveDatabaseInv
<1>9. ASSUME NEW db \in Databases, DropDatabase(db) PROVE EInv'
  BY <1>9, DropDatabaseInv
<1>5. ASSUME NEW c \in Clients,
             Rollback(c) \/ \E ns \in Namespaces : GetCollection(c, ns)
      PROVE  EInv'
  BY <1>5, HandleInv
<1>6. ASSUME NEW c \in Clients, NEW ok \in BOOLEAN, CommitInsert(c, ok) PROVE EInv'
  BY <1>6, CommitInsertInv
<1>7. CASE Open
  BY <1>7, OpenInv
<1>8. CASE UNCHANGED engineVars
  <2>1. Known' = Known
    BY <1>8 DEF engineVars, Known
  <2>2. KnownOnce' /\ PagesFresh'
    BY <1>8, <2>1, KnownShrinks DEF engineVars, EInv
  <2>3. EngineTypeOK' /\ DdlOK'
    BY <1>8, Zenon DEF engineVars, EInv, EngineTypeOK, DdlOK
  <2>4. HandlesAgree' /\ OthersFull' /\ Synced'
    BY <1>8, Zenon DEF engineVars, EInv, HandlesAgree, OthersFull, Synced, ListCollections
  <2> QED BY <1>8, <2>2, <2>3, <2>4 DEF engineVars, EInv
<1> QED
  BY <1>1, <1>2, <1>3, <1>4, <1>5, <1>6, <1>7, <1>8, <1>9, Zenon
     DEF EngineNext, EngineFinished

LEMMA EInvAlways == EngineSpec => []EInv
BY InitEInv, NextEInv, PTL DEF EngineSpec

\* Every record, handle and page stays within its type; the allocator in
\* particular never leaves the ids of the creations counted so far, although
\* Open recomputes it (engine.go, seedCollID).
THEOREM EngineTypeCorrect == EngineSpec => []EngineTypeOK
<1>1. EInv => EngineTypeOK
  BY DEF EInv
<1> QED BY <1>1, EInvAlways, PTL

\* No two collections of the catalog ever share an id, hence heap pages, and
\* the allocator stays above the ids in use: through drops, late commits of
\* transactions that outlive a drop, commits that fail, crashes in the middle of
\* a DDL operation, and the reseeding at Open from what the file kept.
THEOREM CollIDsAlwaysDistinct == EngineSpec => []CollIDsDistinct
<1>1. EInv => CollIDsDistinct
  <2> SUFFICES ASSUME EInv PROVE CollIDsDistinct
    OBVIOUS
  <2>1. \A ns \in DOMAIN mcat : <<ns, mcat[ns]>> \in Known
    BY DEF Known, Pairs
  <2>2. ASSUME NEW ns1 \in DOMAIN mcat, NEW ns2 \in DOMAIN mcat,
               mcat[ns1].id = mcat[ns2].id
        PROVE  ns1 = ns2
    <3>1. <<ns1, mcat[ns1]>> = <<ns2, mcat[ns2]>>
      BY <2>1, <2>2, Zenon DEF EInv, KnownOnce
    <3> QED BY <3>1
  <2>3. \A ns \in DOMAIN mcat : mcat[ns].id < nextCollID
    BY <2>1, Zenon DEF EInv, KnownOnce
  <2> QED BY <2>2, <2>3 DEF CollIDsDistinct
<1> QED BY <1>1, EInvAlways, PTL

\* Between DDL operations the table of handles mirrors the catalog, but for the
\* namespaces staged late and those that a failing commit left half done, and no
\* database record is without a collection, but for an operation that a crash or
\* a failing commit cut short: also when a later commit saves what the failed one
\* had staged, and when the file is opened without it (DropCollection,
\* DropDatabase, createLocked, Open).
THEOREM CatalogAlwaysInStep == EngineSpec => []CatalogInStep
<1>1. EInv => CatalogInStep
  BY DEF EInv, CatalogInStep, HandlesMatchCatalog, NoEmptyDatabase, HandlesAgree,
         OthersFull
<1> QED BY <1>1, EInvAlways, PTL

\* Until the file is reopened no collection reads a document of one dropped
\* before it, whoever still writes through an old handle.
THEOREM NoDroppedDocumentsEver == EngineSpec => []NoDroppedDocumentsWhileOpen
<1>1. EInv => NoDroppedDocumentsWhileOpen
  <2> SUFFICES ASSUME EInv, reopens = 0, NEW ns \in DOMAIN colls
               PROVE  heaps[colls[ns].id] \subseteq {colls[ns].inc}
    BY DEF NoDroppedDocumentsWhileOpen, NoDroppedDocuments
  <2>1. <<ns, colls[ns]>> \in Known
    BY DEF Known, Pairs
  <2> QED BY <2>1 DEF EInv, PagesFresh
<1> QED BY <1>1, EInvAlways, PTL
=============================================================================
