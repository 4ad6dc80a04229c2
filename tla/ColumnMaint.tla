---------------------------- MODULE ColumnMaint -----------------------------
(* How a collection's commits reach its column store (collection/ops.go     *)
(* Txn.Commit, changefeed.go changeRecords, columnstore.go).                *)
(*                                                                          *)
(* Creating or opening a collection builds the store from the heap.  A commit publishes *)
(* its version first; its goroutine then derives the change records and     *)
(* applies them to the store, in a critical section of the store and after  *)
(* the commit lock is gone, so the records of two commits arrive in any     *)
(* order and a reader may come before them.                                 *)
EXTENDS Columns

CONSTANTS
  DocKeys,       \* the _id values, a set of numbers
  Contents,      \* what a document may hold beside its _id, sequences of fields
  Fields,        \* the projected fields, a sequence
  Modes,         \* maintenance modes the catalog may ask for
  MaxVer         \* bound: commits

VARIABLES
  heap,      \* version -> key -> document or NoDoc, a sequence from version 0
  commits,   \* committed, records not yet applied: [ver, recs]
  store,     \* the column store
  built,     \* history: the version the store was built from
  applied    \* history: versions applied since, in the order of arrival

columnVars == <<heap, commits, store, built, applied>>

NoDoc == Object(<<>>)
document(k, c) == Object(<<Field("_id", Int32(k))>> \o c)
ver == Len(heap) - 1
heapAt(v) == heap[v + 1]
\* Find over the whole collection: the live documents in key order.
liveDocs(snapshot) ==
    LET ks == SetToSortSeq({k \in DocKeys : snapshot[k] # NoDoc}, <)
    IN  [i \in DOMAIN ks |-> snapshot[ks[i]]]

applyRecord(s, r, v) ==
    CASE r.op = "insert" -> Insert(s, r.doc, v)
      [] r.op = "update" -> Update(s, r.before, r.doc, v)
      [] r.op = "delete" -> Delete(s, r.before, v)

\* changeRecords of a transaction that leaves docs at its keys.
recordOf(before, doc) ==
    [op |-> IF doc = NoDoc THEN "delete" ELSE IF before = NoDoc THEN "insert" ELSE "update",
     before |-> before, doc |-> doc]

EnableColumnStore(mode, snapshot, v) == Rebuild(NewStore(mode, Fields), liveDocs(snapshot), v)

ColumnInit ==
  /\ heap = <<[k \in DocKeys |-> NoDoc]>>
  /\ commits = {}
  /\ \E mode \in Modes : store = EnableColumnStore(mode, heapAt(0), 0)
  /\ built = 0
  /\ applied = <<>>

\* A transaction wrote the keys of touched, one after the other.
Commit(touched, docs) ==
  /\ ver < MaxVer
  /\ \A k \in touched : docs[k] # NoDoc \/ heapAt(ver)[k] # NoDoc
  /\ LET order == SetToSortSeq(touched, <)
     IN  commits' = commits \cup {[ver |-> ver + 1,
            recs |-> [i \in DOMAIN order |-> recordOf(heapAt(ver)[order[i]], docs[order[i]])]]}
  /\ heap' = Append(heap, [k \in DocKeys |-> IF k \in touched THEN docs[k] ELSE heapAt(ver)[k]])
  /\ UNCHANGED <<store, built, applied>>

\* A lazy store ignores the records.
maintainColumn(c) ==
  /\ c \in commits
  /\ commits' = commits \ {c}
  /\ store' = IF store.mode # "transactional" THEN store
              ELSE FoldLeft(LAMBDA s, r : applyRecord(s, r, c.ver), store, c.recs)
  /\ applied' = Append(applied, c.ver)
  /\ UNCHANGED <<heap, built>>

\* The file is closed, or the process dies, and is opened again.
Reopen ==
  /\ ver > built
  /\ commits' = {}
  /\ store' = EnableColumnStore(store.mode, heapAt(ver), ver)
  /\ built' = ver
  /\ applied' = <<>>
  /\ UNCHANGED heap

ColumnNext ==
  \/ \E touched \in (SUBSET DocKeys) \ {{}} :
       \E docs \in [touched -> {NoDoc} \cup UNION {{document(k, c) : c \in Contents} : k \in touched}] :
         /\ \A k \in touched : docs[k] # NoDoc => Lookup(docs[k], "_id") = Int32(k)
         /\ Commit(touched, docs)
  \/ \E c \in commits : maintainColumn(c)
  \/ Reopen

ColumnSpec == ColumnInit /\ [][ColumnNext]_columnVars

-----------------------------------------------------------------------------
(* What the store shows.                                                    *)

Count(rows, r) == Cardinality({i \in DOMAIN rows : rows[i] = r})
SameRows(p, q) == ToSet(p) = ToSet(q) /\ \A r \in ToSet(p) : Count(p, r) = Count(q, r)
RowsAt(s, snap) == scan(s, snap, Fields, <<>>)
HeapRows(snapshot) ==
    LET ds == liveDocs(snapshot)
    IN  [i \in DOMAIN ds |-> [j \in DOMAIN Fields |-> FromField(ds[i], Fields[j])]]

InOrder == \A i \in DOMAIN applied : applied[i] = built + i

(* The fields of a store have the same segments of consecutive rows and     *)
(* buffers of the same length, a full buffer is sealed, and every live row  *)
(* lies where tombstones look for it (store.go insertLocked, flushLocked,   *)
(* locateBound).                                                            *)
ColumnTypeOK ==
    /\ Len(store.bufRIDs) < SegmentSize
    /\ \A f \in ToSet(Fields) :
          /\ Len(store.segs[f]) = Len(store.bounds)
          /\ Len(store.bufVals[f]) = Len(store.bufRIDs)
          /\ \A k \in DOMAIN store.bounds :
                store.segs[f][k].rids = [i \in 1..store.bounds[k].n |-> store.bounds[k].first + i - 1]
    /\ \A key \in DOMAIN store.live :
          \/ locateBound(store, store.live[key]) # 0
          \/ store.live[key] \in ToSet(store.bufRIDs)

(* Records applied in commit order give every snapshot since the store was  *)
(* built, up to the last one applied, exactly the rows of the heap, whether *)
(* they were updated or deleted in the buffer or in a sealed segment        *)
(* (store.go Insert, Update, Delete; Segment.visible).                      *)
ColumnsFollowCommits ==
    store.mode = "transactional" /\ InOrder =>
        \A snap \in built..(built + Len(applied)) :
            SameRows(RowsAt(store, snap), HeapRows(heapAt(snap)))
=============================================================================
