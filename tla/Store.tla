-------------------------------- MODULE Store -------------------------------
(* One collection on its pages: a commit applied to the record store, the    *)
(* _id index and a secondary index (collection/ops.go apply, publish), the   *)
(* index's creation and drop (collection/indexes.go), reopening after a      *)
(* crash (collection/collection.go rebuild), and a reader that goes through  *)
(* the secondary index (collection/plansource.go).                           *)
(*                                                                           *)
(* A document is [id, x, len]; x is the set of its keys in the secondary  *)
(* index: several for an array, none when the sparse or partial rule leaves  *)
(* it out.  The store is [file, heap, root, saved]; saved is what the        *)
(* catalog pages say: the kind of the secondary index and the two roots.     *)
(* What the pager makes durable is module Pager's subject: a crash takes the *)
(* store back to its last pager commit.                                      *)
EXTENDS HeapOps, BTreeOps

CONSTANTS
    XFields,      \* keys of the secondary index that are looked up
    StoreSetups,  \* sequences of documents the collection begins with
    Transactions, \* sequences of [id, doc]; doc is <<>> for a delete, else <<document>>
    MaxCommits, MaxBuilds, MaxCrashes, MaxReads,
    MaxEvents     \* builds, crashes and reads together

VARIABLES
    sst,      \* the store as the process sees it
    kind,     \* the secondary index the process has open: none, plain, unique
    durable,  \* the file and the catalog at the last pager commit
    overlay,  \* _id -> [rid, doc]: the latest committed version
    txn,      \* the commit being applied: [ops, i, rids, on]
    build,    \* the index build under way: [on, unique, rows]
    rd,       \* the reader
    cnt,      \* commits, builds, crashes and reads so far
    gone      \* what the recorded properties have to exempt

svars == <<sst, kind, durable, overlay, txn, build, rd, cnt, gone>>

NoFn == [x \in {} |-> 0]
NoRoots == [id |-> NullPage, sec |-> NullPage]
EmptyStore == [file |-> NewFile, heap |-> EmptyHeap, root |-> NoRoots,
               saved |-> [kind |-> "none", root |-> NoRoots]]
NoTxn == [on |-> FALSE, ops |-> <<>>, i |-> 1, rids |-> NoFn]
NoBuild == [on |-> FALSE, unique |-> FALSE, rows |-> <<>>]
NoRead == [phase |-> "idle", snap |-> NoFn, ver |-> 0, x |-> 0, c |-> EndCursor, got |-> {}, raced |-> FALSE]

secKeys(doc) == SetToSortSeq(doc.x, LAMBDA a, b : a < b)

fine(st) == [st |-> st, err |-> "ok"]

\* Put of each field in turn, from r = [st, err] on; an error ends it.
RECURSIVE putEach(_, _, _, _)
putEach(r, unique, fields, rid) ==
    IF r.err # "ok" \/ fields = <<>> THEN r
    ELSE putEach(Put(r.st, "sec", unique, Head(fields), rid), unique, Tail(fields), rid)

insertSecondary(r, k, doc, rid) ==
    IF k = "none" THEN r ELSE putEach(r, k = "unique", secKeys(doc), rid)

\* deleteSecondary tolerates an entry that is not there.
deleteSecondary(st, k, doc, rid) ==
    IF k = "none" THEN st
    ELSE FoldLeft(LAMBDA s, f : DeleteKey(s, "sec", f, rid).st, st, secKeys(doc))

\* The removing half of one operation of apply.
applyRemove(st, k, id, old) ==
    LET after(r) == IF r.err # "ok" THEN r ELSE fine(deleteSecondary(r.st, k, old.doc, old.rid))
    IN  after(DeleteKey(Delete(st, old.rid), "id", id, old.rid))

\* The inserting half: [st, err, rid].
indexInserted(h, k, doc) ==
    LET result(r) == [st |-> r.st, err |-> r.err, rid |-> h.rid]
    IN  result(insertSecondary(Put(h.st, "id", TRUE, doc.id, h.rid), k, doc, h.rid))

applyInsert(st, k, doc, version) == indexInserted(Insert(st, doc, version), k, doc)

\* Both halves; r is the outcome of the first.
insertAfter(r, k, op, version) ==
    IF r.err # "ok" \/ op.doc = <<>> THEN r ELSE applyInsert(r.st, k, op.doc[1], version)

applyOp(st, k, op, over, version) ==
    insertAfter(IF op.id \in DOMAIN over THEN applyRemove(st, k, op.id, over[op.id]) ELSE fine(st),
                k, op, version)

\* checkUniqueSecondary on one transaction: the documents it inserts share no
\* key, and no key belongs to a record it does not remove.
collides(st, docs, removing) ==
    \E d \in docs : \E f \in d.x :
        \/ \E e \in docs \ {d} : f \in e.x
        \/ Range(get(st, "sec", f)) \ removing # {}


\* The catalog and the _id root are staged when they changed.
stage(st, k) == [st EXCEPT !.saved = [kind |-> k, root |-> st.root]]

\* committedRows, in _id order here: the order decides nothing a query sees.
rowsOf(over) == SetToSortSeq({[id |-> i, rid |-> over[i].rid, doc |-> over[i].doc] : i \in DOMAIN over},
                             LAMBDA a, b : a.id < b.id)

\* buildIndex over the rows: [st, err].
buildOver(st, unique, rows) ==
    FoldLeft(LAMBDA r, row : putEach(r, unique, secKeys(row.doc), row.rid),
             fine([st EXCEPT !.root.sec = NullPage]), rows)

\* What pager.Commit makes durable, and what Open finds after a crash.
image(st) == [file |-> st.file, saved |-> st.saved]
opened(img) ==
    LET on(r) == [file |-> r.file, heap |-> r.heap, root |-> img.saved.root, saved |-> img.saved]
    IN  on(rebuild(img.file))

\* rebuild of the overlay; the last record of an _id would win.
overlayOf(st) ==
    LET recs == Records(st)
    IN  [i \in {r.doc.id : r \in recs} |->
            LET r == CHOOSE r \in recs : r.doc.id = i IN [rid |-> r.rid, doc |-> r.doc]]

docsOf(over) == [i \in DOMAIN over |-> over[i].doc]

-----------------------------------------------------------------------------

StoreInit ==
    /\ \E k \in {"none", "plain", "unique"}, s \in StoreSetups :
       \E r \in {FoldLeft(LAMBDA q, d : insertAfter(q, k, [doc |-> <<d>>], 0), fine(EmptyStore), s)} :
          r.err = "ok" /\ kind = k /\ sst = stage(r.st, k)
    /\ durable = image(sst)
    /\ overlay = overlayOf(sst)
    /\ txn = NoTxn /\ build = NoBuild /\ rd = NoRead
    /\ cnt = [commits |-> 0, published |-> 0, builds |-> 0, crashes |-> 0, reads |-> 0]
    /\ gone = {}

MayHappen == cnt.builds + cnt.crashes + cnt.reads < MaxEvents

\* An index read that a change of the pages or of the overlay overtakes.
Overtake == rd' = [rd EXCEPT !.raced = @ \/ rd.phase = "scan"]

\* The oracle lock is taken, the conflicts are settled, and apply begins with
\* its check of the unique index.
BeginApply(ops) ==
    LET removing == {overlay[op.id].rid : op \in {o \in Range(ops) : o.id \in DOMAIN overlay}}
        docs == UNION {Range(op.doc) : op \in Range(ops)}
    IN  /\ ~txn.on /\ cnt.commits < MaxCommits
        /\ \A op \in Range(ops) : op.doc = <<>> => op.id \in DOMAIN overlay
        /\ cnt' = [cnt EXCEPT !.commits = @ + 1]
        /\ txn' = IF kind = "unique" /\ collides(sst, docs, removing) THEN NoTxn
                  ELSE [on |-> TRUE, ops |-> ops, i |-> 1, rids |-> NoFn]
        /\ gone' = IF build.on THEN gone \cup {"overlap"} ELSE gone
        /\ UNCHANGED <<sst, kind, durable, overlay, build, rd>>

\* One buffered operation.  An error gives the commit up as it stands.
ApplyOp ==
    LET op == txn.ops[txn.i]
        ridOfOp(r) == IF op.doc = <<>> THEN NullRID ELSE r.rid
        ridsWith(rid) == [j \in DOMAIN txn.rids \cup {op.id} |-> IF j = op.id THEN rid ELSE txn.rids[j]]
    IN  /\ txn.on /\ txn.i <= Len(txn.ops)
        /\ \E r \in {applyOp(sst, kind, op, overlay, cnt.published + 1)} :
              /\ sst' = r.st
              /\ txn' = IF r.err # "ok" THEN NoTxn
                        ELSE [txn EXCEPT !.i = @ + 1, !.rids = ridsWith(ridOfOp(r))]
              /\ gone' = IF r.err # "ok" THEN gone \cup {"torn"} ELSE gone
        /\ Overtake
        /\ UNCHANGED <<kind, durable, overlay, build, cnt>>

\* The catalog is staged, the pager commits, and publish installs the versions.
Publish ==
    LET new == [n \in 1..Len(txn.ops) |-> txn.ops[n].id]
        doc(i) == (CHOOSE op \in Range(txn.ops) : op.id = i).doc
        live == {i \in Range(new) : doc(i) # <<>>}
    IN  /\ txn.on /\ txn.i > Len(txn.ops)
        /\ sst' = stage(sst, kind)
        /\ durable' = image(sst')
        /\ overlay' = [i \in (DOMAIN overlay \ Range(new)) \cup live |->
                IF i \in live THEN [rid |-> txn.rids[i], doc |-> doc(i)[1]] ELSE overlay[i]]
        /\ txn' = NoTxn
        /\ cnt' = [cnt EXCEPT !.published = @ + 1]
        /\ Overtake
        /\ UNCHANGED <<kind, build, gone>>

\* CreateIndex: the rows are read under the collection mutex, then put without it.
BuildBegin(unique) ==
    /\ kind = "none" /\ ~build.on /\ cnt.builds < MaxBuilds /\ MayHappen
    /\ build' = [on |-> TRUE, unique |-> unique, rows |-> rowsOf(overlay)]
    /\ cnt' = [cnt EXCEPT !.builds = @ + 1]
    /\ gone' = IF txn.on THEN gone \cup {"overlap"} ELSE gone
    /\ UNCHANGED <<sst, kind, durable, overlay, txn, rd>>

BuildEnd ==
    LET k == IF build.unique THEN "unique" ELSE "plain"
    IN  /\ build.on
        /\ build' = NoBuild
        /\ \E r \in {buildOver(sst, build.unique, build.rows)} :
              IF r.err = "ok"
              THEN sst' = stage(r.st, k) /\ kind' = k /\ durable' = image(sst')
              ELSE sst' = [r.st EXCEPT !.root.sec = NullPage] /\ UNCHANGED <<kind, durable>>
        /\ Overtake
        /\ UNCHANGED <<overlay, txn, cnt, gone>>

\* DropIndex; the pages of the tree are not reclaimed.
DropIndex ==
    /\ kind # "none" /\ ~build.on /\ cnt.builds < MaxBuilds /\ MayHappen
    /\ cnt' = [cnt EXCEPT !.builds = @ + 1]
    /\ kind' = "none"
    /\ sst' = stage([sst EXCEPT !.root.sec = NullPage], "none")
    /\ durable' = image(sst')
    /\ gone' = IF txn.on THEN gone \cup {"overlap"} ELSE gone
    /\ Overtake
    /\ UNCHANGED <<overlay, txn, build>>

\* PRAGMA incremental_vacuum between commits.
VacuumStore ==
    /\ ~txn.on /\ ~build.on /\ freelist(sst.file) # {}
    /\ cnt.crashes < MaxCrashes /\ MayHappen
    /\ \E order \in SetToSeqs(freelist(sst.file)) :
          sst' = [sst EXCEPT !.file = IncrementalVacuum(sst.file, 0, order)]
    /\ durable' = image(sst')
    /\ cnt' = [cnt EXCEPT !.crashes = @ + 1]
    /\ UNCHANGED <<kind, overlay, txn, build, rd, gone>>

\* A crash at any point, and Open.
CrashReopen ==
    /\ cnt.crashes < MaxCrashes /\ MayHappen
    /\ cnt' = [cnt EXCEPT !.crashes = @ + 1]
    /\ sst' = opened(durable)
    /\ kind' = durable.saved.kind
    /\ overlay' = overlayOf(sst')
    /\ txn' = NoTxn /\ build' = NoBuild /\ rd' = NoRead
    /\ UNCHANGED <<durable, gone>>

-----------------------------------------------------------------------------
(* A find of one key, by the index when allowIndex says so.                  *)

matching(docs, x) == {docs[i] : i \in {j \in DOMAIN docs : x \in docs[j].x}}

ReadBegin ==
    /\ rd.phase = "idle" /\ cnt.reads < MaxReads /\ MayHappen
    /\ cnt' = [cnt EXCEPT !.reads = @ + 1]
    /\ rd' = [NoRead EXCEPT !.phase = "begun", !.snap = docsOf(overlay), !.ver = cnt.published]
    /\ UNCHANGED <<sst, kind, durable, overlay, txn, build, gone>>

allowIndex(r) == kind # "none" /\ r.ver = cnt.published

ReadPlan(x) ==
    /\ rd.phase = "begun"
    /\ rd' = IF allowIndex(rd)
             THEN [rd EXCEPT !.phase = "scan", !.x = x, !.raced = txn.on,
                             !.c = openCursor(sst, "sec", x, TRUE, x, TRUE)]
             ELSE [rd EXCEPT !.phase = "done", !.x = x, !.got = matching(rd.snap, x)]
    /\ UNCHANGED <<sst, kind, durable, overlay, txn, build, cnt, gone>>

\* LookupRID: the snapshot's document of the _id that owns the record now.
lookupRID(rid) ==
    {rd.snap[i] : i \in {j \in DOMAIN overlay \cap DOMAIN rd.snap : overlay[j].rid = rid}}

ReadNext ==
    /\ rd.phase = "scan"
    /\ \E c \in {IF rd.c.done THEN rd.c ELSE nextCursor(sst, rd.c)} :
          rd' = IF c.done THEN [rd EXCEPT !.phase = "done", !.c = EndCursor]
                ELSE [rd EXCEPT !.c = c,
                         !.got = @ \cup {d \in lookupRID(ridOf(c.keys[c.idx])) : rd.x \in d.x}]
    /\ UNCHANGED <<sst, kind, durable, overlay, txn, build, cnt, gone>>

StoreNext ==
    \/ \E ops \in Transactions : BeginApply(ops)
    \/ ApplyOp
    \/ Publish
    \/ \E unique \in BOOLEAN : BuildBegin(unique)
    \/ BuildEnd
    \/ DropIndex
    \/ VacuumStore
    \/ CrashReopen
    \/ ReadBegin
    \/ \E x \in XFields : ReadPlan(x)
    \/ ReadNext

StoreSpec == StoreInit /\ [][StoreNext]_svars

-----------------------------------------------------------------------------

\* Collection.Check finds nothing: the record store and both trees are sound,
\* and the indexes hold exactly the entries of the committed documents.  This is
\* so between commits and again after every crash, until a commit has failed
\* half way or a change of the indexes has met a commit.
secEntries == UNION {{treeKey(f, overlay[i].rid) : f \in overlay[i].doc.x} : i \in DOMAIN overlay}
CheckFindsNothing(st) ==
    /\ heapProblems(st) = {}
    /\ \A t \in {"id", "sec"} : treeProblems(st, t) = {}
    /\ Range(chainKeys(st, "id")) = {treeKey(i, overlay[i].rid) : i \in DOMAIN overlay}
    /\ kind # "none" => Range(chainKeys(st, "sec")) = secEntries
StoreCheckIsClean == gone = {} /\ ~txn.on => CheckFindsNothing(sst)

\* What a crash at this moment would bring back is what is committed: never
\* part of a transaction, whatever pages it has written, freed and reused, and
\* an index that finds all of it.
CommitsAreAtomic ==
    gone = {} =>
        LET back == opened(durable)
        IN  /\ overlayOf(back) = overlay
            /\ Range(chainKeys(back, "id")) = {treeKey(i, overlay[i].rid) : i \in DOMAIN overlay}
            /\ durable.saved.kind # "none" => Range(chainKeys(back, "sec")) = secEntries

\* No two committed documents share a key of a unique index.
UniqueIndexHolds ==
    gone = {} /\ kind = "unique" =>
        \A i, j \in DOMAIN overlay : i # j => overlay[i].doc.x \cap overlay[j].doc.x = {}

\* No page has two owners among the record store, its overflow chains, the two
\* trees and the freelist, while they take pages from one allocator.
StorePagesApart ==
    LET heads == {cellOverflowHead(sst, r) : r \in liveSlots(sst)} \ {NullPage}
        owners(p) == Cardinality({h \in heads : p \in Range(chainOf(sst, h))})
                       + Cardinality({t \in {"id", "sec"} : p \in nodesOf(sst, t)})
                       + (IF p \in Range(sst.heap.order) THEN 1 ELSE 0)
                       + (IF p \in freelist(sst.file) THEN 1 ELSE 0)
    IN  gone = {} => \A p \in 1..Len(sst.file.pages) : owners(p) <= 1

\* A find by the index returns the documents of its snapshot, when no commit
\* is applied while its cursor is open.
IndexReadIsSnapshot == rd.phase = "done" /\ ~rd.raced /\ gone = {} => rd.got = matching(rd.snap, rd.x)

\* A commit that a duplicate aborts leaves nothing behind (collection/ops.go:
\* "so a duplicate aborts the commit without a partial write").
AbortLeavesNothing == gone \subseteq {"overlap"} \/ CheckFindsNothing(sst)
=============================================================================
