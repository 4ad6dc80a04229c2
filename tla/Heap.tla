-------------------------------- MODULE Heap --------------------------------
(* A client of the record store (heap/*.go) that inserts, updates, deletes   *)
(* and scans, over a file that is vacuumed and reopened between its calls.   *)
(* Every call commits (heap.Tx.Commit); crashes are in module Pager.         *)
EXTENDS HeapOps

CONSTANTS
    DocLens,     \* lengths of the documents written
    Setups,      \* sequences of [rid, len] the store begins with: inserts under
                 \* NullRID, else updates
    MaxRecordOps \* bound on the calls

VARIABLES
    rst,         \* [file, heap]
    scan,        \* the open cursor of Scan
    view,        \* the documents its caller can read, and the ids given out
    rops,        \* calls made; also the content of the document written next
    failed       \* an Update returned an error

hvars == <<rst, scan, view, rops, failed>>

NoScan == [open |-> FALSE, pages |-> <<>>, pi |-> 1, slot |-> 1, out |-> {}, want |-> {}]

forwardSlots(st) == {r \in slotsOf(st) : IsForward(pageOf(st, r.page), r.slot)}

\* The record ids a caller holds: cells nothing forwards to, and tombstones.
canonical(st) == forwardSlots(st) \cup (liveSlots(st) \ {resolve(st, r) : r \in forwardSlots(st)})

viewOf(st) == [records |-> [r \in canonical(st) |-> Lookup(st, r)], spent |-> slotsOf(st)]

setup(st, i, call) ==
    LET doc == [len |-> call.len, v |-> -i]
    IN  IF call.rid = NullRID THEN Insert(st, doc, 0).st ELSE Update(st, call.rid, doc, 0).st

HeapInit ==
    /\ \E s \in Setups :
          rst = FoldLeftDomain(LAMBDA st, i : setup(st, i, s[i]), [file |-> NewFile, heap |-> EmptyHeap], s)
    /\ scan = NoScan
    /\ view = viewOf(rst)
    /\ rops = 0
    /\ failed = FALSE

Calling == rops < MaxRecordOps /\ rops' = rops + 1

\* The record at rid is no longer one the scan has to return.
Touch(rid) == scan' = [scan EXCEPT !.want = @ \ {resolve(rst, rid)}]

InsertCall(n) ==
    /\ Calling
    /\ rst' = Insert(rst, [len |-> n, v |-> rops], rops).st
    /\ UNCHANGED <<scan, failed>>

UpdateCall(rid, n) ==
    /\ Calling
    /\ \E r \in {Update(rst, rid, [len |-> n, v |-> rops], rops)} :
          /\ rst' = r.st
          /\ failed' = (failed \/ ~r.ok)
    /\ Touch(rid)

DeleteCall(rid) ==
    /\ Calling
    /\ rst' = Delete(rst, rid)
    /\ Touch(rid)
    /\ UNCHANGED failed

\* Open after a clean shutdown; the cursor does not survive it.
Reopen ==
    /\ Calling
    /\ rst' = rebuild(rst.file)
    /\ scan' = NoScan
    /\ UNCHANGED failed

Vacuum(n) ==
    /\ Calling
    /\ \E order \in SetToSeqs(freelist(rst.file)) :
          rst' = [rst EXCEPT !.file = IncrementalVacuum(rst.file, n, order)]
    /\ UNCHANGED <<scan, failed>>

\* Scan copies the page list; each Next returns the next live cell.
ScanOpen ==
    /\ ~scan.open /\ scan.out = {} /\ rops < MaxRecordOps
    /\ scan' = [NoScan EXCEPT !.open = TRUE, !.pages = rst.heap.order, !.want = liveSlots(rst)]
    /\ UNCHANGED <<rst, view, rops, failed>>


ScanNext ==
    LET page == pageOf(rst, scan.pages[scan.pi])
        at == {i \in scan.slot..Len(page.slots) : IsLive(page, i)}
    IN  /\ scan.open /\ scan.pi <= Len(scan.pages)
        /\ scan' = IF at = {} THEN [scan EXCEPT !.pi = @ + 1, !.slot = 1]
                   ELSE [scan EXCEPT !.slot = Min(at) + 1,
                            !.out = @ \cup {[page |-> scan.pages[scan.pi], slot |-> Min(at)]}]
        /\ UNCHANGED <<rst, view, rops, failed>>

HeapCall ==
    \/ \E n \in DocLens : InsertCall(n) \/ \E rid \in DOMAIN view.records : UpdateCall(rid, n)
    \/ \E rid \in DOMAIN view.records : DeleteCall(rid)
    \/ Reopen
    \/ \E n \in 0..1 : Vacuum(n)

HeapNext ==
    \/ HeapCall /\ view' = viewOf(rst')
    \/ ScanOpen
    \/ ScanNext

HeapSpec == HeapInit /\ [][HeapNext]_hvars

-----------------------------------------------------------------------------

\* The record store on pages implements the abstract one: an update that moves
\* a document, a compaction, a spill, a vacuum and a reopen leave every other
\* record readable under its id, and no id ever names a second document.  An
\* Update that fails for want of room for its tombstone leaves its new cell
\* behind as a record of its own, which the abstract Insert admits.
RS == INSTANCE RecordStore WITH
    records <- view.records,
    spent <- view.spent,
    RIDs <- [page : 1..(4 * BodyLen), slot : 1..BodyLen],
    Documents <- [len : 1..(2 * BodyLen), v : -BodyLen..MaxRecordOps]
ImplementsRecordStore == RS!RecordSpec

\* heap.Check reports nothing but the count of dead slots, which Delete and
\* Update keep one too low for every forwarded record they drop, and the count
\* of live ones once an Update has failed and left its new cell uncounted.
HeapCheckIsClean == heapProblems(rst) \subseteq {"dead"} \cup (IF failed THEN {"live"} ELSE {})

\* Each page has one owner: the heap directory, one overflow chain or the
\* freelist.  A chain page freed twice, or leaked by an update, breaks this.
PagesOwnedOnce ==
    LET heads == {cellOverflowHead(rst, r) : r \in liveSlots(rst)} \ {NullPage}
        owners(p) == Cardinality({h \in heads : p \in Range(chainOf(rst, h))})
                       + (IF p \in Range(rst.heap.order) THEN 1 ELSE 0)
                       + (IF p \in freelist(rst.file) THEN 1 ELSE 0)
    IN  \A p \in 1..Len(rst.file.pages) : owners(p) = 1

\* A scan that came to its end returned every record that was there when it
\* began and that no call touched since, although pages were compacted, cells
\* moved and pages added under it.
ScanMissesNothing == scan.open /\ scan.pi > Len(scan.pages) => scan.want \subseteq scan.out
=============================================================================
