------------------------------ MODULE HeapOps -------------------------------
(* The record store of one collection (heap/*.go, format/overflow.go): what  *)
(* each operation makes of the pages and of the free-space directory.        *)
(*                                                                           *)
(* A store is [file, heap]: the page file and the in-memory directory.  A    *)
(* document is a record with its length in field len; the units are those of *)
(* module Slotted.  Slots count from 1, where the code counts from 0.  The   *)
(* checks of read-only transactions, malformed and oversized documents come  *)
(* before anything is touched and are left out.                              *)
EXTENDS Slotted

CONSTANTS
    CellHeader,      \* cellHeaderSize
    SpillThreshold,  \* longest document stored inline
    ChainHeader      \* overflowHeadHdr

ASSUME HeapAssumption ==
    /\ CellHeader \in Nat /\ ChainHeader \in 0..(BodyLen - 1)
    /\ SpillThreshold + CellHeader + SlotSize \in 1..BodyLen

OverflowPtr == 1        \* overflowPtrSize
NullRID == [page |-> NullPage, slot |-> 0]
Garbage == [kind |-> "garbage"]     \* bytes that are not what was written

EmptyHeap == [order |-> <<>>, avail |-> <<>>, cursor |-> 1, live |-> 0, dead |-> 0]

setPage(st, pno, page) == [st EXCEPT !.file.pages[pno] = page]
pageOf(st, pno) == st.file.pages[pno]

-----------------------------------------------------------------------------
(* Overflow chains.                                                         *)

overflowPageCount(n) ==
    LET head == BodyLen - ChainHeader
    IN  IF n <= head THEN 1 ELSE 1 + (n - head + BodyLen - 1) \div BodyLen

\* n pages, in the order Allocate gives them: [st, ids].
allocatePages(st, n) ==
    FoldLeft(LAMBDA r, i : LET a == Allocate(r.st.file)
                           IN  [st |-> [r.st EXCEPT !.file = a.file], ids |-> Append(r.ids, a.id)],
             [st |-> st, ids |-> <<>>], [i \in 1..n |-> i])

\* right_sibling of the i-th page of a chain.
chainLink(ids, i) == IF i < Len(ids) THEN ids[i + 1] ELSE NullPage

\* writeOverflow with WriteOverflowChain: [st, head].
writeOverflow(st, doc) ==
    LET head == Min({doc.len, BodyLen - ChainHeader})
        bytes(i) == IF i = 1 THEN head
                    ELSE Min({BodyLen, doc.len - head - (i - 2) * BodyLen})
        page(ids, i) == [kind |-> IF i = 1 THEN "ovfHead" ELSE "ovfCont", next |-> chainLink(ids, i),
                         sum |-> doc, bytes |-> [j \in 1..bytes(i) |-> doc]]
        over(a) == [st |-> FoldLeftDomain(LAMBDA r, i : setPage(r, a.ids[i], page(a.ids, i)), a.st, a.ids),
                    head |-> a.ids[1]]
    IN  over(allocatePages(st, overflowPageCount(doc.len)))

\* The pages of the chain at head, as right_sibling links them.
chainOf(st, head) ==
    LET from[p \in 1..Len(st.file.pages)] ==
            IF pageOf(st, p).kind \notin {"ovfHead", "ovfCont"} \/ pageOf(st, p).next = NullPage
            THEN <<p>> ELSE <<p>> \o from[pageOf(st, p).next]
    IN  from[head]

\* ReadOverflowChain: types, length and checksum are verified.
readOverflow(st, head) ==
    LET sum == pageOf(st, head).sum
        verified(out) == IF Len(out) = sum.len /\ \A j \in 1..Len(out) : out[j] = sum THEN sum
                         ELSE Garbage
        over(pages) == IF \E i \in 1..Len(pages) :
                             pageOf(st, pages[i]).kind # (IF i = 1 THEN "ovfHead" ELSE "ovfCont")
                       THEN Garbage
                       ELSE verified(FoldLeft(LAMBDA o, p : o \o pageOf(st, p).bytes, <<>>, pages))
    IN  over(chainOf(st, head))

\* freeOverflow reads each page's link before it frees the page.
freeOverflow(st, head) ==
    FoldLeft(LAMBDA r, p : [r EXCEPT !.file = FreePage(r.file, p)], st, chainOf(st, head))

-----------------------------------------------------------------------------
(* Cells.                                                                   *)

\* buildCell: [st, cell].
buildCell(st, doc, version) ==
    IF doc.len <= SpillThreshold
    THEN [st |-> st, cell |-> [j \in 1..(CellHeader + doc.len) |->
                                 [kind |-> "cell", doc |-> doc, version |-> version]]]
    ELSE LET behind(w) == [st |-> w.st, cell |-> [j \in 1..(CellHeader + OverflowPtr) |->
                                 [kind |-> "ptr", head |-> w.head, version |-> version]]]
         IN  behind(writeOverflow(st, doc))

\* decodeCellHeader and the payload behind it.
decodeCell(cell) == IF \A j \in 1..Len(cell) : cell[j] = cell[1] THEN cell[1] ELSE Garbage

refresh(st, pno) == [st EXCEPT !.heap.avail[pno] = AvailBytes(pageOf(st, pno))]

fits(st, pno, cellLen) == st.heap.avail[pno] >= cellLen + SlotSize

\* findPage: the next-fit position in the directory, 0 when no page has room.
findPage(st, cellLen) ==
    LET n == Len(st.heap.order)
        at(i) == ((st.heap.cursor - 1 + i) % n) + 1
        hits == {i \in 0..(n - 1) : fits(st, st.heap.order[at(i)], cellLen)}
    IN  IF hits = {} THEN 0 ELSE at(Min(hits))

\* addCellNewPage: [st, rid].
addCellNewPage(st, cell) ==
    LET holding(a, fresh) ==
            [st |-> [st EXCEPT
                        !.file = [a.file EXCEPT !.pages[a.id] = fresh],
                        !.heap.order = Append(@, a.id),
                        !.heap.avail = [p \in DOMAIN @ \cup {a.id} |->
                            IF p = a.id THEN AvailBytes(fresh) ELSE @[p]],
                        !.heap.cursor = Len(st.heap.order) + 1],
             rid |-> [page |-> a.id, slot |-> 1]]
    IN  holding(Allocate(st.file), AddCell(InitPage("heap"), cell)[1])

\* addCell: [st, rid]; NullRID when AddCell has no space.
addCell(st, cell) ==
    LET holding(moved, pno, page) ==
            IF page = <<>> THEN [st |-> moved, rid |-> NullRID]
            ELSE [st |-> refresh(setPage(moved, pno, page[1]), pno),
                  rid |-> [page |-> pno, slot |-> Len(page[1].slots)]]
        on(idx) == IF idx = 0 THEN addCellNewPage(st, cell)
                   ELSE holding([st EXCEPT !.heap.cursor = idx], st.heap.order[idx],
                                AddCell(pageOf(st, st.heap.order[idx]), cell))
    IN  on(findPage(st, Len(cell)))

addBuilt(b) == addCell(b.st, b.cell)

Insert(st, doc, version) ==
    LET counted(r) == IF r.rid = NullRID THEN r ELSE [r EXCEPT !.st.heap.live = @ + 1]
    IN  counted(addBuilt(buildCell(st, doc, version)))

-----------------------------------------------------------------------------
(* Reading.                                                                 *)

\* resolve follows at most one forwarding tombstone.
resolve(st, rid) ==
    IF IsForward(pageOf(st, rid.page), rid.slot) THEN Forward(pageOf(st, rid.page), rid.slot)
    ELSE rid

cellAt(st, at) == decodeCell(Cell(pageOf(st, at.page), at.slot))

\* readAt; Garbage stands for ErrNotFound as well.
readAt(st, at) ==
    IF ~IsLive(pageOf(st, at.page), at.slot) THEN Garbage
    ELSE LET of(c) == CASE c.kind = "cell" -> c.doc
                        [] c.kind = "ptr" -> readOverflow(st, c.head)
                        [] OTHER -> Garbage
         IN  of(cellAt(st, at))

Lookup(st, rid) == readAt(st, resolve(st, rid))

slotsOf(st) ==
    UNION {{[page |-> p, slot |-> i] : i \in 1..Len(pageOf(st, p).slots)} : p \in Range(st.heap.order)}
liveSlots(st) == {r \in slotsOf(st) : IsLive(pageOf(st, r.page), r.slot)}

\* Records: every live cell, with the version stamped on it.
Records(st) ==
    {[rid |-> r, version |-> cellAt(st, r).version, doc |-> readAt(st, r)] :
        r \in {s \in liveSlots(st) : cellAt(st, s).kind # "garbage"}}

-----------------------------------------------------------------------------
(* Delete, Update, and what Open rebuilds.                                  *)

deadSlot(st, at) == refresh(setPage(st, at.page, DeleteCell(pageOf(st, at.page), at.slot)), at.page)

\* cellOverflowHead: the chain of the cell at a slot, NullPage when it has none.
cellOverflowHead(st, at) ==
    IF IsLive(pageOf(st, at.page), at.slot) /\ cellAt(st, at).kind = "ptr"
    THEN cellAt(st, at).head ELSE NullPage

freeChain(st, head) == IF head = NullPage THEN st ELSE freeOverflow(st, head)

\* Delete: a forwarded record dies at both ends and counts once.
Delete(st, rid) ==
    LET at == resolve(st, rid)
        both(gone) == IF at = rid THEN gone ELSE deadSlot(gone, rid)
    IN  [both(deadSlot(freeChain(st, cellOverflowHead(st, at)), at))
            EXCEPT !.heap.live = @ - 1, !.heap.dead = @ + 1]

\* forwardTo: <<>> when the canonical page has no room for the tombstone.
forwardTo(st, rid, at, new) ==
    LET moved(set) == IF at # rid THEN <<deadSlot(set, at)>> ELSE <<set>>
        over(page) == IF page = <<>> THEN <<>>
                      ELSE moved(refresh(setPage(st, rid.page, page[1]), rid.page))
    IN  over(SetForward(pageOf(st, rid.page), rid.slot, new))

\* The new cell r goes to another page, the canonical slot forwards to it.
updateMoved(r, rid, at, old) ==
    LET via(fwd) == IF fwd = <<>> THEN [st |-> r.st, ok |-> FALSE]
                    ELSE [st |-> freeChain(fwd[1], old), ok |-> TRUE]
    IN  IF r.rid = NullRID THEN [st |-> r.st, ok |-> FALSE] ELSE via(forwardTo(r.st, rid, at, r.rid))

\* The new cell b is built; page is what ReplaceCell makes of its page.
updateCell(b, rid, at, old, page) ==
    IF page = <<>> THEN updateMoved(addBuilt(b), rid, at, old)
    ELSE [st |-> freeChain(refresh(setPage(b.st, at.page, page[1]), at.page), old), ok |-> TRUE]

\* Update: [st, ok].  The old chain is freed once the new cell is in place.
updateAt(st, rid, at, b) ==
    updateCell(b, rid, at, cellOverflowHead(st, at), ReplaceCell(pageOf(b.st, at.page), at.slot, b.cell))

Update(st, rid, doc, version) == updateAt(st, rid, resolve(st, rid), buildCell(st, doc, version))

heapPages(file) == SelectSeq([i \in 1..Len(file.pages) |-> i], LAMBDA p : file.pages[p].kind = "heap")

isDead(s, i) == ~IsForward(s, i) /\ ~IsLive(s, i)

\* The live and the dead slots of one page, and of all heap pages.
countLive(s) == [live |-> Cardinality({i \in 1..Len(s.slots) : IsLive(s, i)}),
                 dead |-> Cardinality({i \in 1..Len(s.slots) : isDead(s, i)})]
countAll(file) == [live |-> MapThenSumSet(LAMBDA p : countLive(file.pages[p]).live, Range(heapPages(file))),
                   dead |-> MapThenSumSet(LAMBDA p : countLive(file.pages[p]).dead, Range(heapPages(file)))]

\* Open: the directory is rebuilt from the pages, in page order.
rebuild(file) ==
    [file |-> file,
     heap |-> [order |-> heapPages(file),
               avail |-> [p \in Range(heapPages(file)) |-> AvailBytes(file.pages[p])],
               cursor |-> 1,
               live |-> countAll(file).live, dead |-> countAll(file).dead]]

\* Check, by the kind of problem it reports.
heapProblems(st) ==
    LET forwards == {r \in slotsOf(st) : IsForward(pageOf(st, r.page), r.slot)}
        target(r) == Forward(pageOf(st, r.page), r.slot)
    IN  {p \in {"type", "avail", "forward", "cell", "live", "dead"} :
          CASE p = "type" -> \E n \in Range(st.heap.order) : pageOf(st, n).kind # "heap"
            [] p = "avail" -> \E n \in Range(st.heap.order) :
                                 st.heap.avail[n] # AvailBytes(pageOf(st, n))
            [] p = "forward" -> \E r \in forwards : ~IsLive(pageOf(st, target(r).page), target(r).slot)
            [] p = "cell" -> \E r \in liveSlots(st) : readAt(st, r) = Garbage
            [] p = "live" -> st.heap.live # Cardinality(liveSlots(st))
            [] p = "dead" -> st.heap.dead # countAll(st.file).dead}
=============================================================================
