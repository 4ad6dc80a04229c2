------------------------------ MODULE Slotted -------------------------------
(* The slotted page (format/slotted.go) and the page allocator of the pager  *)
(* (pager.go Allocate, Free, IncrementalVacuum).                             *)
(*                                                                           *)
(* A body is a sequence of bytes, its head at offset 0.  A byte of a cell is *)
(* the record the cell was made of, so that a cell that another one overlaps *)
(* reads as garbage.  Lengths are in units of the slot entry.  A file is     *)
(* [pages, free]: its pages without page 0, and the head of the freelist.    *)
EXTENDS Integers, Sequences, FiniteSets, SequencesExt, FiniteSetsExt

CONSTANTS
    BodyLen,      \* length of a page body
    ForwardLen    \* length of a forwarding record

ASSUME SlottedAssumption == BodyLen \in Nat /\ ForwardLen \in 1..BodyLen

SlotSize == 1
Dead == -1        \* cellOffsetDead
Forwarding == -2  \* cellOffsetForward
NullPage == 0
Free0 == [kind |-> "blank"]

InitPage(kind) ==
    [kind |-> kind, slots |-> <<>>, end |-> BodyLen, body |-> [o \in 1..BodyLen |-> Free0] \o <<>>]

IsLive(s, i) == i \in 1..Len(s.slots) /\ s.slots[i].off \notin {Dead, Forwarding}
IsForward(s, i) == i \in 1..Len(s.slots) /\ s.slots[i].off = Forwarding

freeStart(s) == Len(s.slots) * SlotSize
FreeBytes(s) == s.end - freeStart(s)

occupied(s, i) ==
    CASE s.slots[i].off = Dead -> 0
      [] s.slots[i].off = Forwarding -> ForwardLen
      [] OTHER -> s.slots[i].len

liveTotal(s) ==
    freeStart(s) + FoldLeft(LAMBDA n, i : n + occupied(s, i), 0, [i \in 1..Len(s.slots) |-> i])
AvailBytes(s) == BodyLen - liveTotal(s)

\* Where the bytes of a slot begin; a forwarding slot keeps it in its length.
contentOf(s, i) == IF s.slots[i].off = Forwarding THEN s.slots[i].len ELSE s.slots[i].off

bytesAt(s, off, len) == SubSeq(s.body, off + 1, off + len)
write(s, off, payload) ==
    [s EXCEPT !.body = SubSeq(@, 1, off) \o payload \o SubSeq(@, off + Len(payload) + 1, BodyLen)]

\* Rewrite the live and forwarding cells against the end of the body.
Compact(s) ==
    LET move(r, i) ==
            IF s.slots[i].off = Dead THEN r
            ELSE LET start == r.end - occupied(s, i)
                     moved == [write(r, start, bytesAt(s, contentOf(s, i), occupied(s, i)))
                                 EXCEPT !.end = start]
                 IN  IF IsForward(s, i) THEN [moved EXCEPT !.slots[i].len = start]
                     ELSE [moved EXCEPT !.slots[i].off = start]
    IN  FoldLeft(move, [s EXCEPT !.end = BodyLen], [i \in 1..Len(s.slots) |-> i])

\* Place a payload at the end of the free gap of slot i.
place(s, i, payload) ==
    LET off == s.end - Len(payload)
    IN  [write(s, off, payload) EXCEPT !.end = off, !.slots[i] = [off |-> off, len |-> Len(payload)]]

\* Mutant: a dead slot is used again.
AddCell_reuses(s, payload) ==
    LET need == Len(payload) + SlotSize
        room == IF FreeBytes(s) < need THEN Compact(s) ELSE s
        dead == {i \in 1..Len(s.slots) : s.slots[i].off = Dead}
    IN  IF FreeBytes(s) < need /\ AvailBytes(s) < need THEN <<>>
        ELSE IF dead # {} THEN <<place(room, Min(dead), payload)>>
        ELSE <<place([room EXCEPT !.slots = Append(@, [off |-> 0, len |-> 0])],
                     Len(s.slots) + 1, payload)>>

\* AddCell: the page after it, <<>> for ErrNoSpace; the new slot is the last.
AddCell(s, payload) ==
    LET need == Len(payload) + SlotSize
        room == IF FreeBytes(s) < need THEN Compact(s) ELSE s
    IN  IF FreeBytes(s) < need /\ AvailBytes(s) < need THEN <<>>
        ELSE <<place([room EXCEPT !.slots = Append(@, [off |-> 0, len |-> 0])],
                     Len(s.slots) + 1, payload)>>

Cell(s, i) == bytesAt(s, s.slots[i].off, s.slots[i].len)

\* ReplaceCell: <<>> for ErrNoSpace; the slot is dropped before compacting.
ReplaceCell(s, i, payload) ==
    LET old == s.slots[i].len
        dropped == [s EXCEPT !.slots[i] = [off |-> Dead, len |-> 0]]
        room == IF FreeBytes(s) < Len(payload) THEN Compact(dropped) ELSE dropped
    IN  IF old = Len(payload) THEN <<write(s, s.slots[i].off, payload)>>
        ELSE IF AvailBytes(s) + old < Len(payload) THEN <<>>
        ELSE <<place(room, i, payload)>>

DeleteCell(s, i) == [s EXCEPT !.slots[i] = [off |-> Dead, len |-> 0]]

\* SetForward: over the cell when it is long enough, else in the free gap.
SetForward(s, i, rid) ==
    LET target == [j \in 1..ForwardLen |-> [kind |-> "forward", to |-> rid]]
        reuse == IsLive(s, i) /\ s.slots[i].len >= ForwardLen
        room == IF FreeBytes(s) < ForwardLen THEN Compact(s) ELSE s
        off == IF reuse THEN s.slots[i].off ELSE room.end - ForwardLen
    IN  IF reuse
        THEN <<[write(s, off, target) EXCEPT !.slots[i] = [off |-> Forwarding, len |-> off]]>>
        ELSE IF FreeBytes(s) < ForwardLen /\ AvailBytes(s) < ForwardLen THEN <<>>
        ELSE <<[write(room, off, target) EXCEPT !.end = off,
                   !.slots[i] = [off |-> Forwarding, len |-> off]]>>

Forward(s, i) == s.body[s.slots[i].len + 1].to

-----------------------------------------------------------------------------
(* The page allocator.                                                      *)

NewFile == [pages |-> <<>>, free |-> NullPage]

\* Allocate: [file, id].  A page from the freelist is zeroed.
Allocate(file) ==
    IF file.free # NullPage
    THEN [file |-> [pages |-> [file.pages EXCEPT ![file.free] = Free0],
                    free |-> file.pages[file.free].next], id |-> file.free]
    ELSE [file |-> [file EXCEPT !.pages = Append(@, Free0)], id |-> Len(file.pages) + 1]

FreePage(file, id) ==
    [pages |-> [file.pages EXCEPT ![id] = [kind |-> "free", next |-> file.free]], free |-> id]

\* collectFreelistLocked.
freelist(file) ==
    LET walk[n \in 0..Len(file.pages)] ==
            IF n = 0 THEN {file.free}
            ELSE LET seen == walk[n - 1]
                 IN  seen \cup {file.pages[p].next : p \in seen \ {NullPage}}
    IN  walk[Len(file.pages)] \ {NullPage}

\* The free pages at the end of the file.
tailOf(file) == {n \in 1..Len(file.pages) : \A m \in n..Len(file.pages) : m \in freelist(file)}

\* IncrementalVacuum: up to n trailing free pages are cut, all of them when n
\* is 0, and the list of the others is chained again in the order of a map.
IncrementalVacuum(file, n, order) ==
    LET cut == IF n = 0 THEN Cardinality(tailOf(file)) ELSE Min({n, Cardinality(tailOf(file))})
        kept == [file EXCEPT !.pages = SubSeq(@, 1, Len(@) - cut), !.free = NullPage]
    IN  IF cut = 0 THEN file
        ELSE FoldLeft(FreePage, kept, SelectSeq(order, LAMBDA p : p <= Len(kept.pages)))
=============================================================================
