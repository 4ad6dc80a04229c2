------------------------------ MODULE BTreeOps ------------------------------
(* The B+tree index (index/btree.go, cursor.go, check.go): what Put, Delete, *)
(* Get and a cursor make of the node pages.                                  *)
(*                                                                           *)
(* A tree key is a field and a record id, ordered by the field and then by   *)
(* the id.  Nodes are written whole (fillLeaf, fillInterior), so a node is   *)
(* the sequence of its cells and only their lengths matter to the page.  A   *)
(* store st is [file, root, ...]: the page file and the root of each tree.   *)
EXTENDS Slotted

CONSTANTS
    FieldLen     \* field -> length of its tree key with the record id

ASSUME BTreeAssumption == \A f \in DOMAIN FieldLen : f \in Nat /\ FieldLen[f] \in Nat \ {0}

ChildLen == 1           \* the child page number of an interior cell
MaxKey == BodyLen \div 4
NoKey == [f |-> -1, page |-> 0, slot |-> 0]      \* the empty separator

treeKey(f, rid) == [f |-> f, page |-> rid.page, slot |-> rid.slot]
ridOf(k) == [page |-> k.page, slot |-> k.slot]

\* bytes.Compare on tree keys.
less(a, b) ==
    \/ a.f < b.f
    \/ a.f = b.f /\ a.page < b.page
    \/ a.f = b.f /\ a.page = b.page /\ a.slot < b.slot
leq(a, b) == a = b \/ less(a, b)

keyLen(k) == IF k = NoKey THEN 0 ELSE FieldLen[k.f]
sumLen(s, len(_)) == FoldLeft(LAMBDA n, x : n + len(x), 0, s)

leafBytes(keys) == sumLen(keys, LAMBDA k : keyLen(k) + SlotSize)
interiorBytes(ents) == sumLen(ents, LAMBDA e : keyLen(e.sep) + ChildLen + SlotSize)
leafFits(keys) == leafBytes(keys) <= BodyLen
interiorFits(ents) == interiorBytes(ents) <= BodyLen

-----------------------------------------------------------------------------
(* Nodes.  A node that does not fit keeps the cells that did, and loses its  *)
(* sibling link: InitPage came first.                                        *)

leafPage(keys, next) == [kind |-> "leaf", cells |-> keys, next |-> next]
interiorPage(ents) == [kind |-> "interior", cells |-> ents, next |-> NullPage]

node(st, pno) == st.file.pages[pno]
fillLeaf(keys) == SubSeq(keys, 1, Max({n \in 0..Len(keys) : leafFits(SubSeq(keys, 1, n))}))
fillInterior(ents) == SubSeq(ents, 1, Max({n \in 0..Len(ents) : interiorFits(SubSeq(ents, 1, n))}))

\* writeLeaf, writeInterior: [st, ok, id].
writeLeaf(st, pno, keys, next) ==
    LET holding(kept) ==
            [st |-> [st EXCEPT !.file.pages[pno] = leafPage(kept, IF kept = keys THEN next ELSE NullPage)],
             ok |-> kept = keys, id |-> pno]
    IN  holding(fillLeaf(keys))

writeInterior(st, pno, ents) ==
    LET holding(kept) == [st |-> [st EXCEPT !.file.pages[pno] = interiorPage(kept)],
                          ok |-> kept = ents, id |-> pno]
    IN  holding(fillInterior(ents))

\* newLeaf, newInterior: the same on a page of its own.
newLeaf(st, keys, next) ==
    LET on(a) == writeLeaf([st EXCEPT !.file = a.file], a.id, keys, next) IN on(Allocate(st.file))

newInterior(st, ents) ==
    LET on(a) == writeInterior([st EXCEPT !.file = a.file], a.id, ents) IN on(Allocate(st.file))

-----------------------------------------------------------------------------
(* Descent and search.                                                      *)


childFor(ents, key) ==
    ents[Max({1} \cup {i \in 2..Len(ents) : \A j \in 2..i : leq(ents[j].sep, key)})].child

\* descend: the pages visited, the leaf last.
descend(st, root, key) ==
    LET down[p \in 1..Len(st.file.pages)] ==
            IF node(st, p).kind = "leaf" THEN <<p>>
            ELSE <<p>> \o down[childFor(node(st, p).cells, key)]
    IN  down[root]

leafFor(st, root, key) == Last(descend(st, root, key))

\* The leaves from one on, along the right-sibling chain.
leavesFrom(st, pno) ==
    LET from[p \in 1..Len(st.file.pages)] ==
            IF node(st, p).next = NullPage THEN <<p>> ELSE <<p>> \o from[node(st, p).next]
    IN  from[pno]

\* seek: the first leaf of the chain with a key from search on, and its place;
\* leaf is NullPage past the end.
seek(st, root, search) ==
    LET at(p) == {i \in 1..Len(node(st, p).cells) : leq(search, node(st, p).cells[i])}
        first(leaves) == [leaf |-> leaves[1], idx |-> Min(at(leaves[1]))]
        among(leaves) == IF leaves = <<>> THEN [leaf |-> NullPage, idx |-> 0] ELSE first(leaves)
    IN  among(SelectSeq(leavesFrom(st, leafFor(st, root, search)), LAMBDA p : at(p) # {}))

\* getLocked: the record id of a field, <<>> for ErrNotFound.
get(st, t, f) ==
    LET of(k) == IF k.f # f THEN <<>> ELSE <<ridOf(k)>>
        found(p) == IF p.leaf = NullPage THEN <<>> ELSE of(node(st, p.leaf).cells[p.idx])
    IN  IF st.root[t] = NullPage THEN <<>>
        ELSE found(seek(st, st.root[t], treeKey(f, [page |-> 0, slot |-> 0])))

\* sort.Search over a sorted sequence: the keys below k, and those from k on.
below(keys, k) == SelectSeq(keys, LAMBDA x : less(x, k))
above(keys, k) == SelectSeq(keys, LAMBDA x : ~less(x, k))

-----------------------------------------------------------------------------
(* Put.                                                                     *)

setRoot(st, t, pno) == [st EXCEPT !.root[t] = pno]

\* The right half of a split interior: its first separator is promoted.
rightHalf(ents, mid) == [SubSeq(ents, mid + 1, Len(ents)) EXCEPT ![1].sep = NoKey]

\* One level of insertIntoParent.  u is [st, left, sep, right, state]; state is
\* "up" while a separator is still to be installed above.
splitInterior(u, parent, ents, mid) ==
    LET promoted(left, right) ==
            [st |-> left.st, left |-> parent, sep |-> ents[mid + 1].sep, right |-> right.id,
             state |-> IF left.ok THEN "up" ELSE "full"]
        beside(right) == IF ~right.ok THEN [u EXCEPT !.st = right.st, !.state = "full"]
                         ELSE promoted(writeInterior(right.st, parent, SubSeq(ents, 1, mid)), right)
    IN  beside(newInterior(u.st, rightHalf(ents, mid)))

installIn(u, parent) ==
    LET within(ents) == IF interiorFits(ents)
                        THEN [u EXCEPT !.st = writeInterior(@, parent, ents).st, !.state = "ok"]
                        ELSE splitInterior(u, parent, ents, Len(ents) \div 2)
        among(old) == SelectSeq(old, LAMBDA e : leq(e.sep, u.sep))
                        \o <<[sep |-> u.sep, child |-> u.right]>>
                        \o SelectSeq(old, LAMBDA e : ~leq(e.sep, u.sep))
    IN  IF u.state # "up" THEN u ELSE within(among(node(u.st, parent).cells))

\* A new root over the two halves of the old one.
growRoot(u, t) ==
    LET at(top) == IF top.ok THEN [st |-> setRoot(top.st, t, top.id), err |-> "ok"]
                   ELSE [st |-> top.st, err |-> "full"]
    IN  at(newInterior(u.st, <<[sep |-> NoKey, child |-> u.left], [sep |-> u.sep, child |-> u.right]>>))

\* insertIntoParent: up the path, to a new root at its end.
insertIntoParent(st, t, path, leftChild, sep, rightChild) ==
    LET end(u) == IF u.state = "up" THEN growRoot(u, t) ELSE [st |-> u.st, err |-> u.state]
    IN  end(FoldRight(LAMBDA parent, u : installIn(u, parent), path,
                [st |-> st, left |-> leftChild, sep |-> sep, right |-> rightChild, state |-> "up"]))

splitLeaf(st, t, leaf, keys, next, path) ==
    LET mid == Len(keys) \div 2
        raised(left, right) == IF ~left.ok THEN [st |-> left.st, err |-> "full"]
                               ELSE insertIntoParent(left.st, t, path, leaf, keys[mid + 1], right.id)
        beside(right) == IF ~right.ok THEN [st |-> right.st, err |-> "full"]
                         ELSE raised(writeLeaf(right.st, leaf, SubSeq(keys, 1, mid), right.id), right)
    IN  beside(newLeaf(st, SubSeq(keys, mid + 1, Len(keys)), next))

\* The insertion into the leaf a descent ends in.
putInLeaf(st, t, path, keys, next) ==
    IF leafFits(keys) THEN [st |-> writeLeaf(st, Last(path), keys, next).st, err |-> "ok"]
    ELSE splitLeaf(st, t, Last(path), keys, next, Front(path))

putAlong(st, t, k, path) ==
    LET old == node(st, Last(path))
    IN  IF k \in Range(old.cells) THEN [st |-> st, err |-> "ok"]
        ELSE putInLeaf(st, t, path, below(old.cells, k) \o <<k>> \o above(old.cells, k), old.next)

putKey(st, t, k) == putAlong(st, t, k, descend(st, st.root[t], k))

\* The first key of a tree.
putFirst(st, t, k) ==
    LET at(first) == [st |-> setRoot(first.st, t, first.id), err |-> "ok"]
    IN  at(newLeaf(st, <<k>>, NullPage))

\* Mutant: a unique tree takes a second record id.
Put_unchecked(st, t, unique, f, rid) ==
    LET k == treeKey(f, rid)
    IN  IF keyLen(k) + SlotSize > MaxKey THEN [st |-> st, err |-> "large"]
        ELSE IF st.root[t] = NullPage THEN putFirst(st, t, k)
        ELSE putKey(st, t, k)

\* Put: [st, err], err one of ok, large, duplicate and full.
Put(st, t, unique, f, rid) ==
    LET k == treeKey(f, rid)
        existing == IF unique THEN get(st, t, f) ELSE <<>>
    IN  IF keyLen(k) + SlotSize > MaxKey THEN [st |-> st, err |-> "large"]
        ELSE IF st.root[t] = NullPage THEN putFirst(st, t, k)
        ELSE IF existing = <<>> THEN putKey(st, t, k)
        ELSE [st |-> st, err |-> IF existing = <<rid>> THEN "ok" ELSE "duplicate"]

\* Delete of the tree: [st, err], err ok or notfound.  Nodes are not merged.
DeleteKey(st, t, f, rid) ==
    LET k == treeKey(f, rid)
        without(old) == SelectSeq(old.cells, LAMBDA x : x # k)
        from(leaf, old) == IF k \notin Range(old.cells) THEN [st |-> st, err |-> "notfound"]
                           ELSE [st |-> writeLeaf(st, leaf, without(old), old.next).st, err |-> "ok"]
        at(leaf) == from(leaf, node(st, leaf))
    IN  IF st.root[t] = NullPage THEN [st |-> st, err |-> "notfound"] ELSE at(leafFor(st, st.root[t], k))

-----------------------------------------------------------------------------
(* Cursors.  The keys of a leaf are copied when the cursor comes to it.      *)

NoBound == -1

EndCursor == [keys |-> <<>>, idx |-> 0, next |-> NullPage, hi |-> NoBound, incHi |-> FALSE,
              primed |-> FALSE, done |-> TRUE]

\* step: past the copy of the leaf, to the next leaf of the chain with a key.
stepCursor(st, c) ==
    LET onto(leaf) == [c EXCEPT !.keys = leaf.cells, !.idx = 1, !.next = leaf.next]
        among(leaves) == IF leaves = <<>> THEN [c EXCEPT !.done = TRUE] ELSE onto(node(st, leaves[1]))
    IN  IF c.idx < Len(c.keys) THEN [c EXCEPT !.idx = @ + 1]
        ELSE IF c.next = NullPage THEN [c EXCEPT !.done = TRUE]
        ELSE among(SelectSeq(leavesFrom(st, c.next), LAMBDA p : node(st, p).cells # <<>>))

\* A cursor drained at once.
chainKeys(st, t) ==
    IF st.root[t] = NullPage THEN <<>>
    ELSE FoldLeft(LAMBDA ks, p : ks \o node(st, p).cells, <<>>,
                  leavesFrom(st, leafFor(st, st.root[t], NoKey)))

\* Scan: an exclusive lower bound skips the entries of that field.
openCursor(st, t, lo, incLo, hi, incHi) ==
    LET first(p) == [keys |-> node(st, p.leaf).cells, idx |-> p.idx, next |-> node(st, p.leaf).next,
                     hi |-> hi, incHi |-> incHi, primed |-> TRUE, done |-> FALSE]
        skip(c, k) == IF c.done \/ incLo \/ lo = NoBound THEN c
                      ELSE IF c.keys[c.idx].f # lo THEN c ELSE stepCursor(st, c)
        from(p) == IF p.leaf = NullPage THEN EndCursor ELSE FoldLeft(skip, first(p), chainKeys(st, t))
        search == IF lo = NoBound THEN NoKey ELSE treeKey(lo, [page |-> 0, slot |-> 0])
    IN  IF st.root[t] = NullPage THEN EndCursor ELSE from(seek(st, st.root[t], search))

\* Next: done when it returns false, else the entry is keys[idx].
nextCursor(st, c) ==
    LET past(d) == d.hi # NoBound /\ (IF d.incHi THEN d.keys[d.idx].f > d.hi ELSE d.keys[d.idx].f >= d.hi)
        bounded(d) == IF d.done THEN d ELSE [d EXCEPT !.done = past(d)]
    IN  bounded(IF c.primed THEN [c EXCEPT !.primed = FALSE] ELSE stepCursor(st, c))

-----------------------------------------------------------------------------
(* Check.                                                                   *)

\* The node pages below a root, as checkNode and countPages walk them.
nodesOf(st, t) ==
    LET kids(p) == IF node(st, p).kind # "interior" THEN {}
                   ELSE {node(st, p).cells[i].child : i \in 1..Len(node(st, p).cells)}
        walk[n \in 0..Len(st.file.pages)] ==
            IF n = 0 THEN {st.root[t]} \ {NullPage}
            ELSE LET seen == walk[n - 1] IN seen \cup UNION {kids(p) : p \in seen}
    IN  walk[Len(st.file.pages)]

strictlySorted(keys) == \A i \in 1..(Len(keys) - 1) : less(keys[i], keys[i + 1])
separators(cells) == [i \in 1..Len(cells) |-> cells[i].sep]

treeProblems(st, t) ==
    LET nodes == nodesOf(st, t)
        leaves == {p \in nodes : node(st, p).kind = "leaf"}
        inner == {p \in nodes : node(st, p).kind = "interior"}
        total == MapThenSumSet(LAMBDA p : Len(node(st, p).cells), leaves)
    IN  {x \in {"type", "separators", "leaf", "chain", "total"} :
          CASE x = "type" -> nodes # leaves \cup inner
            [] x = "separators" -> \E p \in inner : ~strictlySorted(separators(node(st, p).cells))
            [] x = "leaf" -> \E p \in leaves : ~strictlySorted(node(st, p).cells)
            [] x = "chain" -> ~strictlySorted(chainKeys(st, t))
            [] x = "total" -> total # Len(chainKeys(st, t))}
=============================================================================
