-------------------------------- MODULE BTree -------------------------------
(* A client of one B+tree index: Put and Delete, each under the tree's lock, *)
(* and a range cursor whose Next comes between them (index/cursor.go takes   *)
(* the lock to open the cursor only).                                        *)
EXTENDS BTreeOps

CONSTANTS
    TreeRIDs,     \* record ids put under a field
    TreeSetups,   \* sequences of [f, rid] put before the calls begin
    ScanRanges,   \* ranges of the cursor: [lo, incLo, hi, incHi]
    PutFields,    \* fields of the calls
    MaxTreeOps    \* bound on the calls

VARIABLES
    bst,      \* [file, root]
    entered,  \* what the leaf chain holds, as entries
    uniq,     \* whether the tree is unique
    cur,      \* the cursor: [c, lo, incLo, got, kept]; kept was there throughout
    bops,     \* calls made
    torn      \* a split failed for want of room in a half

bvars == <<bst, entered, uniq, cur, bops, torn>>

T == "t"
EmptyTree == [file |-> NewFile, root |-> [t \in {T} |-> NullPage]]

entriesOf(st) == {[f |-> k.f, rid |-> ridOf(k)] : k \in Range(chainKeys(st, T))}

NoScanYet == [c |-> EndCursor, lo |-> NoBound, incLo |-> FALSE, got |-> <<>>, kept |-> {}, opened |-> FALSE]

BTreeInit ==
    /\ uniq \in BOOLEAN
    /\ \E s \in TreeSetups : bst = FoldLeft(LAMBDA st, e : Put(st, T, uniq, e.f, e.rid).st, EmptyTree, s)
    /\ entered = entriesOf(bst)
    /\ cur = NoScanYet
    /\ bops = 0
    /\ torn = FALSE

TreeCall == bops < MaxTreeOps /\ bops' = bops + 1 /\ UNCHANGED uniq

PutCall(f, r) ==
    /\ TreeCall
    /\ \E p \in {Put(bst, T, uniq, f, r)} :
          /\ bst' = p.st
          /\ entered' = entriesOf(p.st)
          /\ torn' = (torn \/ p.err = "full")
    /\ UNCHANGED cur

DeleteKeyCall(f, r) ==
    /\ TreeCall
    /\ bst' = DeleteKey(bst, T, f, r).st
    /\ entered' = entriesOf(bst')
    /\ cur' = [cur EXCEPT !.kept = @ \ {treeKey(f, r)}]
    /\ UNCHANGED torn

inRange(k, lo, incLo, hi, incHi) ==
    /\ lo # NoBound => (IF incLo THEN k.f >= lo ELSE k.f > lo)
    /\ hi # NoBound => (IF incHi THEN k.f <= hi ELSE k.f < hi)

ScanCall(lo, incLo, hi, incHi) ==
    /\ ~cur.opened
    /\ cur' = [c |-> openCursor(bst, T, lo, incLo, hi, incHi), lo |-> lo, incLo |-> incLo, got |-> <<>>,
               kept |-> {k \in Range(chainKeys(bst, T)) : inRange(k, lo, incLo, hi, incHi)},
               opened |-> TRUE]
    /\ UNCHANGED <<bst, entered, uniq, bops, torn>>

NextCall ==
    /\ cur.opened /\ ~cur.c.done
    /\ \E d \in {nextCursor(bst, cur.c)} :
          cur' = [cur EXCEPT !.c = d, !.got = IF d.done THEN @ ELSE Append(@, d.keys[d.idx])]
    /\ UNCHANGED <<bst, entered, uniq, bops, torn>>

BTreeNext ==
    \/ \E f \in PutFields, r \in TreeRIDs : PutCall(f, r) \/ DeleteKeyCall(f, r)
    \/ \E b \in ScanRanges : ScanCall(b.lo, b.incLo, b.hi, b.incHi)
    \/ NextCall

BTreeSpec == BTreeInit /\ [][BTreeNext]_bvars

-----------------------------------------------------------------------------

IS == INSTANCE IndexStore WITH
    entries <- entered, unique <- uniq, Fields <- DOMAIN FieldLen, IndexRIDs <- TreeRIDs

\* The B+tree implements the abstract index: a Put adds its entry and nothing
\* else, through leaf splits, interior splits and new roots, a Delete takes only
\* its own, and a unique tree rejects the second record id of a field.  A split
\* whose half does not fit ends this (torn).
ImplementsIndexStore == [][torn' \/ IS!IndexNext]_<<entered, uniq>>

\* index.Check reports nothing: node types, order within and across nodes, and
\* the same keys by the tree and by the leaf chain.  With that, a search finds
\* every entry of the chain: descend ends at the leaf that holds it.
TreeCheckIsClean ==
    ~torn => /\ treeProblems(bst, T) = {}
             /\ \A k \in Range(chainKeys(bst, T)) : k \in Range(node(bst, leafFor(bst, bst.root[T], k)).cells)

\* A cursor returns its entries in order, none twice and none out of range, and
\* when it ends it has returned every entry of the range that was there from its
\* opening on, whatever was put, deleted and split under it.
CursorMissesNothing ==
    ~torn => /\ strictlySorted(cur.got)
             /\ \A i \in 1..Len(cur.got) : inRange(cur.got[i], cur.lo, cur.incLo, cur.c.hi, cur.c.incHi)
             /\ cur.opened /\ cur.c.done => cur.kept \subseteq Range(cur.got)
=============================================================================
