------------------------------- MODULE Pool --------------------------------
(* The buffer pool of the pager: frames handed out pinned, the 2Q lists that *)
(* choose a victim, the ghost list, and the freelist, used by the heap and an *)
(* index at once (pager/pool.go, pager/pager.go, heap/overflow.go).  A frame  *)
(* is an object users point at, as in the code: a frame reclaimed under a     *)
(* user is seen holding another page.  LSNs are kept as what eviction asks of *)
(* them: a frame is clean, committed (dirty, logged) or uncommitted.  Page 0, *)
(* pinned for ever and on no list, appears only in the count of frames.       *)
EXTENDS Integers, FiniteSets, SequencesExt

CONSTANTS
    PoolUsers,  \* who fetches pages; each only the pages it allocated
    PoolHeap,   \* the user that is the heap, which frees overflow chains
    PoolStarts  \* what is opened: the most resident frames (page 0's included),
                \*   the user of each page of the file; and bounds: pages of
                \*   the file, pages freed, and reads and writes that fail

VARIABLES
    bp,   \* the pool and the pager state it depends on
    usr,  \* user -> what it is doing: [at, page, frame, err]
    owner \* allocated page -> the user that allocated it

pvars == <<bp, usr, owner>>

ASSUME PoolAssumption ==
    /\ PoolHeap \in PoolUsers
    /\ \A st \in PoolStarts :
          /\ {st.capacity, st.pages, st.frees, st.faults} \subseteq Nat /\ st.capacity >= 2
          /\ Len(st.owner) < st.pages /\ ToSet(st.owner) \subseteq PoolUsers

NoPage == 0
NoFrame == 0
Fresh == [page |-> NoPage, pins |-> 0, image |-> "clean"]
FrameIds == 1 .. (Max({st.capacity : st \in PoolStarts}) + Cardinality(PoolUsers))

\* frees and faults are how many the bounds still allow.
newPool(st) ==
    [capacity |-> st.capacity,
     frame |-> [f \in FrameIds |-> Fresh], table |-> <<>>, a1in |-> <<>>, am |-> <<>>, a1out |-> <<>>,
     resident |-> 1, frozen |-> 0, count |-> 1 + Len(st.owner), free |-> <<>>, most |-> st.pages,
     frees |-> st.frees, faults |-> st.faults, lost |-> 0, short |-> {}, stranded |-> FALSE]

kin(b) == IF b.capacity \div 4 < 1 THEN 1 ELSE b.capacity \div 4
ghostCap(b) == b.capacity \div 2

Drop(s, x) == SelectSeq(s, LAMBDA y : y # x)
without(fn, x) == [y \in DOMAIN fn \ {x} |-> fn[y]]
PoolFrames(b) == {b.table[p] : p \in DOMAIN b.table}
done(b, f) == [b |-> b, f |-> f, err |-> ""]
failing(b, why) == [b |-> b, f |-> NoFrame, err |-> why]
\* Continue from every outcome that is not an error.
chain(outs, Op(_, _)) == UNION {IF o.err = "" THEN Op(o.b, o.f) ELSE {o} : o \in outs}
\* The outcome of one more failed read or write, while the bound allows one.
faulty(b) == IF b.faults > 0 THEN {failing([b EXCEPT !.faults = @ - 1], "io")} ELSE {}
-----------------------------------------------------------------------------
\* pool.go.

addGhost(b, p) ==
    LET order == IF Contains(b.a1out, p) THEN b.a1out ELSE Append(b.a1out, p)
    IN [b EXCEPT !.a1out = IF Len(order) > ghostCap(b) THEN Tail(order) ELSE order]

recordHit(b, f) == IF Contains(b.am, f) THEN [b EXCEPT !.am = <<f>> \o Drop(@, f)] ELSE b

admit(b, f, p) ==
    LET c == [b EXCEPT !.table = [q \in DOMAIN @ \cup {p} |-> IF q = p THEN f ELSE @[q]],
                       !.frame[f].page = p]
    IN IF Contains(b.a1out, p)
       THEN [c EXCEPT !.a1out = Drop(@, p), !.am = <<f>> \o @]
       ELSE [c EXCEPT !.a1in = <<f>> \o @]

evictableFrame(b, f) ==
    /\ b.frame[f].pins = 0
    /\ \/ b.frame[f].image = "clean"
       \/ b.frame[f].image = "committed" /\ b.frozen = 0

evictFrom(b, fromA1) ==
    LET l == IF fromA1 THEN b.a1in ELSE b.am
        ok == {i \in DOMAIN l : evictableFrame(b, l[i])}
    IN IF ok = {} THEN NoFrame ELSE l[CHOOSE i \in ok : \A j \in ok : j <= i]

selectVictim_noFallback(b) == evictFrom(b, Len(b.a1in) > kin(b))
selectVictim(b) ==
    LET preferA1 == Len(b.a1in) > kin(b)
        v == evictFrom(b, preferA1)
    IN IF v # NoFrame THEN v ELSE evictFrom(b, ~preferA1)

\* The victim leaves the table and its list; from a1in its page becomes a ghost.
evict(b, v) ==
    LET p == b.frame[v].page
        c == IF Contains(b.a1in, v) THEN addGhost([b EXCEPT !.a1in = Drop(@, v)], p)
             ELSE [b EXCEPT !.am = Drop(@, v)]
    IN [c EXCEPT !.table = without(@, p)]

forget(b, p) ==
    IF p \notin DOMAIN b.table THEN b
    ELSE LET f == b.table[p]
         IN [b EXCEPT !.table = without(@, p), !.a1in = Drop(@, f), !.am = Drop(@, f), !.resident = @ - 1]

\* A new frame is an object nobody points at.
newFrame(b) ==
    LET f == CHOOSE f \in FrameIds : f \notin PoolFrames(b) \cup {usr[u].frame : u \in PoolUsers}
    IN done([b EXCEPT !.resident = @ + 1, !.frame[f] = Fresh, !.short = @ \ {f}], f)

\* obtainFrame and the write-back of a dirty victim.  When that fails the victim
\* is on no list and in no table, and its place in the count is not given back.
obtainFrame(b) ==
    IF b.resident < b.capacity THEN {newFrame(b)}
    ELSE LET v == selectVictim(b)
             c == evict(b, v)
         IN IF v = NoFrame THEN {failing(b, "exhausted")}
            ELSE {done([c EXCEPT !.frame[v].image = "clean"], v)}
                 \cup (IF b.frame[v].image = "clean" THEN {} ELSE faulty([c EXCEPT !.lost = @ + 1]))
-----------------------------------------------------------------------------
\* pager.go, each under the pager's mutex.

pin(b, f, n) == [b EXCEPT !.frame[f].pins = @ + n]
markDirty(b, f) == [b EXCEPT !.frame[f].image = "uncommitted"]

fetchLocked_leaksSlot(b, p) ==
    IF p \in DOMAIN b.table THEN {done(recordHit(pin(b, b.table[p], 1), b.table[p]), b.table[p])}
    ELSE chain(obtainFrame(b),
               LAMBDA c, f : {done(pin(admit(c, f, p), f, 1), f)} \cup faulty(c))
fetchLocked(b, p) ==
    IF p \in DOMAIN b.table THEN {done(recordHit(pin(b, b.table[p], 1), b.table[p]), b.table[p])}
    ELSE chain(obtainFrame(b),
               LAMBDA c, f : {done(pin(admit(c, f, p), f, 1), f)}
                             \cup faulty([c EXCEPT !.resident = @ - 1]))

allocateFromFreelist(b) ==
    chain(fetchLocked(b, Head(b.free)),
          LAMBDA c, f : {done(markDirty([c EXCEPT !.free = Tail(@)], f), f)})

allocateByGrowing(b) ==
    chain(obtainFrame(b),
          LAMBDA c, f : {done(markDirty(pin(admit([c EXCEPT !.count = @ + 1], f, b.count), f, 1), f), f)})

AllocatePage(b) == IF b.free # <<>> THEN allocateFromFreelist(b) ELSE allocateByGrowing(b)

\* A resident frame is unpinned without being pinned first: the caller's pin.
Free(b, p) ==
    chain(IF p \in DOMAIN b.table THEN {done([b EXCEPT !.short = @ \cup {b.table[p]}], b.table[p])}
          ELSE fetchLocked(b, p),
          LAMBDA c, f : {done(pin(markDirty([c EXCEPT !.free = <<p>> \o @, !.frees = @ - 1], f), f, -1), f)})

written(b, S) == [b EXCEPT !.frame = [f \in FrameIds |-> IF f \in S THEN [@[f] EXCEPT !.image = "clean"] ELSE @[f]]]

\* Every committed frame is written back, or some are and one fails.
checkpointFrames(b) ==
    LET dirty == {f \in PoolFrames(b) : b.frame[f].image = "committed"}
    IN {done(written(b, dirty), NoFrame)} \cup UNION {faulty(written(b, S)) : S \in SUBSET dirty}

\* Past the threshold a commit checkpoints, unless a backup holds it off.
commitFrames(b) ==
    LET c == [b EXCEPT !.frame =
                [f \in FrameIds |-> IF f \in PoolFrames(b) /\ @[f].image = "uncommitted"
                                    THEN [@[f] EXCEPT !.image = "committed"] ELSE @[f]]]
    IN {done(c, NoFrame)} \cup (IF b.frozen = 0 THEN checkpointFrames(c) ELSE {})

\* Fetch every page of s in turn, put it on the freelist when relinking, and unpin it.
relink(b, f, p) == markDirty([b EXCEPT !.free = <<p>> \o @], f)
eachPage(outs, s, relinking) ==
    FoldLeft(LAMBDA acc, p : chain(acc, LAMBDA c, g : chain(fetchLocked(c, p),
                 LAMBDA d, f : {done(pin(IF relinking THEN relink(d, f, p) ELSE d, f, -1), NoFrame)})), outs, s)

\* The trailing free pages leave the freelist, the file and the pool.  A write that
\* fails once the page count is lowered leaves their frames stranded in the pool.
IncrementalVacuumPool(b) ==
    LET freed == ToSet(b.free)
        cut == CHOOSE n \in 1 .. b.count : (n .. (b.count - 1)) \subseteq freed /\ (n > 1 => (n - 1) \notin freed)
        rest == SetToSeq(freed \ (cut .. (b.count - 1)))
        read == eachPage(checkpointFrames(b), b.free, FALSE)
        rebuild == chain(read, LAMBDA c, f : eachPage({done([c EXCEPT !.free = <<>>], NoFrame)}, rest, TRUE))
        logged == chain(rebuild, LAMBDA c, f : chain(commitFrames([c EXCEPT !.count = cut]), LAMBDA d, g : checkpointFrames(d)))
    IN IF cut = b.count THEN read
       ELSE chain({IF o.err = "" \/ o.b.count = b.count THEN o ELSE [o EXCEPT !.b.stranded = TRUE] : o \in logged},
                  LAMBDA c, f : {done(FoldLeft(forget, c, [i \in 1 .. (b.count - cut) |-> cut + i - 1]), NoFrame)})
-----------------------------------------------------------------------------
idle == [at |-> "idle", page |-> NoPage, frame |-> NoFrame, err |-> ""]
\* Of the errors a user meets, the model remembers the exhausted pool.
refused(o) == [idle EXCEPT !.err = IF o.err = "exhausted" THEN o.err ELSE ""]
holding(at, p, o) == [at |-> at, page |-> p, frame |-> o.f, err |-> ""]

PoolInit ==
    /\ usr = [u \in PoolUsers |-> idle]
    /\ \E st \in PoolStarts : bp = newPool(st) /\ owner = st.owner

FetchCall(u, p) ==
    /\ usr[u].at = "idle" /\ owner[p] = u
    /\ \E o \in fetchLocked(bp, p) :
          bp' = o.b /\ usr' = [usr EXCEPT ![u] = IF o.err = "" THEN holding("using", p, o) ELSE refused(o)]
    /\ UNCHANGED owner

AllocateCall(u) ==
    /\ usr[u].at = "idle" /\ (bp.free # <<>> \/ bp.count < bp.most)
    /\ \E o \in AllocatePage(bp) :
          /\ bp' = o.b
          /\ LET p == o.b.frame[o.f].page
             IN IF o.err = ""
                THEN /\ usr' = [usr EXCEPT ![u] = holding("using", p, o)]
                     /\ owner' = [q \in DOMAIN owner \cup {p} |-> IF q = p THEN u ELSE owner[q]]
                ELSE usr' = [usr EXCEPT ![u] = refused(o)] /\ UNCHANGED owner

MarkDirtyCall(u) ==
    usr[u].at = "using" /\ bp' = markDirty(bp, usr[u].frame) /\ UNCHANGED <<usr, owner>>

UnpinCall(u) ==
    usr[u].at = "using" /\ bp' = pin(bp, usr[u].frame, -1) /\ usr' = [usr EXCEPT ![u] = idle] /\ UNCHANGED owner

\* freeOverflow: the page is fetched for its link, unpinned, and then freed.
FreeOverflowFetch(p) ==
    /\ usr[PoolHeap].at = "idle" /\ bp.frees > 0 /\ owner[p] = PoolHeap
    /\ \E o \in fetchLocked(bp, p) :
          bp' = o.b /\ usr' = [usr EXCEPT ![PoolHeap] = IF o.err = "" THEN holding("linking", p, o) ELSE refused(o)]
    /\ UNCHANGED owner

FreeOverflowUnpin ==
    /\ usr[PoolHeap].at = "linking" /\ bp' = pin(bp, usr[PoolHeap].frame, -1)
    /\ usr' = [usr EXCEPT ![PoolHeap] = [idle EXCEPT !.at = "freeing", !.page = usr[PoolHeap].page]]
    /\ UNCHANGED owner

FreeOverflowFree ==
    /\ usr[PoolHeap].at = "freeing"
    /\ \E o \in Free(bp, usr[PoolHeap].page) :
          /\ bp' = o.b /\ usr' = [usr EXCEPT ![PoolHeap] = refused(o)]
          /\ owner' = IF o.err = "" THEN without(owner, usr[PoolHeap].page) ELSE owner

PoolCommit == (\E o \in commitFrames(bp) : bp' = o.b) /\ UNCHANGED <<usr, owner>>
PoolCheckpoint == (\E o \in checkpointFrames(bp) : bp' = o.b) /\ UNCHANGED <<usr, owner>>
PoolVacuum == bp.count > 1 /\ (\E o \in IncrementalVacuumPool(bp) : bp' = o.b) /\ UNCHANGED <<usr, owner>>

\* Backup checkpoints and freezes; the copy itself touches no frame.
BackupFreeze ==
    /\ bp.frozen = 0
    /\ \E o \in checkpointFrames(bp) : bp' = IF o.err = "" THEN [o.b EXCEPT !.frozen = 1] ELSE o.b
    /\ UNCHANGED <<usr, owner>>
BackupRelease == bp.frozen = 1 /\ bp' = [bp EXCEPT !.frozen = 0] /\ UNCHANGED <<usr, owner>>

PoolNext ==
    \/ \E u \in PoolUsers : \/ \E p \in DOMAIN owner : FetchCall(u, p)
                            \/ AllocateCall(u) \/ MarkDirtyCall(u) \/ UnpinCall(u)
    \/ \E p \in DOMAIN owner : FreeOverflowFetch(p)
    \/ FreeOverflowUnpin \/ FreeOverflowFree
    \/ PoolCommit \/ PoolCheckpoint \/ PoolVacuum \/ BackupFreeze \/ BackupRelease

PoolSpec == PoolInit /\ [][PoolNext]_pvars
-----------------------------------------------------------------------------
\* The page table, the two lists and the resident count describe the same frames,
\* the ghosts are a bounded list of pages that are not resident, and only a failed
\* write-back ever costs the pool a frame (obtainFrame, admit, forget, and the
\* rollback of a failed read in fetchLocked).  A vacuum whose write fails after it
\* lowered the page count is the exception: it never forgets the frames cut off.
PoolAccounts ==
    bp.stranded \/
    /\ bp.resident = 1 + Cardinality(DOMAIN bp.table) + bp.lost
    /\ bp.resident <= bp.capacity
    /\ \A p \in DOMAIN bp.table : bp.frame[bp.table[p]].page = p
    /\ IsInjective(bp.a1in \o bp.am) /\ ToSet(bp.a1in \o bp.am) = PoolFrames(bp)
    /\ IsInjective(bp.a1out) /\ Len(bp.a1out) <= ghostCap(bp)
    /\ ToSet(bp.a1out) \cap DOMAIN bp.table = {}

\* A frame stays the frame of its page for as long as somebody holds it: eviction,
\* vacuum and another user's allocation never put a different page into a buffer
\* in use.  Frames that Free unpinned while its caller held no pin are the
\* exception (see FetchedIsPinned).
HeldFramesStay ==
    \A u \in PoolUsers :
        LET f == usr[u].frame
        IN f # NoFrame /\ f \notin bp.short /\ ~bp.stranded
           => /\ usr[u].page \in DOMAIN bp.table /\ bp.table[usr[u].page] = f
              /\ bp.frame[f].page = usr[u].page

\* A page is owned by one user, on the freelist once, or neither; it is never both,
\* so that Allocate never hands out a page somebody uses, whatever frees, failed
\* reads and vacuums come in between.
PagesHandedOutOnce ==
    /\ IsInjective(bp.free) /\ ToSet(bp.free) \cap DOMAIN owner = {}
    /\ ToSet(bp.free) \cup DOMAIN owner \subseteq 1 .. (bp.count - 1)

\* The pool's counters, lists and freelist say what its frames are, whichever
\* users fetch, free and fail in between, and a page is never another's frame
\* or handed out twice.
PoolIsSound == PoolAccounts /\ HeldFramesStay /\ PagesHandedOutOnce

\* ErrPoolExhausted is returned only when every resident frame is pinned, or dirty
\* and not to be stolen: the choice of a list never hides a victim on the other.
ExhaustedIsHonest ==
    [][\A u \in PoolUsers : usr'[u].err = "exhausted" /\ usr[u] # usr'[u]
          => \A f \in PoolFrames(bp) : ~evictableFrame(bp, f)]_pvars

\* Fetch "returns the frame for pageID, pinned" (pager.go): while a user works on a
\* frame, its pin count is above zero.
FetchedIsPinned ==
    \A u \in PoolUsers : usr[u].frame # NoFrame => bp.frame[usr[u].frame].pins > 0
=============================================================================
