----------------------------- MODULE Collection -----------------------------
(***************************************************************************)
(* The transactions of an engine's collections (collection/ops.go,         *)
(* update.go, upsert.go, multitxn.go) over the version oracle they share:  *)
(* the overlay byID keeps, for every _id of a collection, the newest-first *)
(* chain of committed versions; a transaction reads the chain at its       *)
(* snapshot plus its own buffered writes; Commit validates with the        *)
(* oracle, makes the writes durable, publishes them on the chains and then *)
(* garbage-collects the collections it used, and no other.                 *)
(*                                                                         *)
(* A key is an _id of one collection.  The oracle's conflict keys do not   *)
(* name the collection and are hashes: a conflict the model does not see   *)
(* ends a Commit like a failing durable.                                   *)
(*                                                                         *)
(* A client is a goroutine that runs one transaction after another.  The   *)
(* oracle's methods and the c.mu critical sections are atomic; between     *)
(* them clients interleave, so gc works with a watermark read earlier.     *)
(* Documents are opaque values.  What durable does to the heap and the     *)
(* pager is not part of this module: it succeeds or returns an error.      *)
(***************************************************************************)
EXTENDS Oracle, FiniteSets

CONSTANTS
  Clients,       \* goroutines using the collections
  Colls,         \* the collections of the engine
  Keys,          \* overlay keys (encoded _id values) of all collections
  CollOf,        \* the collection of a key
  Docs,          \* document contents
  NoDoc,         \* the nil document
  MaxWriters,    \* bound: read-write transactions running at once
  MaxMulti,      \* bound: how many of them are not of a single collection
  MaxRecovered,  \* bound: commit versions found when the file was opened
  MaxVer         \* bound: no commit beyond this version

ASSUME CollectionAssumption ==
  /\ IsFiniteSet(Clients)
  /\ CollOf \in [Keys -> Colls]
  /\ NoDoc \notin Docs
  /\ MaxWriters \in Nat
  /\ MaxMulti \in Nat
  /\ MaxRecovered \in Nat
  /\ MaxVer \in Nat

VARIABLES
  phase,     \* per client: idle, active, ended (snapshot released), gc
  startVer,  \* per client: snapshot version of its transaction
  writable,  \* per client: read-write or read-only transaction
  pending,   \* per client and key: the buffered pendingOp
  order,     \* per client: the collections its transaction uses, and when it
             \*   is over those it has yet to garbage-collect
  gcIn,      \* per client: the collection whose gc() it is in, if any
  gcWm,      \* per client: the watermark gc() read before locking c.mu
  byID,      \* overlay: key -> newest-first chain of versions
  dirty,     \* keys whose chain gc has to visit
  pinned     \* ghost: collections whose last gc met the snapshot of a
             \*   transaction that does not use them

txnVars == <<phase, startVer, writable, pending, order, gcIn, gcWm>>
vars == <<oracleVars, txnVars, byID, dirty, pinned>>

Phases == {"idle", "active", "ended", "gc"}
Versions == [commitVer : Nat, doc : Docs \cup {NoDoc}]
PendingOps == [touched : BOOLEAN, insertDoc : Docs \cup {NoDoc}, hasRemove : BOOLEAN]
Untouched == [touched |-> FALSE, insertDoc |-> NoDoc, hasRemove |-> FALSE]

(***************************************************************************)
(* Reading.                                                                *)
(***************************************************************************)

\* Index of the first (newest) version at or below ver, or 0 if none is.
firstAt(chain, ver) ==
  LET hits == {i \in 1..Len(chain) : chain[i].commitVer <= ver}
  IN  IF hits = {} THEN 0 ELSE Min(hits)

visibleAt(chain, ver) ==
  LET i == firstAt(chain, ver)
  IN  IF i = 0 THEN NoDoc ELSE chain[i].doc

noop(p) == p.insertDoc = NoDoc /\ ~p.hasRemove

writeSet(c) == {k \in Keys : ~noop(pending[c][k])}

currentDoc(c, k) ==
  IF pending[c][k].touched THEN pending[c][k].insertDoc
  ELSE visibleAt(byID[k], startVer[c])

\* committedVersion found a live document at the snapshot.
committedAt(c, k) == visibleAt(byID[k], startVer[c]) # NoDoc

(***************************************************************************)
(* Transactions.                                                           *)
(***************************************************************************)

IsSingle(used) == \E x \in Colls : used = {x}

\* The client is in a MultiTxn over several collections, or over none.
Multi(c) == writable[c] /\ ~IsSingle(order[c])

\* A transaction of one collection, or one over several (MultiTxn, always
\* writable).  The collections a MultiTxn will call For with are chosen here:
\* only at its end does it matter which they are.
Begin(c, rw, used) ==
  /\ phase[c] = "idle"
  /\ ~IsSingle(used) => rw /\ Cardinality({b \in Clients : Multi(b)}) < MaxMulti
  /\ rw => Cardinality({b \in Clients : writable[b]}) < MaxWriters
  /\ Acquire
  /\ phase' = [phase EXCEPT ![c] = "active"]
  /\ startVer' = [startVer EXCEPT ![c] = commitVer]
  /\ writable' = [writable EXCEPT ![c] = rw]
  /\ order' = [order EXCEPT ![c] = used]
  /\ UNCHANGED <<pending, gcIn, gcWm, byID, dirty, pinned>>

buffer(c, k, insert, remove) ==
  /\ CollOf[k] \in order[c]
  /\ pending' = [pending EXCEPT ![c][k] =
                   [touched |-> TRUE, insertDoc |-> insert, hasRemove |-> remove]]
  /\ UNCHANGED <<oracleVars, phase, startVer, writable, order, gcIn, gcWm, byID,
                 dirty, pinned>>

insertBuffered(c, k, d) ==
  /\ phase[c] = "active" /\ writable[c]
  /\ currentDoc(c, k) = NoDoc
  /\ buffer(c, k, d, pending[c][k].hasRemove)

bufferReplace(c, k, d) ==
  /\ phase[c] = "active" /\ writable[c]
  /\ currentDoc(c, k) # NoDoc
  /\ buffer(c, k, d, pending[c][k].hasRemove \/ committedAt(c, k))

bufferDelete(c, k) ==
  /\ phase[c] = "active" /\ writable[c]
  /\ currentDoc(c, k) # NoDoc
  /\ buffer(c, k, NoDoc, pending[c][k].hasRemove \/ committedAt(c, k))

\* What is left to do once a transaction or a gc is over.
next(c) == IF order[c] = {} THEN "idle" ELSE "ended"

\* done is set: nothing reads the finished Txn object again.
end(c) ==
  /\ phase' = [phase EXCEPT ![c] = next(c)]
  /\ startVer' = [startVer EXCEPT ![c] = 0]
  /\ writable' = [writable EXCEPT ![c] = FALSE]
  /\ pending' = [pending EXCEPT ![c] = [k \in Keys |-> Untouched]]
  /\ UNCHANGED <<order, gcIn, gcWm, pinned>>

\* Rollback, and the Commit of a transaction without effective writes.
Rollback(c) ==
  /\ phase[c] = "active"
  /\ Release(startVer[c])
  /\ end(c)
  /\ UNCHANGED <<byID, dirty>>

\* Commit aborted by a conflict.
CommitConflict(c) ==
  /\ phase[c] = "active" /\ writeSet(c) # {}
  /\ conflicts(startVer[c], writeSet(c))
  /\ Release(startVer[c])
  /\ end(c)
  /\ UNCHANGED <<byID, dirty>>

\* Mutant: the new version goes to the old end of the chain.
publish_tail(c, cv) ==
  /\ byID' = [k \in Keys |->
                IF k \in writeSet(c)
                THEN Append(byID[k], [commitVer |-> cv, doc |-> pending[c][k].insertDoc])
                ELSE byID[k]]
  /\ dirty' = dirty \cup {k \in writeSet(c) : Len(byID[k]) > 0}

publish(c, cv) ==
  /\ byID' = [k \in Keys |->
                IF k \in writeSet(c)
                THEN <<[commitVer |-> cv, doc |-> pending[c][k].insertDoc]>> \o byID[k]
                ELSE byID[k]]
  /\ dirty' = dirty \cup {k \in writeSet(c) : Len(byID[k]) > 0}

\* Commit that passes the conflict check.  durable may still fail (a unique
\* index violation, an I/O error), or the conflict keys of other _ids equal
\* those of this one: the version is not consumed then.
Commit(c) ==
  /\ phase[c] = "active" /\ writeSet(c) # {}
  /\ ~conflicts(startVer[c], writeSet(c))
  /\ \/ /\ commitVer < MaxVer
        /\ install(startVer[c], writeSet(c))
        /\ publish(c, commitVer + 1)
     \/ /\ Release(startVer[c])
        /\ UNCHANGED <<byID, dirty>>
  /\ end(c)

(***************************************************************************)
(* gc() of each collection used: the watermark is read under o.mu, the     *)
(* chains are pruned under c.mu, and anything may happen in between.       *)
(***************************************************************************)

ReadWatermark(c, x) ==
  /\ phase[c] = "ended" /\ x \in order[c]
  /\ gcWm' = [gcWm EXCEPT ![c] = Watermark]
  /\ gcIn' = [gcIn EXCEPT ![c] = {x}]
  /\ order' = [order EXCEPT ![c] = @ \ {x}]
  /\ phase' = [phase EXCEPT ![c] = "gc"]
  /\ pinned' = IF /\ \E k \in dirty : CollOf[k] = x
                  /\ \E b \in Clients : phase[b] = "active" /\ x \notin order[b]
               THEN pinned \cup {x} ELSE pinned \ {x}
  /\ UNCHANGED <<oracleVars, startVer, writable, pending, byID, dirty>>

\* Mutant: a version exactly at the watermark does not end the chain.
pruneBelow_strict(chain, wm) ==
  IF firstAt(chain, wm - 1) = 0 THEN chain ELSE SubSeq(chain, 1, firstAt(chain, wm - 1))

pruneBelow(chain, wm) ==
  IF firstAt(chain, wm) = 0 THEN chain ELSE SubSeq(chain, 1, firstAt(chain, wm))

gc(c) ==
  /\ phase[c] = "gc"
  /\ byID' = [k \in Keys |-> IF k \in dirty /\ CollOf[k] \in gcIn[c]
                             THEN pruneBelow(byID[k], gcWm[c]) ELSE byID[k]]
  /\ dirty' = {k \in dirty : CollOf[k] \in gcIn[c] => Len(byID'[k]) > 1}
  /\ phase' = [phase EXCEPT ![c] = next(c)]
  /\ gcIn' = [gcIn EXCEPT ![c] = {}]
  /\ gcWm' = [gcWm EXCEPT ![c] = 0]
  /\ UNCHANGED <<oracleVars, startVer, writable, pending, order, pinned>>

(***************************************************************************)
(* The specification.  Init is what rebuild leaves: one version per live   *)
(* _id, none above the version the oracle is seeded with.                  *)
(***************************************************************************)

RecoveredChains(maxVer) ==
  {<< >>} \cup {<<[commitVer |-> v, doc |-> d]>> : v \in 1..maxVer, d \in Docs}

Init ==
  /\ \E maxVer \in 0..MaxRecovered :
       NewOracle(maxVer) /\ byID \in [Keys -> RecoveredChains(maxVer)]
  /\ phase = [c \in Clients |-> "idle"]
  /\ startVer = [c \in Clients |-> 0]
  /\ writable = [c \in Clients |-> FALSE]
  /\ pending = [c \in Clients |-> [k \in Keys |-> Untouched]]
  /\ order = [c \in Clients |-> {}]
  /\ gcIn = [c \in Clients |-> {}]
  /\ gcWm = [c \in Clients |-> 0]
  /\ dirty = {} /\ pinned = {}

Step(c) ==
  \/ \E rw \in BOOLEAN, used \in SUBSET Colls : Begin(c, rw, used)
  \/ \E k \in Keys, d \in Docs : insertBuffered(c, k, d) \/ bufferReplace(c, k, d)
  \/ \E k \in Keys : bufferDelete(c, k)
  \/ Rollback(c)
  \/ CommitConflict(c)
  \/ Commit(c)
  \/ \E x \in Colls : ReadWatermark(c, x)
  \/ gc(c)

Next == \E c \in Clients : Step(c)

Spec == Init /\ [][Next]_vars
-----------------------------------------------------------------------------

TypeOK ==
  /\ commitVer \in Nat
  /\ minLive \in Nat
  /\ DOMAIN live \subseteq 0..commitVer
  /\ live \in [DOMAIN live -> Nat \ {0}]
  /\ recent \in Seq([commitVer : Nat, writeSet : SUBSET Keys])
  /\ phase \in [Clients -> Phases]
  /\ startVer \in [Clients -> Nat]
  /\ writable \in [Clients -> BOOLEAN]
  /\ pending \in [Clients -> [Keys -> PendingOps]]
  /\ order \in [Clients -> SUBSET Colls]
  /\ gcIn \in [Clients -> SUBSET Colls]
  /\ gcWm \in [Clients -> Nat]
  /\ byID \in [Keys -> Seq(Versions)]
  /\ dirty \in SUBSET Keys
  /\ pinned \in SUBSET Colls

\* The clients whose snapshot is at version v.
LiveAt(v) == {c \in Clients : phase[c] = "active" /\ startVer[c] = v}

\* The reference counts of the oracle are exact: live[v] is the number of
\* active transactions at v (Acquire, releaseLocked).
LiveCountsExact ==
  \A v \in 0..commitVer :
    Cardinality(LiveAt(v)) = IF v \in DOMAIN live THEN live[v] ELSE 0

\* The cached watermark is the oldest live snapshot, or the commit version
\* when none is live (the comment on Oracle.minLive and Watermark).
WatermarkExact ==
  minLive = IF DOMAIN live = {} THEN commitVer ELSE Min(DOMAIN live)

\* The committed-since index holds every commit above the watermark and
\* nothing else, so pruning never hides a conflict from a live transaction
\* and never lets the index grow (pruneLocked).
IndexExact ==
  /\ Len(recent) = commitVer - minLive
  /\ \A i \in 1..Len(recent) : recent[i].commitVer = minLive + i

\* What the oracle keeps in counters and caches, Acquire, Release and Install
\* in any interleaving, is what a walk over the transactions would find.
OracleIsExact == LiveCountsExact /\ WatermarkExact /\ IndexExact

\* Chains are strictly newest-first and never run ahead of the oracle, so
\* the first version at or below a snapshot is the right one.
ChainsDescend ==
  \A k \in Keys :
    /\ \A i \in 1..Len(byID[k]) : byID[k][i].commitVer \in 0..commitVer
    /\ \A i, j \in 1..Len(byID[k]) :
         i < j => byID[k][i].commitVer > byID[k][j].commitVer

\* gc never misses a chain: one with several versions is in the dirty set.
DirtyCoversChains == \A k \in Keys : Len(byID[k]) > 1 => k \in dirty

\* The version chains that publish, gc and the readers share are in order, and
\* gc knows of every one it may have to shorten.
ChainsAreSound == ChainsDescend /\ DirtyCoversChains

\* A watermark that a gc still holds is never above a live snapshot.
GcWatermarkSafe == \A c \in Clients : phase[c] = "gc" => gcWm[c] <= minLive

\* When no transaction runs and no gc is under way, a collection has superseded
\* versions in memory only if its last gc met the snapshot of a transaction that
\* does not use it, and so does not come back to collect what it held back: of
\* those that use a collection the last one cleans up for all, however stale the
\* watermarks the others pruned with.
NoGarbageWhenQuiet ==
  (\A c \in Clients : phase[c] = "idle") =>
    \A k \in Keys : CollOf[k] \notin pinned => Len(byID[k]) <= 1

\* The watermark only ever rises (the comment on releaseLocked).
WatermarkMonotone == [][minLive' >= minLive]_vars

(***************************************************************************)
(* The overlay, the oracle and gc together implement snapshot isolation.   *)
(***************************************************************************)

Active(c) == phase[c] = "active"

SI == INSTANCE SnapshotIsolation WITH
  db <- [k \in Keys |-> visibleAt(byID[k], commitVer)],
  running <- {c \in Clients : Active(c)},
  snap <- [c \in Clients |-> [k \in Keys |->
             IF Active(c) THEN visibleAt(byID[k], startVer[c]) ELSE NoDoc]],
  view <- [c \in Clients |-> [k \in Keys |->
             IF Active(c) THEN currentDoc(c, k) ELSE NoDoc]],
  writes <- [c \in Clients |-> IF Active(c) THEN writeSet(c) ELSE {}],
  stale <- [c \in Clients |-> IF ~Active(c) THEN {} ELSE
             UNION {recent[i].writeSet :
                      i \in {j \in 1..Len(recent) : recent[j].commitVer > startVer[c]}}]

\* Every behaviour of the collection is one of SnapshotIsolation: a reader's
\* snapshot never changes under it whatever commits and whatever gc prunes,
\* a commit becomes visible whole, and no commit slips past a conflict
\* because the index was pruned or scanned too short.
ImplementsSnapshotIsolation == SI!Spec
=============================================================================
