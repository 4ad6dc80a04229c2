-------------------------- MODULE CollectionProofs --------------------------
(***************************************************************************)
(* Theorems about Collection for any finite set of clients, any set of     *)
(* collections over one oracle, any keys and documents, any recovered      *)
(* version and any bound on versions and on transactions at once.          *)
(***************************************************************************)
EXTENDS Collection, OracleProofs, FiniteSetTheorems

\* No active transaction has a snapshot from the future.
SnapshotsBounded ==
  \A c \in Clients : phase[c] = "active" => startVer[c] \in 0..commitVer

\* The inductive invariant.  TypeOK alone is not inductive: releasing a
\* snapshot keeps the counts positive only because they are exact, and the
\* pruned prefix is well defined only because the index has no gap.
IInv ==
  /\ TypeOK
  /\ OracleInv(Keys)
  /\ SnapshotsBounded
  /\ LiveCountsExact
  /\ GcWatermarkSafe

\* The clients at one snapshot version are finitely many.
LEMMA LiveAtFinite ==
  ASSUME NEW v PROVE IsFiniteSet(LiveAt(v)) /\ Cardinality(LiveAt(v)) \in Nat
BY CollectionAssumption, FS_Subset, FS_CardinalityType, Zenon DEF LiveAt

\* An active transaction's snapshot is registered with the oracle.
LEMMA ActiveIsLive ==
  ASSUME IInv, NEW c \in Clients, phase[c] = "active"
  PROVE  startVer[c] \in DOMAIN live /\ startVer[c] \in 0..commitVer
<1>1. startVer[c] \in 0..commitVer
  BY Zenon DEF IInv, SnapshotsBounded
<1>2. c \in LiveAt(startVer[c])
  BY Zenon DEF LiveAt
<1>3. Cardinality(LiveAt(startVer[c])) # 0
  BY <1>2, LiveAtFinite, FS_EmptySet, Zenon
<1> QED BY <1>1, <1>3, Zenon DEF IInv, LiveCountsExact

\* The state that newCollection and rebuild leave satisfies the invariant.
LEMMA InitIInv == Init => IInv
<1> SUFFICES ASSUME Init PROVE IInv
  BY Zenon
<1> USE CollectionAssumption
<1> PICK maxVer \in 0..MaxRecovered :
       NewOracle(maxVer) /\ byID \in [Keys -> RecoveredChains(maxVer)]
  BY Zenon DEF Init
<1>1. /\ commitVer = maxVer /\ minLive = maxVer /\ maxVer \in Nat
      /\ DOMAIN live = {} /\ live \in [{} -> Nat \ {0}] /\ recent = << >>
  BY DEF NewOracle
<1>2. byID \in [Keys -> Seq(Versions)]
  <2>1. ASSUME NEW ch \in RecoveredChains(maxVer) PROVE ch \in Seq(Versions)
    <3>1. CASE ch = << >>
      BY <3>1
    <3>2. ASSUME NEW v \in 1..maxVer, NEW d \in Docs,
                 ch = <<[commitVer |-> v, doc |-> d]>>
          PROVE  ch \in Seq(Versions)
      <4>1. [commitVer |-> v, doc |-> d] \in Versions
        BY DEF Versions
      <4> QED BY <3>2, <4>1
    <3>3. \/ ch = << >>
          \/ \E v \in 1..maxVer, d \in Docs : ch = <<[commitVer |-> v, doc |-> d]>>
      BY <2>1 DEF RecoveredChains
    <3> QED BY <3>1, <3>2, <3>3, Zenon
  <2> QED BY <2>1, Zenon DEF Init
<1>3. TypeOK
  BY <1>1, <1>2 DEF Init, TypeOK, PendingOps, Untouched, Phases
<1>4. OracleInv(Keys)
  BY <1>1 DEF OracleInv
<1>5. SnapshotsBounded /\ GcWatermarkSafe
  BY Zenon DEF Init, SnapshotsBounded, GcWatermarkSafe
<1>6. LiveCountsExact
  <2>1. \A v : LiveAt(v) = {}
    BY Zenon DEF Init, LiveAt
  <2> QED BY <2>1, <1>1, FS_EmptySet, Zenon DEF LiveCountsExact
<1> QED BY <1>3, <1>4, <1>5, <1>6, Zenon DEF IInv

\* Begin: one more client is live at the current commit version.
LEMMA BeginCounts ==
  ASSUME IInv, NEW c \in Clients, NEW rw \in BOOLEAN, NEW used \in SUBSET Colls,
         Begin(c, rw, used)
  PROVE  LiveCountsExact'
<1>1. /\ commitVer' = commitVer /\ live' = incremented(commitVer)
      /\ commitVer \in Nat /\ phase[c] = "idle"
      /\ phase' = [phase EXCEPT ![c] = "active"]
      /\ startVer' = [startVer EXCEPT ![c] = commitVer]
      /\ phase \in [Clients -> Phases] /\ startVer \in [Clients -> Nat]
      /\ live \in [DOMAIN live -> Nat \ {0}]
  BY Zenon DEF Begin, Acquire, IInv, TypeOK
<1> SUFFICES ASSUME NEW v \in 0..commitVer
             PROVE  Cardinality(LiveAt(v)') = IF v \in DOMAIN live' THEN live'[v] ELSE 0
  BY <1>1, Zenon DEF LiveCountsExact
<1>2. Cardinality(LiveAt(v)) = IF v \in DOMAIN live THEN live[v] ELSE 0
  BY Zenon DEF IInv, LiveCountsExact
<1>3. CASE v = commitVer
  <2>1. LiveAt(v)' = LiveAt(v) \cup {c} /\ c \notin LiveAt(v)
    BY <1>1, <1>3, Zenon DEF LiveAt
  <2>2. Cardinality(LiveAt(v)') = Cardinality(LiveAt(v)) + 1
    BY <2>1, LiveAtFinite, FS_AddElement, Zenon
  <2>3. v \in DOMAIN live' /\ live'[v] = (IF v \in DOMAIN live THEN live[v] ELSE 0) + 1
    BY <1>1, <1>3, Zenon DEF incremented
  <2> QED BY <2>2, <2>3, <1>2, Zenon
<1>4. CASE v # commitVer
  <2>1. LiveAt(v)' = LiveAt(v)
    BY <1>1, <1>4, Zenon DEF LiveAt
  <2>2. /\ v \in DOMAIN live' <=> v \in DOMAIN live
        /\ v \in DOMAIN live => live'[v] = live[v]
    BY <1>1, <1>4 DEF incremented
  <2> QED BY <2>1, <2>2, <1>2, Zenon
<1> QED BY <1>3, <1>4, Zenon

\* A client that is done with a transaction or a gc is in neither.
LEMMA NextPhase ==
  ASSUME NEW c PROVE next(c) \in {"idle", "ended"}
BY Zenon DEF next

\* The end of a transaction: one client fewer is live at its snapshot.
LEMMA EndCounts ==
  ASSUME IInv, NEW c \in Clients, phase[c] = "active", end(c),
         live' = decremented(startVer[c]), commitVer' \in {commitVer, commitVer + 1}
  PROVE  LiveCountsExact'
<1> DEFINE s == startVer[c]
<1>0. next(c) # "active"
  BY NextPhase, Zenon
<1>1. /\ commitVer \in Nat
      /\ phase' = [phase EXCEPT ![c] = next(c)]
      /\ startVer' = [startVer EXCEPT ![c] = 0]
      /\ phase \in [Clients -> Phases] /\ startVer \in [Clients -> Nat]
      /\ live \in [DOMAIN live -> Nat \ {0}] /\ DOMAIN live \subseteq 0..commitVer
  BY Zenon DEF end, IInv, TypeOK
<1>2. s \in DOMAIN live /\ s \in 0..commitVer
  BY ActiveIsLive, Zenon
<1> SUFFICES ASSUME NEW v \in 0..commitVer'
             PROVE  Cardinality(LiveAt(v)') = IF v \in DOMAIN live' THEN live'[v] ELSE 0
  BY Zenon DEF LiveCountsExact
<1>3. CASE v = s
  <2>1. LiveAt(v)' = LiveAt(v) \ {c} /\ c \in LiveAt(v)
    BY <1>0, <1>1, <1>3, Zenon DEF LiveAt
  <2>2. Cardinality(LiveAt(v)') = Cardinality(LiveAt(v)) - 1
    BY <2>1, LiveAtFinite, FS_RemoveElement, Zenon
  <2>3. Cardinality(LiveAt(v)) = live[v]
    BY <1>2, <1>3, Zenon DEF IInv, LiveCountsExact
  <2>4. live[v] \in Nat \ {0}
    BY <1>1, <1>2, <1>3, Zenon
  <2>5. live' = IF live[v] > 1 THEN [live EXCEPT ![v] = live[v] - 1]
                ELSE [x \in DOMAIN live \ {v} |-> live[x]]
    BY <1>2, <1>3, Zenon DEF decremented
  <2>6. CASE live[v] > 1
    BY <2>2, <2>3, <2>4, <2>5, <2>6, <1>1, <1>2, <1>3, Zenon
  <2>7. CASE ~(live[v] > 1)
    BY <2>2, <2>3, <2>4, <2>5, <2>7
  <2> QED BY <2>6, <2>7, Zenon
<1>4. CASE v # s
  <2>1. LiveAt(v)' = LiveAt(v)
    BY <1>0, <1>1, <1>4, Zenon DEF LiveAt
  <2>2. /\ v \in DOMAIN live' <=> v \in DOMAIN live
        /\ v \in DOMAIN live => live'[v] = live[v]
    BY <1>1, <1>4, Zenon DEF decremented
  <2>3. Cardinality(LiveAt(v)) = IF v \in DOMAIN live THEN live[v] ELSE 0
    <3>1. CASE v \in 0..commitVer
      BY <3>1, Zenon DEF IInv, LiveCountsExact
    <3>2. CASE v \notin 0..commitVer
      <4>1. LiveAt(v) = {}
        BY <3>2, Zenon DEF LiveAt, IInv, SnapshotsBounded
      <4> QED BY <4>1, <3>2, <1>1, FS_EmptySet, Zenon
    <3> QED BY <3>1, <3>2, Zenon
  <2> QED BY <2>1, <2>2, <2>3, Zenon
<1> QED BY <1>3, <1>4, Zenon

\* What a step that leaves the oracle alone must still show.
LEMMA QuietStep ==
  ASSUME IInv, UNCHANGED oracleVars, TypeOK',
         \A c \in Clients : (phase'[c] = "active") <=> (phase[c] = "active"),
         \A c \in Clients : phase[c] = "active" => startVer'[c] = startVer[c],
         \A c \in Clients : phase'[c] = "gc" =>
            \/ phase[c] = "gc" /\ gcWm'[c] = gcWm[c]
            \/ gcWm'[c] = minLive
  PROVE  IInv'
<1>1. OracleInv(Keys)'
  BY Zenon DEF IInv, OracleInv, oracleVars
<1>2. SnapshotsBounded'
  BY Zenon DEF IInv, SnapshotsBounded, oracleVars
<1>3. LiveCountsExact'
  <2>1. \A v : LiveAt(v)' = LiveAt(v)
    BY Zenon DEF LiveAt
  <2> QED BY <2>1, Zenon DEF IInv, LiveCountsExact, oracleVars
<1>4. GcWatermarkSafe'
  <2>1. minLive' = minLive /\ minLive \in Nat
    BY Zenon DEF IInv, TypeOK, oracleVars
  <2> SUFFICES ASSUME NEW c \in Clients, phase'[c] = "gc" PROVE gcWm'[c] <= minLive
    BY <2>1, Zenon DEF GcWatermarkSafe
  <2> QED BY <2>1 DEF IInv, GcWatermarkSafe
<1> QED BY <1>1, <1>2, <1>3, <1>4, Zenon DEF IInv

\* A step that ends a transaction: by Release (commit version kept) or by
\* install (commit version consumed).
LEMMA EndStep ==
  ASSUME IInv, NEW c \in Clients, phase[c] = "active", end(c),
         byID' \in [Keys -> Seq(Versions)], dirty' \in SUBSET Keys,
         \/ Release(startVer[c])
         \/ \E W \in SUBSET Keys : install(startVer[c], W)
  PROVE  IInv' /\ minLive' >= minLive
<1>1. startVer[c] \in DOMAIN live /\ startVer[c] \in 0..commitVer
  BY ActiveIsLive, Zenon
<1>2. /\ OracleInv(Keys)' /\ minLive' >= minLive /\ minLive' \in Nat
      /\ commitVer' \in {commitVer, commitVer + 1}
  <2>1. OracleInv(Keys)
    BY Zenon DEF IInv
  <2>2. CASE Release(startVer[c])
    BY <2>1, <2>2, <1>1, ReleaseInv, Zenon
  <2>3. CASE \E W \in SUBSET Keys : install(startVer[c], W)
    BY <2>1, <2>3, <1>1, InstallInv, Zenon
  <2> QED BY <2>2, <2>3, Zenon
<1>3. live' = decremented(startVer[c])
  BY Zenon DEF Release, install, releaseLocked
<1>4. LiveCountsExact'
  BY <1>2, <1>3, EndCounts, Zenon
<1>5. next(c) \in Phases /\ next(c) # "active" /\ next(c) # "gc"
  BY NextPhase, Zenon DEF Phases
<1>6. TypeOK'
  BY <1>2, <1>5, Zenon DEF IInv, TypeOK, OracleInv, end, PendingOps, Untouched
<1>7. SnapshotsBounded'
  BY <1>2, <1>5 DEF IInv, SnapshotsBounded, end, TypeOK
<1>8. GcWatermarkSafe'
  BY <1>2, <1>5, <1>6 DEF IInv, GcWatermarkSafe, end, TypeOK
<1> QED BY <1>2, <1>4, <1>6, <1>7, <1>8, Zenon DEF IInv

\* What firstAt returns: the first index whose version is at or below ver.
LEMMA FirstAt ==
  ASSUME NEW chain \in Seq(Versions), NEW ver \in Nat
  PROVE  /\ firstAt(chain, ver) \in 0..Len(chain)
         /\ firstAt(chain, ver) = 0 =>
              \A i \in 1..Len(chain) : ~(chain[i].commitVer <= ver)
         /\ firstAt(chain, ver) # 0 =>
              /\ chain[firstAt(chain, ver)].commitVer <= ver
              /\ \A i \in 1..(firstAt(chain, ver) - 1) : ~(chain[i].commitVer <= ver)
<1> DEFINE hits == {i \in 1..Len(chain) : chain[i].commitVer <= ver}
<1>0. Len(chain) \in Nat
  OBVIOUS
<1>1. CASE hits = {}
  BY <1>0, <1>1 DEF firstAt
<1>2. CASE hits # {}
  <2>1. hits \in SUBSET Nat
    BY <1>0
  <2>2. Min(hits) \in hits /\ \A y \in hits : Min(hits) <= y
    BY <1>2, <2>1, MinNat, Zenon
  <2>3. firstAt(chain, ver) = Min(hits)
    BY <1>2, Zenon DEF firstAt
  <2>4. Min(hits) \in 1..Len(chain) /\ chain[Min(hits)].commitVer <= ver
    BY <2>2, Zenon
  <2>5. ASSUME NEW i \in 1..(Min(hits) - 1) PROVE ~(chain[i].commitVer <= ver)
    <3>1. i \in 1..Len(chain) /\ ~(Min(hits) <= i)
      BY <1>0, <2>4
    <3> QED BY <3>1, <2>2, Zenon
  <2> HIDE DEF hits
  <2> QED BY <1>0, <2>3, <2>4, <2>5
<1> QED BY <1>1, <1>2, Zenon

\* publish leaves chains of versions and a set of keys.
LEMMA PublishType ==
  ASSUME TypeOK, NEW c \in Clients, NEW cv \in Nat, publish(c, cv)
  PROVE  byID' \in [Keys -> Seq(Versions)] /\ dirty' \in SUBSET Keys
<1>1. ASSUME NEW k \in Keys
      PROVE  <<[commitVer |-> cv, doc |-> pending[c][k].insertDoc]>> \o byID[k] \in Seq(Versions)
  <2>1. pending[c][k] \in PendingOps /\ byID[k] \in Seq(Versions)
    BY Zenon DEF TypeOK
  <2>2. [commitVer |-> cv, doc |-> pending[c][k].insertDoc] \in Versions
    BY <2>1, Zenon DEF Versions, PendingOps
  <2> QED BY <2>1, <2>2
<1>2. byID' \in [Keys -> Seq(Versions)]
  BY <1>1, Zenon DEF publish, TypeOK
<1>3. dirty' \in SUBSET Keys
  BY Zenon DEF publish, TypeOK, writeSet
<1> QED BY <1>2, <1>3, Zenon

\* gc leaves chains of versions: a prefix of a chain is one.
LEMMA GcType ==
  ASSUME TypeOK, NEW c \in Clients, gc(c)
  PROVE  TypeOK'
<1>1. ASSUME NEW k \in Keys
      PROVE  pruneBelow(byID[k], gcWm[c]) \in Seq(Versions)
  <2>1. byID[k] \in Seq(Versions) /\ gcWm[c] \in Nat
    BY Zenon DEF TypeOK
  <2>2. firstAt(byID[k], gcWm[c]) \in 0..Len(byID[k])
    BY <2>1, FirstAt, Zenon
  <2> QED BY <2>1, <2>2 DEF pruneBelow
<1>2. byID' \in [Keys -> Seq(Versions)]
  BY <1>1, Zenon DEF gc, TypeOK
<1>3. next(c) \in Phases
  BY NextPhase, Zenon DEF Phases
<1> QED BY <1>2, <1>3, Zenon DEF gc, TypeOK, oracleVars

\* Every step keeps the inductive invariant, and no step lowers the watermark.
LEMMA NextIInv == IInv /\ [Next]_vars => IInv' /\ minLive' >= minLive
<1> SUFFICES ASSUME IInv, [Next]_vars PROVE IInv' /\ minLive' >= minLive
  BY Zenon
<1>t. TypeOK /\ minLive \in Nat /\ commitVer \in Nat
  BY Zenon DEF IInv, TypeOK
<1>1. ASSUME NEW c \in Clients, NEW rw \in BOOLEAN, NEW used \in SUBSET Colls,
         Begin(c, rw, used)
      PROVE  IInv' /\ minLive' >= minLive
  <2>1. OracleInv(Keys)' /\ minLive' = minLive /\ commitVer' = commitVer
    BY <1>1, AcquireInv, Zenon DEF Begin, IInv
  <2>2. TypeOK'
    BY <1>1, <1>t, <2>1, Zenon DEF Begin, TypeOK, OracleInv, Phases
  <2>3. LiveCountsExact'
    BY <1>1, BeginCounts, Zenon
  <2>4. SnapshotsBounded' /\ GcWatermarkSafe'
    BY <1>1, <1>t, <2>1 DEF Begin, IInv, SnapshotsBounded, GcWatermarkSafe, TypeOK
  <2> QED BY <2>1, <2>2, <2>3, <2>4, <1>t DEF IInv
<1>2. ASSUME NEW c \in Clients, NEW k \in Keys, NEW d \in Docs \cup {NoDoc},
             NEW r \in BOOLEAN, buffer(c, k, d, r)
      PROVE  IInv' /\ minLive' >= minLive
  <2>1. TypeOK'
    BY <1>2, <1>t, Zenon DEF buffer, TypeOK, PendingOps, oracleVars
  <2>2. IInv'
    BY <1>2, <2>1, QuietStep, Zenon DEF buffer
  <2> QED BY <2>2, <1>2, <1>t DEF buffer, oracleVars
<1>3. ASSUME NEW c \in Clients, Rollback(c) \/ CommitConflict(c)
      PROVE  IInv' /\ minLive' >= minLive
  BY <1>3, <1>t, EndStep, Zenon DEF Rollback, CommitConflict, TypeOK
<1>4. ASSUME NEW c \in Clients, Commit(c)
      PROVE  IInv' /\ minLive' >= minLive
  <2>1. phase[c] = "active" /\ end(c) /\ writeSet(c) \in SUBSET Keys
    BY <1>4, Zenon DEF Commit, writeSet
  <2>2. CASE install(startVer[c], writeSet(c)) /\ publish(c, commitVer + 1)
    <3>1. byID' \in [Keys -> Seq(Versions)] /\ dirty' \in SUBSET Keys
      BY <2>2, <1>t, PublishType
    <3> QED BY <2>1, <2>2, <3>1, EndStep, Zenon
  <2>3. CASE Release(startVer[c]) /\ UNCHANGED <<byID, dirty>>
    BY <2>1, <2>3, <1>t, EndStep, Zenon DEF TypeOK
  <2> QED BY <2>2, <2>3, <1>4, Zenon DEF Commit
<1>5. ASSUME NEW c \in Clients, NEW x \in Colls, ReadWatermark(c, x)
      PROVE  IInv' /\ minLive' >= minLive
  <2>1. TypeOK'
    BY <1>5, <1>t, Zenon DEF ReadWatermark, Watermark, TypeOK, oracleVars, Phases
  <2>2. IInv'
    BY <1>5, <1>t, <2>1, QuietStep, Zenon DEF ReadWatermark, Watermark, TypeOK
  <2> QED BY <2>2, <1>5, <1>t DEF ReadWatermark, oracleVars
<1>6. ASSUME NEW c \in Clients, gc(c)
      PROVE  IInv' /\ minLive' >= minLive
  <2>1. TypeOK'
    BY <1>6, <1>t, GcType, Zenon
  <2>2. IInv'
    <3>1. next(c) # "active" /\ next(c) # "gc"
      BY NextPhase, Zenon
    <3> QED BY <1>6, <1>t, <2>1, <3>1, QuietStep, Zenon DEF gc, TypeOK
  <2> QED BY <2>2, <1>6, <1>t DEF gc, oracleVars
<1>7. CASE UNCHANGED vars
  <2>1. TypeOK'
    BY <1>7, <1>t, Zenon DEF vars, txnVars, oracleVars, TypeOK
  <2>2. IInv'
    BY <1>7, <2>1, QuietStep, Zenon DEF vars, txnVars
  <2> QED BY <2>2, <1>7, <1>t DEF vars, oracleVars
<1>8. ASSUME NEW c \in Clients, Step(c)
      PROVE  IInv' /\ minLive' >= minLive
  <2>1. ASSUME NEW k \in Keys, NEW d \in Docs, insertBuffered(c, k, d) \/ bufferReplace(c, k, d)
        PROVE  IInv' /\ minLive' >= minLive
    <3>1. pending[c][k].hasRemove \in BOOLEAN /\ committedAt(c, k) \in BOOLEAN
      BY <1>t, Zenon DEF TypeOK, PendingOps, committedAt
    <3> QED BY <2>1, <3>1, <1>2, Zenon DEF insertBuffered, bufferReplace
  <2>2. ASSUME NEW k \in Keys, bufferDelete(c, k)
        PROVE  IInv' /\ minLive' >= minLive
    <3>1. pending[c][k].hasRemove \in BOOLEAN /\ committedAt(c, k) \in BOOLEAN
      BY <1>t, Zenon DEF TypeOK, PendingOps, committedAt
    <3> QED BY <2>2, <3>1, <1>2, Zenon DEF bufferDelete
  <2> QED BY <1>1, <1>3, <1>4, <1>5, <1>6, <1>8, <2>1, <2>2, Zenon DEF Step
<1> QED BY <1>7, <1>8, Zenon DEF Next

\* Type correctness of the transaction layer.
THEOREM TypeCorrect == Spec => []TypeOK
<1>1. IInv => TypeOK
  BY Zenon DEF IInv
<1> QED BY <1>1, InitIInv, NextIInv, PTL DEF Spec

\* The oracle's reference counts, its cached watermark and its committed-since
\* index are exact in every reachable state, however transactions and garbage
\* collections interleave: a conflict can be missed neither because an entry
\* was pruned too early nor because the watermark ran ahead of a snapshot.
THEOREM OracleExact == Spec => []OracleIsExact
<1>1. IInv => OracleIsExact
  BY Zenon DEF IInv, OracleInv, OracleIsExact, WatermarkExact, IndexExact
<1> QED BY <1>1, InitIInv, NextIInv, PTL DEF Spec

\* The watermark a gc has read, however long ago, is at or below every live
\* snapshot.
THEOREM GcWatermarkAlwaysSafe == Spec => []GcWatermarkSafe
<1>1. IInv => GcWatermarkSafe
  BY Zenon DEF IInv
<1> QED BY <1>1, InitIInv, NextIInv, PTL DEF Spec

\* No step lowers the watermark: the claim of the comment on releaseLocked.
THEOREM WatermarkNeverFalls == Spec => WatermarkMonotone
<1>1. IInv /\ [Next]_vars => [minLive' >= minLive]_vars
  BY NextIInv, Zenon
<1> QED BY <1>1, InitIInv, NextIInv, PTL DEF Spec, WatermarkMonotone

(***************************************************************************)
(* The version chains, and the refinement of SnapshotIsolation.            *)
(***************************************************************************)

\* What a chain holds never runs ahead of the oracle and is newest first.
ChainOK(chain, cv) ==
  /\ \A i \in 1..Len(chain) : chain[i].commitVer \in 0..cv
  /\ \A i, j \in 1..Len(chain) : i < j => chain[i].commitVer > chain[j].commitVer

\* A key that a transaction has not touched is not buffered, a goroutine
\* outside a transaction has nothing buffered, and a transaction writes only to
\* the collections it uses.
PendingSane ==
  \A c \in Clients, k \in Keys :
    /\ ~pending[c][k].touched \/ phase[c] # "active" => pending[c][k] = Untouched
    /\ pending[c][k].touched => CollOf[k] \in order[c]

\* An idle goroutine has nothing left to collect.
OrderSane == \A c \in Clients : phase[c] = "idle" => order[c] = {}

\* A goroutine that will collect what the key k has too much of: it uses the
\* key's collection and has not read its watermark yet, or it is in the gc of
\* that collection with a watermark that has reached the newest version.
Watches(c, k) ==
  \/ CollOf[k] \in order[c]
  \/ phase[c] = "gc" /\ CollOf[k] \in gcIn[c] /\ byID[k][1].commitVer <= gcWm[c]

\* A superseded version of a collection that no foreign snapshot pinned is
\* still somebody's to collect.
GarbageWatched ==
  \A k \in Keys : Len(byID[k]) > 1 /\ CollOf[k] \notin pinned =>
    \E c \in Clients : Watches(c, k)

\* The inductive invariant of the chains, on top of IInv.
SInv ==
  /\ IInv
  /\ ChainsDescend
  /\ DirtyCoversChains
  /\ PendingSane
  /\ OrderSane
  /\ GarbageWatched

\* An index with nothing visible before it is what firstAt finds.
LEMMA FirstAtIs ==
  ASSUME NEW chain \in Seq(Versions), NEW ver \in Nat, NEW n \in 1..Len(chain),
         chain[n].commitVer <= ver,
         \A i \in 1..(n - 1) : ~(chain[i].commitVer <= ver)
  PROVE  firstAt(chain, ver) = n
<1> DEFINE m == firstAt(chain, ver)
<1>1. /\ m \in 0..Len(chain)
      /\ m = 0 => \A i \in 1..Len(chain) : ~(chain[i].commitVer <= ver)
      /\ m # 0 => /\ chain[m].commitVer <= ver
                  /\ \A i \in 1..(m - 1) : ~(chain[i].commitVer <= ver)
  BY FirstAt, Zenon
<1> HIDE DEF m
<1>2. Len(chain) \in Nat /\ n \in Nat /\ m \in Nat
  BY <1>1
<1>3. m # 0
  BY <1>1, Zenon
<1>4. ~(m < n)
  BY <1>1, <1>2, <1>3
<1>5. ~(n < m)
  BY <1>1, <1>2, <1>3
<1> QED BY <1>2, <1>4, <1>5 DEF m

\* The chain new is the version cv, d put in front of chain.
Pushed(new, chain, cv, d) == new = <<[commitVer |-> cv, doc |-> d]>> \o chain

\* A version put in front of a chain is what snapshots at or above it see;
\* older snapshots see what they saw.
LEMMA PushVisible ==
  ASSUME NEW chain \in Seq(Versions), NEW ver \in Nat, NEW cv \in Nat,
         NEW d \in Docs \cup {NoDoc}, NEW new, Pushed(new, chain, cv, d)
  PROVE  visibleAt(new, ver) = IF cv <= ver THEN d ELSE visibleAt(chain, ver)
<1>1. /\ new \in Seq(Versions) /\ Len(new) = Len(chain) + 1 /\ Len(chain) \in Nat
      /\ new[1] = [commitVer |-> cv, doc |-> d]
      /\ \A i \in 1..Len(chain) : new[i + 1] = chain[i]
  <2>1. [commitVer |-> cv, doc |-> d] \in Versions
    BY Zenon DEF Versions
  <2> QED BY <2>1 DEF Pushed
<1>2. CASE cv <= ver
  <2>1. 1 \in 1..Len(new) /\ new[1].commitVer <= ver
    BY <1>1, <1>2
  <2>2. \A i \in 1..(1 - 1) : ~(new[i].commitVer <= ver)
    OBVIOUS
  <2>3. firstAt(new, ver) = 1
    BY <1>1, <2>1, <2>2, FirstAtIs, Zenon
  <2> QED BY <2>3, <1>1, <1>2 DEF visibleAt
<1>3. CASE ~(cv <= ver)
  <2> DEFINE n == firstAt(chain, ver)
  <2>1. /\ n \in 0..Len(chain)
        /\ n = 0 => \A i \in 1..Len(chain) : ~(chain[i].commitVer <= ver)
        /\ n # 0 => /\ chain[n].commitVer <= ver
                    /\ \A i \in 1..(n - 1) : ~(chain[i].commitVer <= ver)
    BY FirstAt, Zenon
  <2>2. visibleAt(chain, ver) = IF n = 0 THEN NoDoc ELSE chain[n].doc
    BY Zenon DEF visibleAt
  <2> HIDE DEF n
  <2>3. CASE n = 0
    <3>1. ASSUME NEW i \in 1..Len(new) PROVE ~(new[i].commitVer <= ver)
      <4>1. CASE i = 1
        BY <4>1, <1>1, <1>3
      <4>2. CASE i # 1
        <5>1. i - 1 \in 1..Len(chain) /\ new[(i - 1) + 1] = chain[i - 1] /\ (i - 1) + 1 = i
          BY <4>2, <1>1, SMTT(30)
        <5> QED BY <5>1, <2>1, <2>3, Zenon
      <4> QED BY <4>1, <4>2, Zenon
    <3>2. firstAt(new, ver) = 0
      <4>1. /\ firstAt(new, ver) \in 0..Len(new)
            /\ firstAt(new, ver) # 0 => new[firstAt(new, ver)].commitVer <= ver
        BY <1>1, FirstAt, Zenon
      <4> QED BY <4>1, <3>1, <1>1, SMTT(30)
    <3> QED BY <3>2, <2>2, <2>3, <1>3, Zenon DEF visibleAt
  <2>4. CASE n # 0
    <3>1. n \in 1..Len(chain) /\ n + 1 \in 1..Len(new) /\ new[n + 1] = chain[n]
      BY <2>1, <2>4, <1>1
    <3>2. ASSUME NEW i \in 1..((n + 1) - 1) PROVE ~(new[i].commitVer <= ver)
      <4>1. CASE i = 1
        BY <4>1, <1>1, <1>3, SMTT(30)
      <4>2. CASE i # 1
        <5>1. i - 1 \in 1..(n - 1) /\ i - 1 \in 1..Len(chain) /\ (i - 1) + 1 = i
          BY <4>2, <1>1, <3>1, SMTT(30)
        <5>2. new[i] = chain[i - 1]
          BY <5>1, <1>1, Zenon
        <5> QED BY <5>1, <5>2, <2>1, <2>4, Zenon
      <4> QED BY <4>1, <4>2, Zenon
    <3>3. firstAt(new, ver) = n + 1
      BY <3>1, <3>2, <2>1, <2>4, <1>1, FirstAtIs, Zenon
    <3> QED BY <3>1, <3>3, <2>2, <2>4, <1>3 DEF visibleAt
  <2> QED BY <2>3, <2>4, Zenon
<1> QED BY <1>2, <1>3, Zenon

\* The pushed version is what its own version sees.
LEMMA PushedIsVisible ==
  ASSUME NEW chain \in Seq(Versions), NEW cv \in Nat,
         NEW d \in Docs \cup {NoDoc}, NEW new, Pushed(new, chain, cv, d)
  PROVE  visibleAt(new, cv) = d
<1>1. cv <= cv
  OBVIOUS
<1> QED BY <1>1, PushVisible, SMTT(30)

\* Pruning at a watermark changes nothing for snapshots at or above it.
LEMMA PruneVisible ==
  ASSUME NEW chain \in Seq(Versions), NEW wm \in Nat, NEW ver \in Nat, wm <= ver
  PROVE  visibleAt(pruneBelow(chain, wm), ver) = visibleAt(chain, ver)
<1> DEFINE n == firstAt(chain, wm)
           m == firstAt(chain, ver)
           cut == SubSeq(chain, 1, n)
<1>0. Len(chain) \in Nat
  OBVIOUS
<1>1. /\ n \in 0..Len(chain)
      /\ n # 0 => chain[n].commitVer <= wm
  BY FirstAt, Zenon
<1>2. /\ m \in 0..Len(chain)
      /\ m = 0 => \A i \in 1..Len(chain) : ~(chain[i].commitVer <= ver)
      /\ m # 0 => /\ chain[m].commitVer <= ver
                  /\ \A i \in 1..(m - 1) : ~(chain[i].commitVer <= ver)
  BY FirstAt, Zenon
<1>3. pruneBelow(chain, wm) = IF n = 0 THEN chain ELSE cut
  BY Zenon DEF pruneBelow
<1>4. visibleAt(chain, ver) = IF m = 0 THEN NoDoc ELSE chain[m].doc
  BY Zenon DEF visibleAt
<1> HIDE DEF n, m
<1>5. CASE n = 0
  BY <1>3, <1>5, Zenon
<1>6. CASE n # 0
  <2>a. n \in 1..Len(chain)
    BY <1>0, <1>1, <1>6
  <2>b. chain[n] \in Versions
    BY <2>a
  <2>1. n \in 1..Len(chain) /\ chain[n].commitVer \in Nat
    BY <2>a, <2>b, Zenon DEF Versions
  <2>2. chain[n].commitVer <= ver
    BY <1>1, <1>6, <2>1
  <2>3. m # 0 /\ m <= n
    BY <1>0, <1>2, <2>1, <2>2
  <2>4. cut \in Seq(Versions) /\ Len(cut) = n /\ \A i \in 1..n : cut[i] = chain[i]
    BY <1>0, <2>1
  <2> HIDE DEF cut
  <2>5. m \in 1..Len(cut) /\ cut[m] = chain[m]
    BY <1>2, <2>1, <2>3, <2>4, SMTT(30)
  <2>6. ASSUME NEW i \in 1..(m - 1) PROVE ~(cut[i].commitVer <= ver)
    <3>1. i \in 1..n
      BY <1>2, <2>1, <2>3, SMTT(30)
    <3> QED BY <3>1, <2>3, <2>4, <1>2, Zenon
  <2>7. firstAt(cut, ver) = m
    BY <2>3, <2>4, <2>5, <2>6, <1>2, FirstAtIs, Zenon
  <2> QED BY <2>3, <2>5, <2>7, <1>3, <1>4, <1>6, Zenon DEF visibleAt
<1> QED BY <1>5, <1>6, Zenon

\* publish puts a newer version in front.
LEMMA PushChain ==
  ASSUME NEW chain \in Seq(Versions), NEW cv \in Nat, ChainOK(chain, cv),
         NEW d \in Docs \cup {NoDoc}, NEW new, Pushed(new, chain, cv + 1, d)
  PROVE  ChainOK(new, cv + 1) /\ Len(new) = Len(chain) + 1
<1>1. /\ Len(new) = Len(chain) + 1 /\ Len(chain) \in Nat
      /\ new[1].commitVer = cv + 1
      /\ \A i \in 1..Len(chain) : new[i + 1] = chain[i]
  BY DEF Pushed
<1>2. ASSUME NEW i \in 1..Len(new), i # 1
      PROVE  i - 1 \in 1..Len(chain) /\ new[i] = chain[i - 1] /\ new[i].commitVer \in 0..cv
  <2>1. i - 1 \in 1..Len(chain) /\ (i - 1) + 1 = i
    BY <1>1, <1>2
  <2>2. new[i] = chain[i - 1]
    BY <2>1, <1>1, Zenon
  <2> QED BY <2>1, <2>2, Zenon DEF ChainOK
<1>3. \A i \in 1..Len(new) : new[i].commitVer \in 0..(cv + 1)
  <2> SUFFICES ASSUME NEW i \in 1..Len(new) PROVE new[i].commitVer \in 0..(cv + 1)
    BY Zenon
  <2>1. CASE i = 1
    BY <2>1, <1>1
  <2>2. CASE i # 1
    BY <2>2, <1>2
  <2> QED BY <2>1, <2>2, Zenon
<1>4. ASSUME NEW i \in 1..Len(new), NEW j \in 1..Len(new), i < j
      PROVE  new[i].commitVer > new[j].commitVer
  <2>1. j # 1
    BY <1>1, <1>4
  <2>2. CASE i = 1
    BY <2>1, <2>2, <1>1, <1>2, SMTT(30)
  <2>3. CASE i # 1
    <3>1. i - 1 \in 1..Len(chain) /\ j - 1 \in 1..Len(chain) /\ i - 1 < j - 1
      BY <1>2, <1>4, <2>1, <2>3, SMTT(30)
    <3>2. chain[i - 1].commitVer > chain[j - 1].commitVer
      BY <3>1, Zenon DEF ChainOK
    <3> QED BY <3>2, <2>1, <2>3, <1>2, Zenon
  <2> QED BY <2>2, <2>3, Zenon
<1> QED BY <1>1, <1>3, <1>4, Zenon DEF ChainOK

\* gc leaves a prefix of a chain that still has its newest version, and only
\* that when the watermark has reached it.
LEMMA PruneChain ==
  ASSUME NEW chain \in Seq(Versions), NEW wm \in Nat, NEW cv \in Nat, ChainOK(chain, cv),
         NEW cut, cut = pruneBelow(chain, wm)
  PROVE  /\ ChainOK(cut, cv) /\ Len(cut) \in Nat
         /\ Len(cut) <= Len(chain)
         /\ Len(chain) > 0 => Len(cut) > 0 /\ cut[1] = chain[1]
         /\ Len(chain) > 0 /\ chain[1].commitVer <= wm => Len(cut) = 1
<1> DEFINE n == firstAt(chain, wm)
<1>0. Len(chain) \in Nat
  OBVIOUS
<1>1. /\ n \in 0..Len(chain)
      /\ n = 0 => \A i \in 1..Len(chain) : ~(chain[i].commitVer <= wm)
      /\ n # 0 => \A i \in 1..(n - 1) : ~(chain[i].commitVer <= wm)
  BY FirstAt, Zenon
<1>2. cut = IF n = 0 THEN chain ELSE SubSeq(chain, 1, n)
  BY Zenon DEF pruneBelow
<1> HIDE DEF n
<1>3. CASE n = 0
  BY <1>0, <1>1, <1>2, <1>3
<1>4. CASE n # 0
  <2>1. Len(cut) = n /\ n \in 1..Len(chain) /\ \A i \in 1..n : cut[i] = chain[i]
    BY <1>0, <1>1, <1>2, <1>4
  <2>2. ChainOK(cut, cv)
    <3>1. \A i \in 1..n : i \in 1..Len(chain)
      BY <1>0, <2>1
    <3> QED BY <2>1, <3>1, Zenon DEF ChainOK
  <2>3. cut[1] = chain[1]
    BY <1>0, <2>1
  <2>4. ASSUME chain[1].commitVer <= wm PROVE n = 1
    <3>1. n # 1 => 1 \in 1..(n - 1)
      BY <1>0, <2>1
    <3> QED BY <3>1, <2>4, <1>1, <1>4, Zenon
  <2> QED BY <1>0, <2>1, <2>2, <2>3, <2>4
<1> QED BY <1>3, <1>4, Zenon

\* The chains that rebuild leaves have at most one version.
LEMMA InitSInv == Init => SInv
<1> SUFFICES ASSUME Init PROVE SInv
  BY Zenon
<1> USE CollectionAssumption
<1> PICK maxVer \in 0..MaxRecovered :
       NewOracle(maxVer) /\ byID \in [Keys -> RecoveredChains(maxVer)]
  BY Zenon DEF Init
<1>1. IInv
  BY InitIInv, Zenon
<1>2. commitVer = maxVer /\ maxVer \in Nat
  BY DEF NewOracle
<1>3. ASSUME NEW k \in Keys PROVE Len(byID[k]) <= 1 /\ ChainOK(byID[k], maxVer)
  <2>1. \/ byID[k] = << >>
        \/ \E v \in 1..maxVer, d \in Docs : byID[k] = <<[commitVer |-> v, doc |-> d]>>
    BY DEF RecoveredChains
  <2>2. CASE byID[k] = << >>
    BY <2>2 DEF ChainOK
  <2>3. ASSUME NEW v \in 1..maxVer, NEW d \in Docs, byID[k] = <<[commitVer |-> v, doc |-> d]>>
        PROVE  Len(byID[k]) <= 1 /\ ChainOK(byID[k], maxVer)
    <3>1. Len(byID[k]) = 1 /\ byID[k][1].commitVer = v
      BY <2>3
    <3>2. \A i \in 1..1 : i = 1
      OBVIOUS
    <3> QED BY <3>1, <3>2, <1>2 DEF ChainOK
  <2> QED BY <2>1, <2>2, <2>3, Zenon
<1>4. ChainsDescend
  BY <1>2, <1>3, Zenon DEF ChainsDescend, ChainOK
<1>5. \A k \in Keys : ~(Len(byID[k]) > 1)
  <2>1. ASSUME NEW k \in Keys PROVE Len(byID[k]) \in Nat
    BY <1>1 DEF IInv, TypeOK
  <2> QED BY <1>3, <2>1
<1>6. DirtyCoversChains /\ GarbageWatched
  BY <1>5, Zenon DEF DirtyCoversChains, GarbageWatched
<1>7. PendingSane /\ OrderSane
  BY DEF Init, PendingSane, OrderSane, Untouched
<1> QED BY <1>1, <1>4, <1>6, <1>7, Zenon DEF SInv

\* A step that leaves the chains alone and lets no watermark be read.
LEMMA ChainsAlone ==
  ASSUME SInv, IInv', byID' = byID, dirty' = dirty, gcWm' = gcWm, gcIn' = gcIn,
         pinned' = pinned, commitVer' = commitVer, PendingSane', OrderSane',
         \A c \in Clients :
           /\ phase[c] = "gc" => phase'[c] = "gc"
           /\ order[c] \subseteq order'[c]
  PROVE  SInv'
<1>1. ChainsDescend' /\ DirtyCoversChains'
  BY Zenon DEF SInv, ChainsDescend, DirtyCoversChains
<1>2. \A c \in Clients, k \in Keys : Watches(c, k) => Watches(c, k)'
  BY Zenon DEF Watches
<1>3. GarbageWatched'
  BY <1>2, Zenon DEF SInv, GarbageWatched
<1> QED BY <1>1, <1>3, Zenon DEF SInv

\* The end of a transaction leaves nothing of its buffer.
LEMMA EndPending ==
  ASSUME TypeOK, PendingSane, OrderSane, NEW c \in Clients, end(c)
  PROVE  PendingSane' /\ OrderSane' /\ \A b \in Clients : b # c => phase'[b] = phase[b]
<1>1. Untouched.touched = FALSE
  BY DEF Untouched
<1>2. PendingSane'
  BY <1>1, Zenon DEF end, PendingSane, TypeOK
<1>3. OrderSane'
  BY Zenon DEF end, OrderSane, TypeOK, next
<1>4. \A b \in Clients : b # c => phase'[b] = phase[b]
  BY Zenon DEF end, TypeOK
<1> QED BY <1>2, <1>3, <1>4, Zenon

\* When a transaction has ended and no other runs, its watermark is the commit
\* version.
LEMMA QuietWatermark ==
  ASSUME IInv, \A c \in Clients : phase[c] # "active"
  PROVE  minLive = commitVer
<1>1. ASSUME NEW v \in DOMAIN live PROVE FALSE
  <2>1. v \in 0..commitVer /\ live[v] \in Nat \ {0}
    BY Zenon DEF IInv, TypeOK
  <2>2. Cardinality(LiveAt(v)) = live[v]
    BY <2>1, Zenon DEF IInv, LiveCountsExact
  <2>3. LiveAt(v) = {}
    BY Zenon DEF LiveAt
  <2> QED BY <2>1, <2>2, <2>3, FS_EmptySet, Zenon
<1> QED BY <1>1, Zenon DEF IInv, OracleInv

\* publish keeps a chain in order and marks it if gc has to visit it.
LEMMA PublishChain ==
  ASSUME SInv, NEW c \in Clients, publish(c, commitVer + 1), NEW k \in Keys
  PROVE  /\ ChainOK(byID'[k], commitVer + 1)
         /\ Len(byID'[k]) > 1 => k \in dirty'
<1>t. TypeOK /\ commitVer \in Nat
  BY Zenon DEF SInv, IInv, TypeOK
<1>1. byID[k] \in Seq(Versions) /\ ChainOK(byID[k], commitVer) /\ Len(byID[k]) \in Nat
  BY <1>t DEF SInv, ChainsDescend, ChainOK, TypeOK
<1>2. CASE k \in writeSet(c)
  <2>1. Pushed(byID'[k], byID[k], commitVer + 1, pending[c][k].insertDoc)
    BY <1>2, Zenon DEF publish, Pushed
  <2>2. pending[c][k].insertDoc \in Docs \cup {NoDoc}
    BY <1>t DEF TypeOK, PendingOps
  <2>3. ChainOK(byID'[k], commitVer + 1) /\ Len(byID'[k]) = Len(byID[k]) + 1
    <3> DEFINE new == byID'[k]
               chain == byID[k]
               d == pending[c][k].insertDoc
    <3>1. /\ Pushed(new, chain, commitVer + 1, d) /\ d \in Docs \cup {NoDoc}
          /\ chain \in Seq(Versions) /\ ChainOK(chain, commitVer) /\ commitVer \in Nat
      BY <2>1, <2>2, <1>1, <1>t, Zenon
    <3> HIDE DEF new, chain, d
    <3>2. ChainOK(new, commitVer + 1) /\ Len(new) = Len(chain) + 1
      BY <3>1, PushChain, Zenon
    <3> QED BY <3>2, Zenon DEF new, chain
  <2>4. Len(byID'[k]) > 1 => Len(byID[k]) > 0
    <3> DEFINE m == Len(byID'[k])
               n == Len(byID[k])
    <3>1. n \in Nat /\ m = n + 1
      BY <2>3, <1>1, Zenon
    <3> HIDE DEF m, n
    <3>2. m > 1 => n > 0
      BY <3>1
    <3> QED BY <3>2, Zenon DEF m, n
  <2> QED BY <2>3, <2>4, <1>2, Zenon DEF publish
<1>3. CASE k \notin writeSet(c)
  <2>1. byID'[k] = byID[k]
    BY <1>3, Zenon DEF publish
  <2>2. ChainOK(byID[k], commitVer + 1)
    BY <1>1, <1>t, SMTT(30) DEF ChainOK
  <2> QED BY <2>1, <2>2, Zenon DEF SInv, DirtyCoversChains, publish
<1> QED BY <1>2, <1>3, Zenon

\* publish keeps the invariant: the committer watches what it superseded.
LEMMA PublishSInv ==
  ASSUME SInv, IInv', NEW c \in Clients, phase[c] = "active", end(c),
         publish(c, commitVer + 1), commitVer' = commitVer + 1
  PROVE  SInv'
<1>t. TypeOK /\ commitVer \in Nat
  BY Zenon DEF SInv, IInv, TypeOK
<1>1. ASSUME NEW k \in Keys
      PROVE  /\ ChainOK(byID'[k], commitVer + 1)
             /\ Len(byID'[k]) > 1 => k \in dirty'
  BY PublishChain, Zenon
<1>2. ChainsDescend'
  BY <1>1, Zenon DEF ChainsDescend, ChainOK
<1>3. DirtyCoversChains'
  BY <1>1, Zenon DEF DirtyCoversChains
<1>4. PendingSane' /\ OrderSane' /\ \A b \in Clients : b # c => phase'[b] = phase[b]
  BY <1>t, EndPending, Zenon DEF SInv
<1>5. ASSUME NEW k \in Keys, Len(byID'[k]) > 1, CollOf[k] \notin pinned'
      PROVE  \E b \in Clients : Watches(b, k)'
  <2>1. order' = order /\ gcIn' = gcIn /\ gcWm' = gcWm /\ pinned' = pinned
    BY Zenon DEF end
  <2>2. CASE k \in writeSet(c)
    <3>1. pending[c][k] # Untouched
      BY <2>2 DEF writeSet, noop, Untouched
    <3>2. CollOf[k] \in order[c]
      BY <3>1, Zenon DEF SInv, PendingSane
    <3> QED BY <3>2, <2>1, Zenon DEF Watches
  <2>3. CASE k \notin writeSet(c)
    <3>1. byID'[k] = byID[k]
      BY <2>3, Zenon DEF publish
    <3>2. PICK b \in Clients : Watches(b, k)
      BY <3>1, <2>1, <1>5, Zenon DEF SInv, GarbageWatched
    <3>3. phase[b] = "gc" => phase'[b] = "gc"
      BY <1>4, Zenon
    <3> QED BY <3>1, <3>2, <3>3, <2>1, Zenon DEF Watches
  <2> QED BY <2>2, <2>3, Zenon
<1>6. GarbageWatched'
  BY <1>5, Zenon DEF GarbageWatched
<1> QED BY <1>2, <1>3, <1>4, <1>6, Zenon DEF SInv

\* Of the goroutines that use a collection, the one that reads its watermark
\* last takes over all the garbage, unless a foreign snapshot holds it back.
LEMMA ReadWatermarkSInv ==
  ASSUME SInv, IInv', NEW c \in Clients, NEW x \in Colls, ReadWatermark(c, x)
  PROVE  SInv'
<1>t. /\ TypeOK /\ commitVer \in Nat /\ phase[c] = "ended" /\ phase'[c] = "gc"
      /\ order'[c] = order[c] \ {x} /\ gcIn'[c] = {x} /\ gcWm'[c] = minLive
      /\ byID' = byID /\ dirty' = dirty /\ commitVer' = commitVer /\ pending' = pending
      /\ \A b \in Clients : b # c =>
           /\ phase'[b] = phase[b] /\ order'[b] = order[b]
           /\ gcIn'[b] = gcIn[b] /\ gcWm'[b] = gcWm[b]
  BY Zenon DEF SInv, IInv, TypeOK, ReadWatermark, Watermark, oracleVars
<1>1. ChainsDescend' /\ DirtyCoversChains'
  BY <1>t, Zenon DEF SInv, ChainsDescend, DirtyCoversChains
<1>2. PendingSane' /\ OrderSane'
  <2>1. \A k \in Keys : ~pending[c][k].touched
    <3>1. ~Untouched.touched
      BY DEF Untouched
    <3> QED BY <3>1, <1>t, Zenon DEF SInv, PendingSane
  <2> QED BY <2>1, <1>t, Zenon DEF SInv, PendingSane, OrderSane
<1>3. ASSUME NEW k \in Keys, Len(byID[k]) > 1, CollOf[k] \notin pinned'
      PROVE  \E b \in Clients : Watches(b, k)'
  <2>1. CASE CollOf[k] # x
    <3>1. CollOf[k] \notin pinned
      BY <2>1, <1>3, Zenon DEF ReadWatermark
    <3>2. PICK b \in Clients : Watches(b, k)
      BY <3>1, <1>3, Zenon DEF SInv, GarbageWatched
    <3>3. CASE b = c
      BY <3>2, <3>3, <2>1, <1>t, Zenon DEF Watches
    <3>4. CASE b # c
      BY <3>2, <3>4, <1>t, Zenon DEF Watches
    <3> QED BY <3>3, <3>4, Zenon
  <2>2. CASE CollOf[k] = x /\ \E b \in Clients \ {c} : x \in order[b]
    BY <2>2, <1>t, Zenon DEF Watches
  <2>3. CASE CollOf[k] = x /\ \A b \in Clients \ {c} : x \notin order[b]
    <3>1. k \in dirty
      BY <1>3, Zenon DEF SInv, DirtyCoversChains
    <3>2. \A b \in Clients : phase[b] # "active"
      BY <3>1, <2>3, <1>3, <1>t, Zenon DEF ReadWatermark
    <3>3. minLive = commitVer
      BY <3>2, QuietWatermark, Zenon DEF SInv
    <3>4. byID[k][1].commitVer <= commitVer
      <4>1. byID[k] \in Seq(Versions) /\ 1 \in 1..Len(byID[k])
        BY <1>t, <1>3 DEF TypeOK
      <4> QED BY <4>1, <1>t DEF SInv, ChainsDescend
    <3> QED BY <3>3, <3>4, <2>3, <1>t, Zenon DEF Watches
  <2> QED BY <2>1, <2>2, <2>3, Zenon
<1>4. GarbageWatched'
  BY <1>3, <1>t, Zenon DEF GarbageWatched
<1> QED BY <1>1, <1>2, <1>4, Zenon DEF SInv

\* gc drops what its watermark has passed and leaves the rest to another.
LEMMA GcSInv ==
  ASSUME SInv, IInv', NEW c \in Clients, gc(c)
  PROVE  SInv'
<1>t. /\ TypeOK /\ commitVer \in Nat /\ gcWm[c] \in Nat /\ commitVer' = commitVer
      /\ phase' = [phase EXCEPT ![c] = next(c)] /\ phase[c] = "gc"
      /\ order' = order /\ pinned' = pinned /\ pending' = pending
      /\ \A b \in Clients : b # c =>
           phase'[b] = phase[b] /\ gcWm'[b] = gcWm[b] /\ gcIn'[b] = gcIn[b]
  BY Zenon DEF SInv, IInv, TypeOK, gc, oracleVars
<1>1. ASSUME NEW k \in Keys
      PROVE  /\ ChainOK(byID'[k], commitVer)
             /\ Len(byID'[k]) > 1 =>
                  /\ k \in dirty' /\ Len(byID[k]) > 1 /\ byID'[k][1] = byID[k][1]
                  /\ ~(CollOf[k] \in gcIn[c] /\ byID[k][1].commitVer <= gcWm[c])
  <2>1. byID[k] \in Seq(Versions) /\ ChainOK(byID[k], commitVer) /\ Len(byID[k]) \in Nat
    BY <1>t, SMTT(30) DEF SInv, ChainsDescend, ChainOK, TypeOK
  <2>2. CASE k \in dirty /\ CollOf[k] \in gcIn[c]
    <3>1. byID'[k] = pruneBelow(byID[k], gcWm[c])
      BY <2>2, Zenon DEF gc
    <3>2. /\ ChainOK(byID'[k], commitVer) /\ Len(byID'[k]) \in Nat
          /\ Len(byID'[k]) <= Len(byID[k])
          /\ Len(byID[k]) > 0 => Len(byID'[k]) > 0 /\ byID'[k][1] = byID[k][1]
          /\ Len(byID[k]) > 0 /\ byID[k][1].commitVer <= gcWm[c] => Len(byID'[k]) = 1
      BY <3>1, <2>1, <1>t, PruneChain
    <3>3. Len(byID'[k]) > 1 => k \in dirty'
      BY <2>2, Zenon DEF gc
    <3>4. ASSUME Len(byID'[k]) > 1
          PROVE  Len(byID[k]) > 1 /\ Len(byID[k]) > 0 /\ Len(byID'[k]) # 1
      <4> DEFINE m == Len(byID'[k])
                 n == Len(byID[k])
      <4>1. m \in Nat /\ n \in Nat /\ m <= n /\ m > 1
        BY <3>2, <3>4, <2>1, Zenon
      <4> HIDE DEF m, n
      <4>2. n > 1 /\ n > 0 /\ m # 1
        BY <4>1
      <4> QED BY <4>2, Zenon DEF m, n
    <3> QED BY <3>2, <3>3, <3>4, Zenon
  <2>3. CASE k \notin dirty
    <3>1. byID'[k] = byID[k] /\ ~(Len(byID[k]) > 1)
      BY <2>3, Zenon DEF gc, SInv, DirtyCoversChains
    <3> QED BY <3>1, <2>1, Zenon
  <2>4. CASE k \in dirty /\ CollOf[k] \notin gcIn[c]
    <3>1. byID'[k] = byID[k] /\ k \in dirty'
      BY <2>4, Zenon DEF gc
    <3> QED BY <3>1, <2>1, <2>4, Zenon
  <2> QED BY <2>2, <2>3, <2>4, Zenon
<1>2. ChainsDescend'
  BY <1>1, <1>t, Zenon DEF ChainsDescend, ChainOK
<1>3. DirtyCoversChains'
  BY <1>1, Zenon DEF DirtyCoversChains
<1>4. PendingSane' /\ OrderSane'
  <2>1. next(c) # "active" /\ (next(c) = "idle" => order[c] = {})
    BY Zenon DEF next
  <2>2. phase \in [Clients -> Phases] /\ phase'[c] = next(c)
    BY <1>t, Zenon DEF TypeOK
  <2>3. PendingSane'
    BY <2>1, <2>2, <1>t, Zenon DEF SInv, PendingSane
  <2>4. OrderSane'
    BY <2>1, <2>2, <1>t, Zenon DEF SInv, OrderSane
  <2> QED BY <2>3, <2>4, Zenon
<1>5. ASSUME NEW k \in Keys, Len(byID'[k]) > 1, CollOf[k] \notin pinned
      PROVE  \E b \in Clients : Watches(b, k)'
  <2>1. /\ Len(byID[k]) > 1 /\ byID'[k][1] = byID[k][1]
        /\ ~(CollOf[k] \in gcIn[c] /\ byID[k][1].commitVer <= gcWm[c])
    BY <1>1, <1>5, Zenon
  <2>2. PICK b \in Clients : Watches(b, k)
    BY <2>1, <1>5, Zenon DEF SInv, GarbageWatched
  <2>3. CASE b = c
    BY <2>1, <2>2, <2>3, <1>t, Zenon DEF Watches
  <2>4. CASE b # c
    BY <2>1, <2>2, <2>4, <1>t, Zenon DEF Watches
  <2> QED BY <2>3, <2>4, Zenon
<1>6. GarbageWatched'
  BY <1>5, <1>t, Zenon DEF GarbageWatched
<1> QED BY <1>2, <1>3, <1>4, <1>6, Zenon DEF SInv

\* Every step keeps the invariant of the chains.
LEMMA NextSInv == SInv /\ [Next]_vars => SInv'
<1> SUFFICES ASSUME SInv, [Next]_vars PROVE SInv'
  BY Zenon
<1>t. TypeOK /\ PendingSane /\ OrderSane /\ IInv'
  BY NextIInv, Zenon DEF SInv, IInv
<1>1. ASSUME NEW c \in Clients, NEW rw \in BOOLEAN, NEW used \in SUBSET Colls,
         Begin(c, rw, used)
      PROVE  SInv'
  <2>1. /\ phase' = [phase EXCEPT ![c] = "active"] /\ phase[c] = "idle"
        /\ order' = [order EXCEPT ![c] = used] /\ order[c] = {}
        /\ UNCHANGED <<pending, gcIn, gcWm, byID, dirty, pinned, commitVer>>
    BY <1>1, <1>t, Zenon DEF Begin, Acquire, OrderSane
  <2>2. PendingSane'
    <3>1. \A k \in Keys : pending[c][k] = Untouched /\ ~pending[c][k].touched
      BY <2>1, <1>t DEF PendingSane, Untouched
    <3> QED BY <2>1, <3>1, <1>t, Zenon DEF PendingSane, TypeOK
  <2>3. OrderSane' /\ \A b \in Clients : order[b] \subseteq order'[b]
    BY <2>1, <1>t, Zenon DEF OrderSane, TypeOK
  <2> QED BY <2>1, <2>2, <2>3, <1>t, ChainsAlone, Zenon DEF TypeOK
<1>2. ASSUME NEW c \in Clients, NEW k \in Keys, NEW d, NEW r,
             phase[c] = "active", buffer(c, k, d, r)
      PROVE  SInv'
  <2>1. PendingSane' /\ OrderSane'
    BY <1>2, <1>t, Zenon DEF buffer, PendingSane, OrderSane, TypeOK
  <2> QED BY <1>2, <2>1, <1>t, ChainsAlone, Zenon DEF buffer, oracleVars
<1>3. ASSUME NEW c \in Clients, phase[c] = "active", end(c), Release(startVer[c]),
             UNCHANGED <<byID, dirty>>
      PROVE  SInv'
  <2>1. UNCHANGED <<order, gcIn, gcWm, pinned>> /\ commitVer' = commitVer
    BY <1>3, Zenon DEF end, Release
  <2>2. PendingSane' /\ OrderSane' /\ \A b \in Clients : b # c => phase'[b] = phase[b]
    BY <1>3, <1>t, EndPending, Zenon
  <2> QED BY <1>3, <2>1, <2>2, <1>t, ChainsAlone, Zenon
<1>4. ASSUME NEW c \in Clients, Commit(c) PROVE SInv'
  <2>1. CASE install(startVer[c], writeSet(c)) /\ publish(c, commitVer + 1)
    BY <1>4, <2>1, <1>t, PublishSInv, Zenon DEF Commit, install
  <2>2. CASE Release(startVer[c]) /\ UNCHANGED <<byID, dirty>>
    BY <1>3, <1>4, <2>2, Zenon DEF Commit
  <2> QED BY <1>4, <2>1, <2>2, Zenon DEF Commit
<1>5. CASE UNCHANGED vars
  <2>1. PendingSane' /\ OrderSane'
    BY <1>5, <1>t, Zenon DEF vars, txnVars, PendingSane, OrderSane
  <2> QED BY <1>5, <2>1, <1>t, ChainsAlone, Zenon DEF vars, txnVars, oracleVars
<1>6. ASSUME NEW c \in Clients, Step(c) PROVE SInv'
  BY <1>1, <1>2, <1>3, <1>4, <1>6, <1>t, ReadWatermarkSInv, GcSInv, Zenon
     DEF Step, insertBuffered, bufferReplace, bufferDelete, Rollback, CommitConflict
<1> QED BY <1>5, <1>6, Zenon DEF Next

\* Chains are in order in every reachable state and none is hidden from gc.
THEOREM ChainsAlwaysSound == Spec => []ChainsAreSound
<1>1. SInv => ChainsAreSound
  BY Zenon DEF SInv, ChainsAreSound
<1> QED BY <1>1, InitSInv, NextSInv, PTL DEF Spec

\* Once every transaction and every gc is over, a superseded version is left
\* only in a collection whose last gc met the snapshot of a transaction that
\* uses other collections of the engine and none of this one.
THEOREM QuietMeansClean == Spec => []NoGarbageWhenQuiet
<1>1. SInv => NoGarbageWhenQuiet
  <2> SUFFICES ASSUME SInv, \A c \in Clients : phase[c] = "idle", NEW k \in Keys,
                      CollOf[k] \notin pinned
               PROVE  Len(byID[k]) <= 1
    BY Zenon DEF NoGarbageWhenQuiet
  <2>0. ASSUME NEW c \in Clients PROVE ~Watches(c, k)
    <3>1. phase[c] # "gc" /\ order[c] = {}
      BY Zenon DEF SInv, OrderSane
    <3> QED BY <3>1, Zenon DEF Watches
  <2>1. ~(Len(byID[k]) > 1)
    BY <2>0, Zenon DEF SInv, GarbageWatched
  <2>2. Len(byID[k]) \in Nat
    BY DEF SInv, IInv, TypeOK
  <2> QED BY <2>1, <2>2
<1> QED BY <1>1, InitSInv, NextSInv, PTL DEF Spec

\* The watermark is at or below the snapshot of every active transaction.
LEMMA ActiveAboveWatermark ==
  IInv => \A c \in Clients : phase[c] = "active" => startVer[c] \in minLive..commitVer
<1> SUFFICES ASSUME IInv, NEW c \in Clients, phase[c] = "active"
             PROVE  startVer[c] \in minLive..commitVer
  BY Zenon
<1>1. startVer[c] \in DOMAIN live /\ startVer[c] \in 0..commitVer
  BY ActiveIsLive, Zenon
<1>2. minLive \in 0..commitVer /\ \A v \in DOMAIN live : minLive <= v
  BY MinLiveBounds, Zenon DEF IInv
<1> QED BY <1>1, <1>2 DEF IInv, TypeOK

\* The same after a step.
LEMMA ActiveAboveWatermarkNext ==
  (IInv => \A c \in Clients : phase[c] = "active" => startVer[c] \in minLive..commitVer)'
BY ActiveAboveWatermark, PTL

\* The keys written by the entries of an index above a version.
Above(rec, v) == UNION {rec[i].writeSet : i \in {j \in 1..Len(rec) : rec[j].commitVer > v}}

\* out is what is left of the index rec, which starts right above base, when it
\* is pruned to wm.
LeftOf(out, rec, base, wm) ==
  /\ base \in Nat /\ wm \in Nat /\ base <= wm
  /\ Len(rec) \in Nat /\ Len(out) \in Nat /\ Len(out) = base + Len(rec) - wm
  /\ Gapless(rec, base) /\ Gapless(out, wm)
  /\ Suffix(out, rec, base, wm)

\* Pruning hides nothing from snapshots at or above the watermark.
LEMMA PrunedAbove ==
  ASSUME NEW rec, NEW out, NEW base, NEW wm, LeftOf(out, rec, base, wm),
         NEW v \in Nat, wm <= v
  PROVE  Above(out, v) = Above(rec, v)
<1>0. /\ Len(rec) \in Nat /\ Len(out) \in Nat /\ Len(out) = base + Len(rec) - wm
      /\ base \in Nat /\ wm \in Nat /\ base <= wm
      /\ Gapless(rec, base) /\ Gapless(out, wm) /\ Suffix(out, rec, base, wm)
  BY Zenon DEF LeftOf
<1>1. ASSUME NEW i \in 1..Len(out), out[i].commitVer > v
      PROVE  \E j \in 1..Len(rec) : rec[j].commitVer > v /\ rec[j].writeSet = out[i].writeSet
  <2>1. wm - base + i \in 1..Len(rec) /\ out[i] = rec[wm - base + i]
    BY <1>0, Zenon DEF Suffix
  <2> QED BY <2>1, <1>1, <1>0, Zenon
<1>2. ASSUME NEW j \in 1..Len(rec), rec[j].commitVer > v
      PROVE  \E i \in 1..Len(out) : out[i].commitVer > v /\ out[i].writeSet = rec[j].writeSet
  <2>1. rec[j].commitVer = base + j
    BY <1>0, Zenon DEF Gapless
  <2>2. base + j > v
    BY <1>2, <2>1, <1>0, Zenon
  <2> DEFINE i == j - (wm - base)
  <2>3. i \in 1..Len(out) /\ wm - base + i = j
    BY <2>2, <1>0
  <2> HIDE DEF i
  <2>4. out[i] = rec[j]
    BY <2>3, <1>0, Zenon DEF Suffix
  <2> QED BY <2>3, <2>4, <1>2, Zenon
<1>3. \A x : x \in Above(out, v) => x \in Above(rec, v)
  BY <1>1, Zenon DEF Above
<1>4. \A x : x \in Above(rec, v) => x \in Above(out, v)
  BY <1>2, Zenon DEF Above
<1> QED BY <1>3, <1>4, Zenon

\* A commit adds its keys for every snapshot before it.
LEMMA AppendAbove ==
  ASSUME NEW T, NEW rec \in Seq(T), NEW e, e \in T, NEW v \in Nat, e.commitVer \in Nat, e.commitVer > v
  PROVE  Above(Append(rec, e), v) = Above(rec, v) \cup e.writeSet
<1> DEFINE app == Append(rec, e)
<1>1. /\ Len(app) = Len(rec) + 1 /\ Len(rec) \in Nat
      /\ \A i \in 1..Len(rec) : app[i] = rec[i]
      /\ app[Len(rec) + 1] = e
  OBVIOUS
<1> HIDE DEF app
<1>2. \A i \in 1..Len(app) : i \in 1..Len(rec) \/ i = Len(rec) + 1
  BY <1>1
<1>3. \A i \in 1..Len(rec) : i \in 1..Len(app)
  BY <1>1
<1>4. Len(rec) + 1 \in 1..Len(app)
  BY <1>1
<1>5. Above(app, v) = Above(rec, v) \cup e.writeSet
  BY <1>1, <1>2, <1>3, <1>4, Zenon DEF Above
<1> QED BY <1>5, Zenon DEF app

\* First-committer-wins as the oracle scans for it is a test against all that
\* was committed since the snapshot.
LEMMA ConflictsAbove ==
  ASSUME IInv, NEW v \in Nat, NEW W
  PROVE  conflicts(v, W) <=> W \cap Above(recent, v) # {}
<1>1. /\ Len(recent) \in Nat /\ minLive \in Nat
      /\ \A i \in 1..Len(recent) : recent[i].commitVer = minLive + i
  <2>1. recent \in Seq([commitVer : Nat, writeSet : SUBSET Keys]) /\ minLive \in Nat
    BY Zenon DEF IInv, TypeOK
  <2> QED BY <2>1 DEF IInv, OracleInv
<1>2. ASSUME NEW i \in 1..Len(recent), recent[i].commitVer > v
      PROVE  \A j \in i..Len(recent) : recent[j].commitVer > v
  BY <1>1, <1>2
<1>3. ASSUME NEW i \in 1..Len(recent), \A j \in i..Len(recent) : recent[j].commitVer > v
      PROVE  recent[i].commitVer > v
  BY <1>1, <1>3
<1> QED BY <1>2, <1>3, Zenon DEF conflicts, Above

(***************************************************************************)
(* The refinement of SnapshotIsolation, action by action.                  *)
(***************************************************************************)

\* The abstract state, by the names of the refinement mapping.
Db == [k \in Keys |-> visibleAt(byID[k], commitVer)]
Running == {c \in Clients : Active(c)}
Snap == [c \in Clients |-> [k \in Keys |->
           IF Active(c) THEN visibleAt(byID[k], startVer[c]) ELSE NoDoc]]
View == [c \in Clients |-> [k \in Keys |->
           IF Active(c) THEN currentDoc(c, k) ELSE NoDoc]]
Writes == [c \in Clients |-> IF Active(c) THEN writeSet(c) ELSE {}]
Stale == [c \in Clients |-> IF ~Active(c) THEN {} ELSE Above(recent, startVer[c])]

\* A snapshot shows a document or nothing.
LEMMA VisibleType ==
  ASSUME NEW chain \in Seq(Versions), NEW ver \in Nat
  PROVE  visibleAt(chain, ver) \in Docs \cup {NoDoc}
<1>1. firstAt(chain, ver) \in 0..Len(chain)
  BY FirstAt, Zenon
<1>2. ASSUME NEW i \in 1..Len(chain) PROVE chain[i].doc \in Docs \cup {NoDoc}
  <2>1. chain[i] \in Versions
    BY SMTT(30)
  <2> QED BY <2>1, Zenon DEF Versions
<1> QED BY <1>1, <1>2 DEF visibleAt

\* What rebuild leaves is an initial state of SnapshotIsolation.
LEMMA InitRefines == Init => SI!Init
<1> SUFFICES ASSUME Init PROVE SI!Init
  BY Zenon
<1>1. TypeOK
  BY InitIInv, Zenon DEF IInv
<1>2. \A k \in Keys : visibleAt(byID[k], commitVer) \in Docs \cup {NoDoc}
  BY <1>1, VisibleType, Zenon DEF TypeOK
<1>3. \A c \in Clients : ~Active(c)
  BY Zenon DEF Init, Active
<1> QED BY <1>2, <1>3, Zenon DEF SI!Init, SI!Nothing, SI!Values

\* Begin freezes the committed documents.
LEMMA BeginRefines ==
  ASSUME SInv, NEW c \in Clients, NEW rw \in BOOLEAN, NEW used \in SUBSET Colls,
         Begin(c, rw, used)
  PROVE  SI!Begin(c)
<1>t. /\ TypeOK /\ commitVer \in Nat /\ PendingSane
      /\ commitVer' = commitVer /\ recent' = recent
      /\ byID' = byID /\ pending' = pending
      /\ ~Active(c) /\ Active(c)' /\ startVer'[c] = commitVer
      /\ \A b \in Clients : b # c => (Active(b)' <=> Active(b)) /\ startVer'[b] = startVer[b]
  BY Zenon DEF SInv, IInv, TypeOK, Begin, Acquire, Active
<1>1. Db' = Db
  BY <1>t, Zenon DEF Db
<1>2. Running' = Running \cup {c} /\ c \notin Running
  BY <1>t, Zenon DEF Running
<1>3. Snap' = [Snap EXCEPT ![c] = Db]
  BY <1>t, Zenon DEF Snap, Db
<1>4. View' = [View EXCEPT ![c] = Db]
  <2>1. \A k \in Keys : pending[c][k] = Untouched
    BY <1>t, Zenon DEF PendingSane, Active
  <2>2. \A k \in Keys : currentDoc(c, k)' = visibleAt(byID[k], commitVer)
    BY <2>1, <1>t, SMTT(30) DEF currentDoc, Untouched
  <2>3. \A b \in Clients, k \in Keys : b # c => currentDoc(b, k)' = currentDoc(b, k)
    BY <1>t, Zenon DEF currentDoc
  <2> QED BY <2>2, <2>3, <1>t, Zenon DEF View, Db
<1>5. Writes' = Writes
  <2>1. \A k \in Keys : pending[c][k] = Untouched
    BY <1>t, Zenon DEF PendingSane, Active
  <2>2. writeSet(c)' = {}
    BY <2>1, <1>t DEF writeSet, noop, Untouched
  <2>3. \A b \in Clients : b # c => writeSet(b)' = writeSet(b)
    BY <1>t, Zenon DEF writeSet
  <2> QED BY <2>2, <2>3, <1>t, Zenon DEF Writes
<1>6. Stale' = Stale
  <2>1. Above(recent, commitVer) = {}
    <3>1. /\ Len(recent) \in Nat /\ minLive \in Nat /\ Len(recent) = commitVer - minLive
          /\ \A i \in 1..Len(recent) : recent[i].commitVer = minLive + i
      BY DEF SInv, IInv, TypeOK, OracleInv
    <3>2. \A i \in 1..Len(recent) : ~(recent[i].commitVer > commitVer)
      BY <3>1, <1>t, SMTT(30)
    <3> QED BY <3>2, Zenon DEF Above
  <2> QED BY <2>1, <1>t, Zenon DEF Stale
<1> QED BY <1>1, <1>2, <1>3, <1>4, <1>5, <1>6, ZenonT(60)
        DEF SI!Begin, Db, Running, Snap, View, Writes, Stale, Above

\* A buffered insert, replacement or delete changes the transaction's own view
\* of one key.
LEMMA BufferRefines ==
  ASSUME SInv, NEW c \in Clients, NEW k \in Keys, NEW d \in Docs \cup {NoDoc},
         NEW r \in BOOLEAN, phase[c] = "active", buffer(c, k, d, r),
         d = NoDoc /\ ~r => visibleAt(byID[k], startVer[c]) = NoDoc
  PROVE  SI!Write(c, k, d) \/ SI!Undo(c, k)
<1>t. /\ TypeOK
      /\ commitVer' = commitVer /\ recent' = recent /\ byID' = byID
      /\ startVer' = startVer /\ phase' = phase /\ Active(c)
      /\ pending'[c][k] = [touched |-> TRUE, insertDoc |-> d, hasRemove |-> r]
      /\ \A b \in Clients, j \in Keys : b # c \/ j # k => pending'[b][j] = pending[b][j]
  BY Zenon DEF SInv, IInv, TypeOK, buffer, oracleVars, Active
<1>1. Db' = Db /\ Running' = Running /\ Snap' = Snap /\ Stale' = Stale /\ c \in Running
  BY <1>t, Zenon DEF Db, Running, Snap, Stale, Active
<1>2. View' = [View EXCEPT ![c][k] = d]
  <2>1. currentDoc(c, k)' = d
    BY <1>t, SMTT(90) DEF currentDoc
  <2>2. \A b \in Clients, j \in Keys : b # c \/ j # k => currentDoc(b, j)' = currentDoc(b, j)
    BY <1>t, Zenon DEF currentDoc
  <2>3. View'[c] = [View[c] EXCEPT ![k] = d]
    BY <2>1, <2>2, <1>t, Zenon DEF View, Active
  <2>4. \A b \in Clients : b # c => View'[b] = View[b]
    BY <2>2, <1>t, Zenon DEF View, Active
  <2>5. View' = [View EXCEPT ![c] = [View[c] EXCEPT ![k] = d]]
    <3>1. View' = [b \in Clients |-> View'[b]] /\ View = [b \in Clients |-> View[b]]
      BY Zenon DEF View
    <3> QED BY <3>1, <2>3, <2>4, Zenon
  <2> QED BY <2>5, Zenon
<1>3. \A b \in Clients : b # c => writeSet(b)' = writeSet(b)
  BY <1>t, Zenon DEF writeSet
<1>4. CASE d = NoDoc /\ ~r
  <2>1. writeSet(c)' = writeSet(c) \ {k}
    BY <1>4, <1>t, SMTT(90) DEF writeSet, noop
  <2>2. Writes' = [Writes EXCEPT ![c] = @ \ {k}]
    BY <2>1, <1>3, <1>t, Zenon DEF Writes, Active
  <2>3. Snap[c][k] = NoDoc
    BY <1>4, <1>t, Zenon DEF Snap
  <2> QED BY <1>1, <1>2, <1>4, <2>2, <2>3, ZenonT(60)
          DEF SI!Undo, Db, Running, Snap, View, Writes, Stale, Above
<1>5. CASE ~(d = NoDoc /\ ~r)
  <2>1. writeSet(c)' = writeSet(c) \cup {k}
    BY <1>5, <1>t, SMTT(90) DEF writeSet, noop
  <2>2. Writes' = [Writes EXCEPT ![c] = @ \cup {k}]
    BY <2>1, <1>3, <1>t, ZenonT(60) DEF Writes, Active
  <2> QED BY <1>1, <1>2, <2>2, ZenonT(60) DEF SI!Write, Db, Running, Snap, View, Writes, Stale, Above
<1> QED BY <1>4, <1>5, Zenon

\* What ending a transaction does to the maps of all clients, when the others'
\* snapshots still show what they showed.
LEMMA EndMaps ==
  ASSUME TypeOK, NEW c \in Clients, phase[c] = "active", end(c),
         \A b \in Clients \ {c}, k \in Keys : Active(b) =>
            visibleAt(byID'[k], startVer[b]) = visibleAt(byID[k], startVer[b])
  PROVE  /\ c \in Running /\ Running' = Running \ {c}
         /\ Snap' = [Snap EXCEPT ![c] = [k \in Keys |-> NoDoc]]
         /\ View' = [View EXCEPT ![c] = [k \in Keys |-> NoDoc]]
         /\ Writes' = [Writes EXCEPT ![c] = {}]
<1>t. /\ Active(c) /\ ~Active(c)'
      /\ \A b \in Clients : b # c =>
           /\ Active(b)' <=> Active(b)
           /\ startVer'[b] = startVer[b] /\ pending'[b] = pending[b]
  BY NextPhase, Zenon DEF end, TypeOK, Active
<1>1. c \in Running /\ Running' = Running \ {c}
  BY <1>t, Zenon DEF Running
<1>2. Snap' = [Snap EXCEPT ![c] = [k \in Keys |-> NoDoc]]
  <2>1. Snap'[c] = [k \in Keys |-> NoDoc]
    BY <1>t, Zenon DEF Snap
  <2>2. \A b \in Clients : b # c => Snap'[b] = Snap[b]
    BY <1>t, SMTT(30) DEF Snap
  <2>3. Snap' = [b \in Clients |-> Snap'[b]] /\ Snap = [b \in Clients |-> Snap[b]]
    BY Zenon DEF Snap
  <2> QED BY <2>1, <2>2, <2>3, Zenon
<1>3. View' = [View EXCEPT ![c] = [k \in Keys |-> NoDoc]]
  <2>1. View'[c] = [k \in Keys |-> NoDoc]
    BY <1>t, Zenon DEF View
  <2>2. ASSUME NEW b \in Clients, b # c PROVE View'[b] = View[b]
    <3>1. \A k \in Keys : Active(b) => currentDoc(b, k)' = currentDoc(b, k)
      BY <1>t, <2>2, Zenon DEF currentDoc
    <3> QED BY <1>t, <2>2, <3>1, Zenon DEF View
  <2>3. View' = [b \in Clients |-> View'[b]] /\ View = [b \in Clients |-> View[b]]
    BY Zenon DEF View
  <2> QED BY <2>1, <2>2, <2>3, Zenon
<1>4. Writes' = [Writes EXCEPT ![c] = {}]
  BY <1>t, Zenon DEF Writes, writeSet
<1> QED BY <1>1, <1>2, <1>3, <1>4, Zenon

\* Every way to give a transaction up is an abort: pruning the index hides
\* nothing that a remaining transaction could conflict with.
LEMMA ReleaseRefines ==
  ASSUME SInv, IInv', NEW c \in Clients, phase[c] = "active", end(c),
         Release(startVer[c]), byID' = byID
  PROVE  SI!Abort(c)
<1>t. TypeOK /\ OracleInv(Keys) /\ startVer[c] \in DOMAIN live
  BY ActiveIsLive, Zenon DEF SInv, IInv
<1>1. /\ minLive' >= minLive /\ minLive' \in Nat /\ commitVer' = commitVer
      /\ Suffix(recent', recent, minLive, minLive') /\ OracleInv(Keys)'
  BY <1>t, ReleaseInv, Zenon
<1>2. Db' = Db
  BY <1>1, Zenon DEF Db
<1>3. /\ c \in Running /\ Running' = Running \ {c}
      /\ Snap' = [Snap EXCEPT ![c] = [k \in Keys |-> NoDoc]]
      /\ View' = [View EXCEPT ![c] = [k \in Keys |-> NoDoc]]
      /\ Writes' = [Writes EXCEPT ![c] = {}]
  BY <1>t, EndMaps, Zenon
<1>4. ASSUME NEW b \in Clients \ {c}, Active(b)
      PROVE  Above(recent', startVer[b]) = Above(recent, startVer[b])
  <2> DEFINE T == [commitVer : Nat, writeSet : SUBSET Keys]
  <2>1. /\ recent \in Seq(T) /\ recent' \in Seq(T) /\ minLive \in Nat /\ minLive <= minLive'
        /\ Gapless(recent, minLive) /\ Gapless(recent', minLive')
        /\ commitVer \in Nat
        /\ Len(recent) = commitVer - minLive /\ Len(recent') = commitVer - minLive'
    BY <1>t, <1>1, Zenon DEF TypeOK, OracleInv, Gapless
  <2>2. Len(recent') = minLive + Len(recent) - minLive'
    BY <2>1, <1>1, SMTT(30)
  <2>3. phase'[b] = "active" /\ startVer'[b] = startVer[b] /\ startVer[b] \in Nat
    BY <1>4, <1>t, Zenon DEF end, TypeOK, Active
  <2>4. minLive' <= startVer[b]
    BY <2>3, <1>1, ActiveAboveWatermarkNext, SMTT(30)
  <2> HIDE DEF T
  <2>5. LeftOf(recent', recent, minLive, minLive')
    <3>1. Len(recent) \in Nat /\ Len(recent') \in Nat
      BY <2>1, SMTT(30)
    <3> HIDE DEF T
    <3> QED BY <1>1, <2>1, <2>2, <3>1, Zenon DEF LeftOf
  <2> QED BY <2>3, <2>4, <2>5, PrunedAbove, Zenon
<1>5. Stale' = [b \in Clients |-> IF b \in Running \ {c} THEN Stale[b] ELSE {}]
  <2>1. ~Active(c)' /\ \A b \in Clients : b # c => (Active(b)' <=> Active(b)) /\ startVer'[b] = startVer[b]
    BY <1>t, NextPhase, Zenon DEF end, TypeOK, Active
  <2> QED BY <2>1, <1>4, Zenon DEF Stale, Running
<1> QED BY <1>2, <1>3, <1>5, Zenon
        DEF SI!Abort, SI!end, SI!Nothing, Db, Running, Snap, View, Writes, Stale, Above

\* A snapshot above everything on a chain shows what the newest one shows.
LEMMA VisibleAbove ==
  ASSUME NEW chain, NEW cv \in Nat, ChainOK(chain, cv)
  PROVE  visibleAt(chain, cv + 1) = visibleAt(chain, cv)
<1>1. \A i \in 1..Len(chain) : chain[i].commitVer <= cv + 1 /\ chain[i].commitVer <= cv
  BY DEF ChainOK
<1>2. firstAt(chain, cv + 1) = firstAt(chain, cv)
  BY <1>1, ZenonT(60) DEF firstAt
<1> QED BY <1>2, Zenon DEF visibleAt

\* A commit that the oracle lets through installs the whole view at once.
LEMMA CommitRefines ==
  ASSUME SInv, IInv', NEW c \in Clients, phase[c] = "active", end(c),
         ~conflicts(startVer[c], writeSet(c)),
         install(startVer[c], writeSet(c)), publish(c, commitVer + 1)
  PROVE  SI!Commit(c)
<1> DEFINE W == writeSet(c)
           e == [commitVer |-> commitVer + 1, writeSet |-> W]
<1>t. /\ TypeOK /\ OracleInv(Keys) /\ startVer[c] \in DOMAIN live
      /\ W \in SUBSET Keys /\ commitVer \in Nat /\ startVer[c] \in Nat
  BY ActiveIsLive, Zenon DEF SInv, IInv, TypeOK, writeSet
<1>1. /\ minLive' >= minLive /\ minLive' \in Nat /\ commitVer' = commitVer + 1
      /\ Suffix(recent', Append(recent, e), minLive, minLive') /\ OracleInv(Keys)'
  BY <1>t, InstallInv, Zenon
<1>v. ASSUME NEW k \in Keys, NEW ver \in 0..commitVer
      PROVE  visibleAt(byID'[k], ver) = visibleAt(byID[k], ver)
  <2>1. CASE k \in W
    <3> DEFINE d == pending[c][k].insertDoc
    <3>1. Pushed(byID'[k], byID[k], commitVer + 1, d)
      BY <2>1, Zenon DEF publish, Pushed
    <3>2. d \in Docs \cup {NoDoc} /\ byID[k] \in Seq(Versions)
      BY <1>t, Zenon DEF TypeOK, PendingOps
    <3>3. ver \in Nat /\ commitVer + 1 \in Nat /\ ~(commitVer + 1 <= ver)
      BY <1>t, SMTT(30)
    <3> HIDE DEF d
    <3>4. visibleAt(byID'[k], ver) =
            IF commitVer + 1 <= ver THEN d ELSE visibleAt(byID[k], ver)
      BY <3>1, <3>2, <3>3, PushVisible, ZenonT(60)
    <3> QED BY <3>3, <3>4, ZenonT(60)
  <2>2. CASE k \notin W
    BY <2>2, Zenon DEF publish
  <2> QED BY <2>1, <2>2, Zenon
<1>2. Db' = [k \in Keys |-> IF k \in Writes[c] THEN View[c][k] ELSE Db[k]]
  <2>1. ASSUME NEW k \in W
        PROVE  visibleAt(byID'[k], commitVer + 1) = currentDoc(c, k)
    <3> DEFINE d == pending[c][k].insertDoc
    <3>0. k \in Keys
      BY <1>t, Zenon
    <3>1. Pushed(byID'[k], byID[k], commitVer + 1, d)
      BY <3>0, Zenon DEF publish, Pushed
    <3>2. d \in Docs \cup {NoDoc} /\ byID[k] \in Seq(Versions)
      BY <3>0, <1>t, Zenon DEF TypeOK, PendingOps
    <3>3. commitVer + 1 \in Nat
      BY <1>t
    <3>4. currentDoc(c, k) = d
      BY <3>0, SMTT(30) DEF SInv, PendingSane, writeSet, noop, Untouched, currentDoc
    <3> HIDE DEF d
    <3>5. visibleAt(byID'[k], commitVer + 1) = d
      BY <3>1, <3>2, <3>3, PushedIsVisible, ZenonT(60)
    <3> QED BY <3>4, <3>5, Zenon
  <2>2. ASSUME NEW k \in Keys, k \notin W
        PROVE  visibleAt(byID'[k], commitVer + 1) = visibleAt(byID[k], commitVer)
    <3>1. byID'[k] = byID[k]
      BY <2>2, Zenon DEF publish
    <3>2. ChainOK(byID[k], commitVer)
      BY Zenon DEF SInv, ChainsDescend, ChainOK
    <3> QED BY <3>1, <3>2, <1>t, VisibleAbove, Zenon
  <2> QED BY <2>1, <2>2, <1>1, Zenon DEF Db, Writes, View, Active
<1>3. /\ c \in Running /\ Running' = Running \ {c}
      /\ Snap' = [Snap EXCEPT ![c] = [k \in Keys |-> NoDoc]]
      /\ View' = [View EXCEPT ![c] = [k \in Keys |-> NoDoc]]
      /\ Writes' = [Writes EXCEPT ![c] = {}]
  <2>1. \A b \in Clients : Active(b) => startVer[b] \in 0..commitVer
    BY Zenon DEF SInv, IInv, SnapshotsBounded, Active
  <2> QED BY <2>1, <1>t, <1>v, EndMaps, ZenonT(60)
<1>4. ASSUME NEW b \in Clients \ {c}, Active(b)
      PROVE  Above(recent', startVer[b]) = Above(recent, startVer[b]) \cup W
  <2> DEFINE T == [commitVer : Nat, writeSet : SUBSET Keys]
             rec == Append(recent, e)
  <2>1. /\ recent \in Seq(T) /\ recent' \in Seq(T) /\ minLive \in Nat /\ minLive <= minLive'
        /\ Gapless(recent, minLive) /\ Gapless(recent', minLive')
        /\ Len(recent) = commitVer - minLive /\ Len(recent') = commitVer' - minLive'
    BY <1>t, <1>1, Zenon DEF TypeOK, OracleInv, Gapless
  <2>2. e \in T /\ e.commitVer = commitVer + 1 /\ e.writeSet = W
    BY <1>t, SMTT(30)
  <2>3. rec \in Seq(T) /\ Len(rec) = Len(recent) + 1 /\ Gapless(rec, minLive)
    <3>1. rec \in Seq(T) /\ Len(rec) = Len(recent) + 1
      BY <2>1, <2>2
    <3>2. \A i \in 1..Len(recent) : rec[i] = recent[i]
      BY <2>1
    <3>3. rec[Len(recent) + 1].commitVer = minLive + (Len(recent) + 1)
      <4>1. rec[Len(recent) + 1] = e
        BY <2>1, SMTT(30)
      <4> HIDE DEF rec, e
      <4> QED BY <4>1, <2>1, <2>2, <1>t, SMTT(30)
    <3>4. \A i \in 1..Len(rec) : i \in 1..Len(recent) \/ i = Len(recent) + 1
      BY <3>1, <2>1, SMTT(30)
    <3> QED BY <3>1, <3>2, <3>3, <3>4, <2>1, ZenonT(60) DEF Gapless
  <2>4. Len(recent') = minLive + Len(rec) - minLive'
    BY <2>1, <2>3, <1>1, <1>t, SMTT(30)
  <2>5. phase'[b] = "active" /\ startVer'[b] = startVer[b] /\ startVer[b] \in Nat
    BY <1>4, <1>t, Zenon DEF end, TypeOK, Active
  <2>6. minLive' <= startVer[b] /\ e.commitVer \in Nat /\ e.commitVer > startVer[b]
    <3>1. startVer[b] \in 0..commitVer
      BY <1>4, Zenon DEF SInv, IInv, SnapshotsBounded, Active
    <3>2. minLive' <= startVer[b]
      BY <2>5, <1>1, ActiveAboveWatermarkNext, SMTT(30)
    <3> QED BY <3>1, <3>2, <2>2, <1>t, SMTT(30)
  <2>7. Above(rec, startVer[b]) = Above(recent, startVer[b]) \cup e.writeSet
    <3> HIDE DEF T, e
    <3> QED BY <2>1, <2>2, <2>5, <2>6, AppendAbove, SMTT(30)
  <2>8. Suffix(recent', rec, minLive, minLive')
    BY <1>1, Zenon
  <2> HIDE DEF T, e, rec
  <2>9. Above(recent', startVer[b]) = Above(rec, startVer[b])
    <3>1. LeftOf(recent', rec, minLive, minLive')
      BY <1>1, <2>1, <2>3, <2>4, <2>8, SMTT(30) DEF LeftOf
    <3> QED BY <3>1, <2>5, <2>6, PrunedAbove, Zenon
  <2> QED BY <2>2, <2>7, <2>9, Zenon
<1>5. Stale' = [b \in Clients |-> IF b \in Running \ {c}
                                  THEN [a \in Clients |-> Stale[a] \cup Writes[c]][b] ELSE {}]
  <2>1. ~Active(c)' /\ \A b \in Clients : b # c => (Active(b)' <=> Active(b)) /\ startVer'[b] = startVer[b]
    BY <1>t, NextPhase, Zenon DEF end, TypeOK, Active
  <2>2. Writes[c] = W
    BY Zenon DEF Writes, Active
  <2> QED BY <2>1, <2>2, <1>4, Zenon DEF Stale, Running
<1>6. Writes[c] \cap Stale[c] = {}
  <2>1. W \cap Above(recent, startVer[c]) = {}
    BY <1>t, ConflictsAbove, Zenon DEF SInv
  <2> QED BY <2>1, Zenon DEF Writes, Stale, Active
<1> HIDE DEF W
<1> QED BY <1>2, <1>3, <1>5, <1>6, Zenon
        DEF SI!Commit, SI!end, SI!Nothing, Db, Running, Snap, View, Writes, Stale, Above

\* Reading a watermark and collecting garbage are invisible: a gc prunes only
\* what no live or later snapshot can read.
LEMMA GcRefines ==
  ASSUME SInv, NEW c \in Clients, gc(c) \/ \E x \in Colls : ReadWatermark(c, x)
  PROVE  UNCHANGED SI!vars
<1>t. /\ TypeOK /\ commitVer' = commitVer /\ recent' = recent /\ commitVer \in Nat
      /\ startVer' = startVer /\ pending' = pending
      /\ \A b \in Clients : Active(b)' <=> Active(b)
  <2>1. TypeOK /\ commitVer \in Nat /\ next(c) # "active"
    BY NextPhase, Zenon DEF SInv, IInv, TypeOK
  <2>2. CASE gc(c)
    BY <2>1, <2>2, Zenon DEF TypeOK, gc, oracleVars, Active
  <2>3. CASE \E x \in Colls : ReadWatermark(c, x)
    BY <2>1, <2>3, Zenon DEF TypeOK, ReadWatermark, oracleVars, Active
  <2> QED BY <2>2, <2>3, Zenon
<1>1. ASSUME NEW k \in Keys, NEW ver \in minLive..commitVer
      PROVE  visibleAt(byID'[k], ver) = visibleAt(byID[k], ver)
  <2>1. CASE byID'[k] = byID[k]
    BY <2>1, Zenon
  <2>2. CASE gc(c) /\ byID'[k] = pruneBelow(byID[k], gcWm[c])
    <3>1. gcWm[c] <= minLive /\ gcWm[c] \in Nat /\ minLive \in Nat
      BY <2>2, <1>t, Zenon DEF SInv, IInv, GcWatermarkSafe, gc, TypeOK
    <3>2. ver \in Nat /\ gcWm[c] <= ver /\ byID[k] \in Seq(Versions)
      BY <3>1, <1>t DEF TypeOK
    <3> QED BY <2>2, <3>1, <3>2, PruneVisible, SMTT(30)
  <2> QED BY <2>1, <2>2, Zenon DEF ReadWatermark, gc
<1>2. minLive \in 0..commitVer
  BY MinLiveBounds, Zenon DEF SInv, IInv
<1>3. \A b \in Clients : Active(b) => startVer[b] \in minLive..commitVer
  BY ActiveAboveWatermark, Zenon DEF SInv, Active
<1>4. Db' = Db
  <2>1. commitVer \in minLive..commitVer
    BY <1>2, <1>t, SMTT(30)
  <2> QED BY <2>1, <1>1, <1>t, Zenon DEF Db
<1>5. Running' = Running /\ Writes' = Writes /\ Stale' = Stale
  BY <1>t, Zenon DEF Running, Writes, Stale, writeSet
<1>6. Snap' = Snap
  BY <1>t, <1>1, <1>3, Zenon DEF Snap
<1>7. View' = View
  <2>1. \A b \in Clients, k \in Keys : Active(b) => currentDoc(b, k)' = currentDoc(b, k)
    BY <1>t, <1>1, <1>3, Zenon DEF currentDoc
  <2> QED BY <2>1, <1>t, Zenon DEF View
<1> QED BY <1>4, <1>5, <1>6, <1>7, ZenonT(60)
        DEF SI!vars, Db, Running, Snap, View, Writes, Stale, Above

\* A step that changes nothing changes nothing of the abstract state.
LEMMA StutterRefines ==
  ASSUME UNCHANGED vars
  PROVE  UNCHANGED SI!vars
<1>1. Db' = Db /\ Running' = Running /\ Snap' = Snap /\ Writes' = Writes /\ Stale' = Stale
  <2>1. Db' = Db /\ Running' = Running /\ Snap' = Snap
    BY Zenon DEF vars, oracleVars, txnVars, Db, Running, Snap, Active
  <2>2. Writes' = Writes
    BY Zenon DEF vars, oracleVars, txnVars, Writes, writeSet, Active
  <2>3. Stale' = Stale
    BY Zenon DEF vars, oracleVars, txnVars, Stale, Active
  <2> QED BY <2>1, <2>2, <2>3, Zenon
<1>2. View' = View
  BY Zenon DEF vars, oracleVars, txnVars, View, Active, currentDoc
<1> QED BY <1>1, <1>2, ZenonT(60) DEF SI!vars, Db, Running, Snap, View, Writes, Stale, Above

\* Every step of the collection is a step of SnapshotIsolation or invisible.
LEMMA NextRefines == SInv /\ IInv' /\ [Next]_vars => [SI!Next]_(SI!vars)
<1> SUFFICES ASSUME SInv, IInv', [Next]_vars PROVE SI!Next \/ UNCHANGED SI!vars
  BY Zenon
<1>t. TypeOK
  BY Zenon DEF SInv, IInv
<1>1. ASSUME NEW c \in Clients, Step(c) PROVE SI!Next \/ UNCHANGED SI!vars
  <2>1. ASSUME NEW rw \in BOOLEAN, NEW used \in SUBSET Colls, Begin(c, rw, used)
        PROVE  SI!Next
    BY <2>1, BeginRefines, Zenon DEF SI!Next
  <2>2. ASSUME NEW k \in Keys, NEW d \in Docs \cup {NoDoc}, NEW r \in BOOLEAN,
               phase[c] = "active", buffer(c, k, d, r),
               d = NoDoc /\ ~r => visibleAt(byID[k], startVer[c]) = NoDoc
        PROVE  SI!Next
    <3>1. SI!Write(c, k, d) \/ SI!Undo(c, k)
      BY <2>2, BufferRefines, Zenon
    <3> QED BY <3>1, Zenon DEF SI!Next, SI!Values
  <2>3. ASSUME NEW k \in Keys, NEW d \in Docs, insertBuffered(c, k, d) \/ bufferReplace(c, k, d)
        PROVE  SI!Next
    <3>1. /\ pending[c][k].hasRemove \in BOOLEAN /\ committedAt(c, k) \in BOOLEAN
          /\ d # NoDoc
      BY <1>t, CollectionAssumption, Zenon DEF TypeOK, PendingOps, committedAt
    <3> QED BY <2>2, <2>3, <3>1, Zenon DEF insertBuffered, bufferReplace
  <2>4. ASSUME NEW k \in Keys, bufferDelete(c, k) PROVE SI!Next
    <3> DEFINE r == pending[c][k].hasRemove \/ committedAt(c, k)
    <3>1. r \in BOOLEAN
      BY <1>t, Zenon DEF TypeOK, PendingOps, committedAt
    <3>2. ~r => visibleAt(byID[k], startVer[c]) = NoDoc
      BY Zenon DEF committedAt
    <3>3. phase[c] = "active" /\ buffer(c, k, NoDoc, r)
      BY <2>4, Zenon DEF bufferDelete
    <3> HIDE DEF r
    <3> QED BY <2>2, <3>1, <3>2, <3>3, Zenon
  <2>5. ASSUME Rollback(c) \/ CommitConflict(c) PROVE SI!Next
    <3>1. SI!Abort(c)
      BY <2>5, ReleaseRefines, Zenon DEF Rollback, CommitConflict
    <3> QED BY <3>1, Zenon DEF SI!Next
  <2>6. ASSUME Commit(c) PROVE SI!Next
    <3>1. SI!Abort(c) \/ SI!Commit(c)
      BY <2>6, ReleaseRefines, CommitRefines, Zenon DEF Commit
    <3> QED BY <3>1, Zenon DEF SI!Next
  <2>7. ASSUME gc(c) \/ \E x \in Colls : ReadWatermark(c, x) PROVE UNCHANGED SI!vars
    BY <2>7, GcRefines, Zenon
  <2> QED BY <1>1, <2>1, <2>3, <2>4, <2>5, <2>6, <2>7, Zenon DEF Step
<1> QED BY <1>1, StutterRefines, Zenon DEF Next

\* Every behaviour of the collection, for any number of clients, keys and
\* versions, is one of snapshot isolation: what a transaction reads is frozen
\* when it begins, whatever commits and whatever gc prunes meanwhile; a commit
\* appears whole; and of two concurrent writers of a key only the first commits.
THEOREM CollectionImplementsSI == Spec => ImplementsSnapshotIsolation
<1>1. SInv /\ [Next]_vars => SInv' /\ [SI!Next]_(SI!vars)
  BY NextSInv, NextIInv, NextRefines, Zenon DEF SInv
<1> QED BY <1>1, InitSInv, InitRefines, PTL DEF Spec, ImplementsSnapshotIsolation, SI!Spec
=============================================================================
