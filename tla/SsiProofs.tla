------------------------------ MODULE SsiProofs ------------------------------
(***************************************************************************)
(* Theorems about Ssi for any finite set of transactions, any keys and any *)
(* bounds on what one transaction reads and writes, with and without       *)
(* scans.                                                                  *)
(***************************************************************************)
EXTENDS Ssi, OracleProofs, FiniteSetTheorems

\* A transaction holds a snapshot from Acquire to Release.
Holding(t) == phase[t] \in {"begun", "active", "releasing"}

\* The transactions whose snapshot is at version v.
HeldAt(v) == {t \in Txns : Holding(t) /\ startVer[t] = v}

\* The oracle's counts are exact.
CountsExact ==
  \A v \in 0..commitVer :
    Cardinality(HeldAt(v)) = IF v \in DOMAIN live THEN live[v] ELSE 0

\* The oracle's part of the invariant.
OInv ==
  /\ OracleInv(Keys)
  /\ \A t \in Txns : Holding(t) => startVer[t] \in 0..commitVer
  /\ CountsExact

\* Commit versions name the writers that committed, each one once, and come
\* after the snapshot.
VersionsNameWriters ==
  \A t \in Txns :
    /\ committedV[t] \in 0..commitVer
    /\ committedV[t] # 0 => phase[t] = "committed" /\ startVer[t] < committedV[t]
    /\ \A u \in Txns : committedV[t] = committedV[u] /\ committedV[t] # 0 => t = u

\* What a transaction saw by _id it has recorded.
ReadsRecorded ==
  \A t \in Txns :
    /\ phase[t] \in {"idle", "begun"} => seen[t] = {}
    /\ phase[t] = "active" /\ t \notin scanned => seen[t] \subseteq ssiLive[t].reads

\* An antidependency: u overwrote what t observed.
Rw(t, u) == committedV[u] > startVer[t] /\ seen[t] \cap writes[u] # {}

\* What the window entry of a committed writer u says about it.  The flag is
\* what dooms a later reader of u's writes.
EntryOK(e, u) ==
  /\ e.writes = writes[u]
  /\ u \notin scanned => seen[u] \subseteq e.reads
  /\ u \notin scanned /\ (\E w \in Txns : committedV[w] < committedV[u] /\ Rw(u, w)) =>
       e.outConflict

\* An index of consecutive versions that ends at cv.
GaplessTo(rec, cv) == Len(rec) <= cv /\ Gapless(rec, cv - Len(rec))

\* The window holds at least the commits above the watermark (Release alone
\* leaves older ones in it), and its entries are true.
WindowOK ==
  /\ GaplessTo(ssiRecent, commitVer)
  /\ commitVer - Len(ssiRecent) <= minLive
  /\ \A i \in 1..Len(ssiRecent), u \in Txns :
       committedV[u] # 0 /\ ssiRecent[i].commitVer = committedV[u] => EntryOK(ssiRecent[i], u)

\* The committed-since index has the write sets.
IndexOK ==
  \A i \in 1..Len(recent), u \in Txns :
    committedV[u] # 0 /\ recent[i].commitVer = committedV[u] => recent[i].writeSet = writes[u]

\* First-committer-wins, by commit order.
FirstWins ==
  \A t, u \in Txns :
    committedV[t] # 0 /\ committedV[t] < committedV[u] /\ writes[t] \cap writes[u] # {} =>
      committedV[t] <= startVer[u]

\* No dangerous structure has committed: two consecutive antidependencies
\* a, b, c whose last transaction was the first of the three to commit.
NoPivot ==
  \A a, b, c \in Txns :
    ~ /\ a # b /\ a \notin scanned /\ b \notin scanned
      /\ committedV[a] # 0 /\ committedV[b] # 0 /\ committedV[c] # 0
      /\ Rw(a, b) /\ Rw(b, c)
      /\ committedV[c] < committedV[b] /\ committedV[c] <= committedV[a]

\* The inductive invariant.
SInv ==
  /\ TypeOK
  /\ OInv
  /\ VersionsNameWriters
  /\ ReadsRecorded
  /\ WindowOK
  /\ IndexOK
  /\ FirstWins
  /\ NoPivot

(***************************************************************************)
(* The oracle under serializable transactions.                             *)
(***************************************************************************)

\* The holders of one snapshot version are finitely many.
LEMMA HeldFinite ==
  ASSUME NEW v PROVE IsFiniteSet(HeldAt(v)) /\ Cardinality(HeldAt(v)) \in Nat
BY SsiAssumption, FS_Subset, FS_CardinalityType, Zenon DEF HeldAt

\* A held snapshot is registered, and the watermark is not above it.
LEMMA HolderIsLive ==
  OInv => \A t \in Txns : Holding(t) =>
            /\ startVer[t] \in DOMAIN live
            /\ startVer[t] \in minLive..commitVer
<1> SUFFICES ASSUME OInv, NEW t \in Txns, Holding(t)
             PROVE  startVer[t] \in DOMAIN live /\ startVer[t] \in minLive..commitVer
  BY Zenon
<1>1. startVer[t] \in 0..commitVer
  BY Zenon DEF OInv
<1>2. t \in HeldAt(startVer[t])
  BY Zenon DEF HeldAt
<1>3. Cardinality(HeldAt(startVer[t])) # 0
  BY <1>2, HeldFinite, FS_EmptySet, Zenon
<1>4. startVer[t] \in DOMAIN live
  BY <1>1, <1>3, Zenon DEF OInv, CountsExact
<1>5. minLive \in 0..commitVer /\ \A v \in DOMAIN live : minLive <= v
  BY MinLiveBounds, Zenon DEF OInv
<1> QED BY <1>1, <1>4, <1>5

\* The same after a step.
LEMMA HolderIsLiveNext ==
  (OInv => \A t \in Txns : Holding(t) =>
             /\ startVer[t] \in DOMAIN live
             /\ startVer[t] \in minLive..commitVer)'
BY HolderIsLive, PTL

\* The watermark after a step is not ahead of the commit version.
LEMMA MinLiveBoundsNext ==
  (OracleInv(Keys) => minLive \in 0..commitVer)'
<1>1. OracleInv(Keys) => minLive \in 0..commitVer
  BY MinLiveBounds, Zenon
<1> QED BY <1>1, PTL

\* Acquire: one more holder at the current commit version.
LEMMA BeginOracle ==
  ASSUME TypeOK, OInv, NEW t \in Txns, BeginTx(t)
  PROVE  OInv' /\ minLive' = minLive /\ commitVer' = commitVer /\ recent' = recent
<1>1. /\ commitVer' = commitVer /\ live' = incremented(commitVer) /\ recent' = recent
      /\ commitVer \in Nat /\ phase[t] = "idle"
      /\ phase' = [phase EXCEPT ![t] = "begun"]
      /\ startVer' = [startVer EXCEPT ![t] = commitVer]
      /\ live \in [DOMAIN live -> Nat \ {0}]
  BY Zenon DEF BeginTx, Acquire, TypeOK
<1>2. OracleInv(Keys)' /\ minLive' = minLive
  BY AcquireInv, Zenon DEF BeginTx, OInv
<1>3. /\ ~Holding(t) /\ Holding(t)' /\ startVer'[t] = commitVer
      /\ \A u \in Txns : u # t => (Holding(u)' <=> Holding(u)) /\ startVer'[u] = startVer[u]
  BY <1>1, Zenon DEF TypeOK, Holding
<1>4. \A u \in Txns : Holding(u)' => startVer'[u] \in 0..commitVer'
  BY <1>1, <1>3 DEF OInv
<1>5. ASSUME NEW v \in 0..commitVer
      PROVE  Cardinality(HeldAt(v)') = IF v \in DOMAIN live' THEN live'[v] ELSE 0
  <2>1. Cardinality(HeldAt(v)) = IF v \in DOMAIN live THEN live[v] ELSE 0
    BY Zenon DEF OInv, CountsExact
  <2>2. CASE v = commitVer
    <3>1. HeldAt(v)' = HeldAt(v) \cup {t} /\ t \notin HeldAt(v)
      BY <1>3, <2>2, Zenon DEF HeldAt
    <3>2. Cardinality(HeldAt(v)') = Cardinality(HeldAt(v)) + 1
      BY <3>1, HeldFinite, FS_AddElement, Zenon
    <3>3. v \in DOMAIN live' /\ live'[v] = (IF v \in DOMAIN live THEN live[v] ELSE 0) + 1
      BY <1>1, <2>2, Zenon DEF incremented
    <3> QED BY <2>1, <3>2, <3>3, Zenon
  <2>3. CASE v # commitVer
    <3>1. HeldAt(v)' = HeldAt(v)
      BY <1>3, <2>3, Zenon DEF HeldAt
    <3>2. /\ v \in DOMAIN live' <=> v \in DOMAIN live
          /\ v \in DOMAIN live => live'[v] = live[v]
      BY <1>1, <2>3 DEF incremented
    <3> QED BY <2>1, <3>1, <3>2, Zenon
  <2> QED BY <2>2, <2>3, Zenon
<1>6. CountsExact'
  BY <1>1, <1>5, Zenon DEF CountsExact
<1> QED BY <1>1, <1>2, <1>4, <1>6, Zenon DEF OInv

\* A step between Acquire and Release leaves the oracle's part alone.
LEMMA QuietOracle ==
  ASSUME OInv, UNCHANGED oracleVars, UNCHANGED startVer,
         \A t \in Txns : Holding(t)' <=> Holding(t)
  PROVE  OInv'
<1>1. OracleInv(Keys)'
  BY Zenon DEF OInv, OracleInv, oracleVars
<1>2. \A v : HeldAt(v)' = HeldAt(v)
  BY Zenon DEF HeldAt
<1> QED BY <1>1, <1>2, Zenon DEF OInv, CountsExact, oracleVars

\* One holder fewer.
LEMMA EndHeld ==
  ASSUME OInv, NEW t \in Txns, Holding(t), ~Holding(t)', UNCHANGED startVer,
         \A u \in Txns : u # t => (Holding(u)' <=> Holding(u)),
         live' = decremented(startVer[t]), commitVer' \in {commitVer, commitVer + 1}
  PROVE  CountsExact'
<1> DEFINE s == startVer[t]
<1>1. /\ commitVer \in Nat
      /\ live \in [DOMAIN live -> Nat \ {0}] /\ DOMAIN live \subseteq 0..commitVer
  BY Zenon DEF OInv, OracleInv
<1>2. s \in DOMAIN live /\ s \in 0..commitVer
  BY HolderIsLive, Zenon DEF OInv
<1> SUFFICES ASSUME NEW v \in 0..commitVer'
             PROVE  Cardinality(HeldAt(v)') = IF v \in DOMAIN live' THEN live'[v] ELSE 0
  BY Zenon DEF CountsExact
<1>3. CASE v = s
  <2>1. HeldAt(v)' = HeldAt(v) \ {t} /\ t \in HeldAt(v)
    BY <1>3, Zenon DEF HeldAt
  <2>2. Cardinality(HeldAt(v)') = Cardinality(HeldAt(v)) - 1
    BY <2>1, HeldFinite, FS_RemoveElement, Zenon
  <2>3. Cardinality(HeldAt(v)) = live[v]
    BY <1>2, <1>3, Zenon DEF OInv, CountsExact
  <2>4. live[v] \in Nat \ {0}
    BY <1>1, <1>2, <1>3, Zenon
  <2>5. live' = IF live[v] > 1 THEN [live EXCEPT ![v] = live[v] - 1]
                ELSE [x \in DOMAIN live \ {v} |-> live[x]]
    BY <1>2, <1>3, Zenon DEF decremented
  <2>6. CASE live[v] > 1
    BY <2>2, <2>3, <2>4, <2>5, <2>6, <1>1, <1>2, <1>3, Zenon
  <2>7. CASE ~(live[v] > 1)
    BY <2>2, <2>3, <2>4, <2>5, <2>7
  <2> QED BY <2>6, <2>7, Zenon
<1>4. CASE v # s
  <2>1. HeldAt(v)' = HeldAt(v)
    BY <1>4, Zenon DEF HeldAt
  <2>2. /\ v \in DOMAIN live' <=> v \in DOMAIN live
        /\ v \in DOMAIN live => live'[v] = live[v]
    BY <1>1, <1>4, Zenon DEF decremented
  <2>3. Cardinality(HeldAt(v)) = IF v \in DOMAIN live THEN live[v] ELSE 0
    <3>1. CASE v \in 0..commitVer
      BY <3>1, Zenon DEF OInv, CountsExact
    <3>2. CASE v \notin 0..commitVer
      <4>1. HeldAt(v) = {}
        BY <3>2, Zenon DEF HeldAt, OInv
      <4> QED BY <4>1, <3>2, <1>1, FS_EmptySet, Zenon
    <3> QED BY <3>1, <3>2, Zenon
  <2> QED BY <2>1, <2>2, <2>3, Zenon
<1> QED BY <1>3, <1>4, Zenon

\* The end of a transaction, by Release or by install.
LEMMA EndOracle ==
  ASSUME OInv, NEW t \in Txns, Holding(t), ~Holding(t)', UNCHANGED startVer,
         \A u \in Txns : u # t => (Holding(u)' <=> Holding(u)),
         \/ Release(startVer[t])
         \/ \E W \in SUBSET Keys : install(startVer[t], W)
  PROVE  OInv' /\ minLive' >= minLive /\ minLive' \in Nat
<1>1. startVer[t] \in DOMAIN live
  BY HolderIsLive, Zenon
<1>2. /\ OracleInv(Keys)' /\ minLive' >= minLive /\ minLive' \in Nat
      /\ commitVer' \in {commitVer, commitVer + 1}
  <2>1. OracleInv(Keys)
    BY Zenon DEF OInv
  <2>2. CASE Release(startVer[t])
    BY <2>1, <2>2, <1>1, ReleaseInv, Zenon
  <2>3. CASE \E W \in SUBSET Keys : install(startVer[t], W)
    BY <2>1, <2>3, <1>1, InstallInv, Zenon
  <2> QED BY <2>2, <2>3, Zenon
<1>3. live' = decremented(startVer[t])
  BY Zenon DEF Release, install, releaseLocked
<1>4. CountsExact'
  BY <1>2, <1>3, EndHeld, Zenon
<1>5. \A u \in Txns : Holding(u)' => startVer'[u] \in 0..commitVer'
  BY <1>2 DEF OInv, OracleInv
<1> QED BY <1>2, <1>4, <1>5, Zenon DEF OInv

(***************************************************************************)
(* The window of committed transactions.                                   *)
(***************************************************************************)

\* An entry whose flags may have been set since.
SameEntry(new, old) ==
  /\ new.commitVer = old.commitVer /\ new.writes = old.writes /\ new.reads = old.reads
  /\ old.outConflict => new.outConflict

\* The window new is rec with flags set.
Flagged(new, rec) ==
  Len(new) = Len(rec) /\ \A i \in 1..Len(rec) : SameEntry(new[i], rec[i])

\* A function on 1..n is a sequence of length n.
LEMMA IndexedSeq ==
  ASSUME NEW T, NEW n \in Nat, NEW f \in [1..n -> T]
  PROVE  f \in Seq(T) /\ Len(f) = n
OBVIOUS

\* RecordRead only sets flags in the window.
LEMMA ReadFlags ==
  ASSUME ssiRecent \in Seq(SsiEntries), NEW t, NEW key, RecordRead(t, key)
  PROVE  ssiRecent' \in Seq(SsiEntries) /\ Flagged(ssiRecent', ssiRecent)
<1> DEFINE n == Len(ssiRecent)
           hit == {i \in Concurrent(t) : key \in ssiRecent[i].writes}
           new == [i \in 1..n |-> [ssiRecent[i] EXCEPT !.inConflict = @ \/ i \in hit]]
<1>1. n \in Nat
  OBVIOUS
<1>2. ssiRecent' = new
  BY Zenon DEF RecordRead
<1>3. ASSUME NEW i \in 1..n
      PROVE  new[i] \in SsiEntries /\ SameEntry(new[i], ssiRecent[i])
  <2> DEFINE h == i \in hit
  <2>0. ssiRecent[i] \in SsiEntries
    BY <1>1
  <2>1. new[i] = [ssiRecent[i] EXCEPT !.inConflict = @ \/ h]
    BY Zenon
  <2>2. h \in BOOLEAN
    OBVIOUS
  <2> HIDE DEF h, new, hit
  <2>3. [ssiRecent[i] EXCEPT !.inConflict = @ \/ h] \in SsiEntries
    BY <2>0, <2>2, Zenon DEF SsiEntries
  <2> QED BY <2>0, <2>1, <2>3, Zenon DEF SameEntry, SsiEntries
<1>4. new \in [1..n -> SsiEntries]
  BY <1>3, Zenon
<1> HIDE DEF n, new
<1>5. new \in Seq(SsiEntries) /\ Len(new) = n
  BY <1>1, <1>4, IndexedSeq, Zenon
<1> QED BY <1>2, <1>3, <1>5, Zenon DEF Flagged, n

\* So does a commit, before it decides.
LEMMA CommitFlags ==
  ASSUME ssiRecent \in Seq(SsiEntries), NEW t
  PROVE  flaggedRecent(t) \in Seq(SsiEntries) /\ Flagged(flaggedRecent(t), ssiRecent)
<1> DEFINE n == Len(ssiRecent)
           new == flaggedRecent(t)
<1>1. n \in Nat
  OBVIOUS
<1>2. new = [i \in 1..n |->
               [ssiRecent[i] EXCEPT !.outConflict = @ \/ i \in incoming(t),
                                    !.inConflict = @ \/ i \in outgoing(t)]]
  BY Zenon DEF flaggedRecent
<1>3. ASSUME NEW i \in 1..n
      PROVE  new[i] \in SsiEntries /\ SameEntry(new[i], ssiRecent[i])
  <2> DEFINE h == i \in incoming(t)
             g == i \in outgoing(t)
  <2>0. ssiRecent[i] \in SsiEntries
    BY <1>1, SMTT(30)
  <2>1. new[i] = [ssiRecent[i] EXCEPT !.outConflict = @ \/ h, !.inConflict = @ \/ g]
    BY <1>2, Zenon
  <2>2. h \in BOOLEAN /\ g \in BOOLEAN
    OBVIOUS
  <2> HIDE DEF h, g, new
  <2>3. [ssiRecent[i] EXCEPT !.outConflict = @ \/ h, !.inConflict = @ \/ g] \in SsiEntries
    BY <2>0, <2>2, Zenon DEF SsiEntries
  <2> QED BY <2>0, <2>1, <2>3, Zenon DEF SameEntry, SsiEntries
<1>4. new \in [1..n -> SsiEntries]
  <2>1. new = [i \in 1..n |-> new[i]]
    BY <1>2, Zenon
  <2> HIDE DEF new
  <2> QED BY <2>1, <1>3, Zenon
<1> HIDE DEF n, new
<1>5. new \in Seq(SsiEntries) /\ Len(new) = n
  BY <1>1, <1>4, IndexedSeq, Zenon
<1> QED BY <1>3, <1>5, Zenon DEF Flagged, n, new

\* The window out is what pruneSSILocked leaves of rec.
IsPruned(out, rec, wm) == out = Pruned(rec, wm)

\* The window rec reaches from the watermark wm, or below it, to the version cv.
Prunable(rec, cv, wm) ==
  /\ cv \in Nat /\ GaplessTo(rec, cv)
  /\ wm \in Nat /\ wm <= cv /\ cv - Len(rec) <= wm

\* Pruning to a watermark leaves a window with every commit above it.
LEMMA PruneWindow ==
  ASSUME NEW T, NEW rec \in Seq(T), NEW cv, NEW wm, Prunable(rec, cv, wm),
         NEW out, IsPruned(out, rec, wm)
  PROVE  /\ out \in Seq(T) /\ Len(out) = cv - wm /\ GaplessTo(out, cv)
         /\ \A i \in 1..Len(out) : \E j \in 1..Len(rec) : out[i] = rec[j]
<1> DEFINE base == cv - Len(rec)
<1>0. /\ cv \in Nat /\ GaplessTo(rec, cv)
      /\ wm \in Nat /\ wm <= cv /\ cv - Len(rec) <= wm
  BY Zenon DEF Prunable
<1>1. Len(rec) \in Nat /\ base \in Nat /\ wm \in base..(base + Len(rec)) /\ Gapless(rec, base)
  BY <1>0 DEF GaplessTo
<1>2. base + Len(rec) = cv
  BY <1>0, <1>1
<1> HIDE DEF base
<1>3. /\ out \in Seq(T) /\ Len(out) = base + Len(rec) - wm
      /\ Suffix(out, rec, base, wm) /\ Gapless(out, wm)
  BY <1>0, <1>1, PruneGapless DEF IsPruned
<1>4. Len(out) = cv - wm /\ cv - Len(out) = wm /\ Len(out) <= cv
  BY <1>0, <1>1, <1>2, <1>3
<1>5. GaplessTo(out, cv)
  BY <1>3, <1>4, Zenon DEF GaplessTo
<1> QED BY <1>3, <1>4, <1>5, Zenon DEF Suffix

\* The window out is what is left of rec after an entry was appended.
Extended(out, rec, e, wm) == out = Pruned(Append(rec, e), wm)

\* The entry e is for the version after the window's last.
Ready(rec, e, cv, wm) ==
  /\ cv \in Nat /\ GaplessTo(rec, cv) /\ e.commitVer = cv + 1
  /\ wm \in Nat /\ wm <= cv + 1 /\ cv - Len(rec) <= wm

\* The same when an entry for the next version has been appended.
LEMMA AppendWindow ==
  ASSUME NEW T, NEW rec \in Seq(T), NEW e \in T, NEW cv, NEW wm, Ready(rec, e, cv, wm),
         NEW out, Extended(out, rec, e, wm)
  PROVE  /\ out \in Seq(T) /\ Len(out) = cv + 1 - wm /\ GaplessTo(out, cv + 1)
         /\ \A i \in 1..Len(out) : out[i] = e \/ \E j \in 1..Len(rec) : out[i] = rec[j]
<1> DEFINE app == Append(rec, e)
           nv == cv + 1
<1>0. /\ cv \in Nat /\ GaplessTo(rec, cv) /\ e.commitVer = cv + 1
      /\ wm \in Nat /\ wm <= cv + 1 /\ cv - Len(rec) <= wm
  BY Zenon DEF Ready
<1>1. /\ app \in Seq(T) /\ Len(app) = Len(rec) + 1 /\ Len(rec) \in Nat
      /\ \A j \in 1..Len(rec) : app[j] = rec[j]
      /\ app[Len(rec) + 1] = e
  OBVIOUS
<1>2. IsPruned(out, app, wm)
  BY Zenon DEF Extended, IsPruned
<1> HIDE DEF app
<1>3. \A j \in 1..Len(app) : j \in 1..Len(rec) \/ j = Len(rec) + 1
  BY <1>1
<1>4. GaplessTo(app, nv)
  <2>1. nv - Len(app) = cv - Len(rec) /\ Len(app) <= nv
    BY <1>0, <1>1 DEF GaplessTo
  <2>2. \A j \in 1..Len(rec) : app[j].commitVer = cv - Len(rec) + j
    BY <1>0, <1>1, Zenon DEF GaplessTo, Gapless
  <2>3. app[Len(rec) + 1].commitVer = cv - Len(rec) + (Len(rec) + 1)
    BY <1>0, <1>1
  <2> QED BY <2>1, <2>2, <2>3, <1>3, Zenon DEF GaplessTo, Gapless
<1>5. nv \in Nat /\ wm <= nv /\ nv - Len(app) <= wm
  BY <1>0, <1>1
<1> HIDE DEF nv
<1>6. /\ out \in Seq(T) /\ Len(out) = nv - wm /\ GaplessTo(out, nv)
      /\ \A i \in 1..Len(out) : \E j \in 1..Len(app) : out[i] = app[j]
  <2>1. Prunable(app, nv, wm)
    BY <1>0, <1>1, <1>4, <1>5, Zenon DEF Prunable
  <2> QED BY <1>1, <1>2, <2>1, PruneWindow, SMTT(30)
<1>7. \A i \in 1..Len(out) : out[i] = e \/ \E j \in 1..Len(rec) : out[i] = rec[j]
  BY <1>1, <1>3, <1>6, Zenon
<1>8. out \in Seq(T) /\ Len(out) = cv + 1 - wm /\ GaplessTo(out, cv + 1)
  BY <1>0, <1>6 DEF nv
<1> QED BY <1>7, <1>8, Zenon

\* Flags do not move entries.
LEMMA FlaggedGapless ==
  ASSUME NEW rec, NEW new, NEW cv, GaplessTo(rec, cv), Flagged(new, rec)
  PROVE  GaplessTo(new, cv)
BY Zenon DEF GaplessTo, Gapless, Flagged, SameEntry

(***************************************************************************)
(* The invariant, action by action.                                        *)
(***************************************************************************)

\* The state of a new oracle and no transaction.
LEMMA InitSInv == Init => SInv
<1> SUFFICES ASSUME Init PROVE SInv
  BY Zenon
<1>1. /\ commitVer = 0 /\ minLive = 0 /\ DOMAIN live = {} /\ live \in [{} -> Nat \ {0}]
      /\ recent = << >> /\ ssiRecent = << >> /\ DOMAIN ssiLive = {}
      /\ \A t \in Txns : phase[t] = "idle" /\ committedV[t] = 0 /\ seen[t] = {}
  BY Zenon DEF Init, NewOracle
<1>2. TypeOK
  BY <1>1 DEF Init, TypeOK
<1>3. OInv
  <2>1. OracleInv(Keys)
    BY <1>1 DEF OracleInv
  <2>2. \A v : HeldAt(v) = {}
    BY <1>1, Zenon DEF HeldAt, Holding
  <2>3. CountsExact
    BY <2>2, <1>1, FS_EmptySet, Zenon DEF CountsExact
  <2> QED BY <2>1, <2>3, <1>1, Zenon DEF OInv, Holding
<1>4. WindowOK
  BY <1>1 DEF WindowOK, GaplessTo, Gapless
<1>5. VersionsNameWriters /\ ReadsRecorded /\ IndexOK /\ FirstWins /\ NoPivot
  BY <1>1 DEF VersionsNameWriters, ReadsRecorded, IndexOK, FirstWins, NoPivot
<1> QED BY <1>2, <1>3, <1>4, <1>5, Zenon DEF SInv

\* A step that commits no writer leaves the history of the committed ones, and
\* what window and index say about it, as it was.
LEMMA HistoryKept ==
  ASSUME SInv, TypeOK', OInv', ReadsRecorded',
         commitVer' = commitVer, committedV' = committedV,
         \A u \in Txns : committedV[u] # 0 =>
           /\ phase'[u] = "committed" /\ startVer'[u] = startVer[u]
           /\ writes'[u] = writes[u] /\ seen'[u] = seen[u]
           /\ u \in scanned' <=> u \in scanned,
         \A i \in 1..Len(ssiRecent') : \E j \in 1..Len(ssiRecent) :
           SameEntry(ssiRecent'[i], ssiRecent[j]),
         \A i \in 1..Len(recent') : \E j \in 1..Len(recent) : recent'[i] = recent[j],
         GaplessTo(ssiRecent', commitVer), commitVer - Len(ssiRecent') <= minLive'
  PROVE  SInv'
<1>1. VersionsNameWriters'
  BY Zenon DEF SInv, VersionsNameWriters
<1>2. \A u, w \in Txns : committedV[u] # 0 /\ committedV[w] # 0 => (Rw(u, w)' <=> Rw(u, w))
  BY Zenon DEF Rw
<1>3. \A w \in Txns, u \in Txns : committedV[u] # 0 /\ Rw(u, w)' => committedV[w] # 0
  BY DEF Rw, SInv, TypeOK
<1>4. ASSUME NEW i \in 1..Len(ssiRecent'), NEW u \in Txns, committedV[u] # 0,
             ssiRecent'[i].commitVer = committedV[u]
      PROVE  EntryOK(ssiRecent[i], u)'
  <2>1. PICK j \in 1..Len(ssiRecent) : SameEntry(ssiRecent'[i], ssiRecent[j])
    BY Zenon
  <2>2. EntryOK(ssiRecent[j], u)
    <3>1. ssiRecent[j].commitVer = committedV[u]
      BY <2>1, <1>4, Zenon DEF SameEntry
    <3>2. WindowOK
      BY Zenon DEF SInv
    <3> QED BY <3>1, <3>2, <1>4, Zenon DEF WindowOK
  <2> QED BY <2>1, <2>2, <1>2, <1>3, <1>4, Zenon DEF EntryOK, SameEntry
<1>5. WindowOK'
  BY <1>4, Zenon DEF WindowOK
<1>6. IndexOK'
  BY SMTT(90) DEF SInv, IndexOK
<1>7. FirstWins'
  <2> SUFFICES ASSUME NEW t \in Txns, NEW u \in Txns, committedV[t] # 0,
                      committedV[t] < committedV[u], writes'[t] \cap writes'[u] # {}
               PROVE  committedV[t] <= startVer'[u]
    BY Zenon DEF FirstWins
  <2>1. committedV[u] # 0
    BY DEF SInv, TypeOK
  <2> QED BY <2>1, Zenon DEF SInv, FirstWins
<1>8. NoPivot'
  BY <1>2, Zenon DEF SInv, NoPivot
<1> QED BY <1>1, <1>5, <1>6, <1>7, <1>8, Zenon DEF SInv

\* Steps that change neither the oracle nor what the window holds.
LEMMA WindowKept ==
  ASSUME SInv, TypeOK', OInv', ReadsRecorded',
         commitVer' = commitVer, recent' = recent, minLive' = minLive,
         committedV' = committedV, Flagged(ssiRecent', ssiRecent),
         \A u \in Txns : committedV[u] # 0 =>
           /\ phase'[u] = "committed" /\ startVer'[u] = startVer[u]
           /\ writes'[u] = writes[u] /\ seen'[u] = seen[u]
           /\ u \in scanned' <=> u \in scanned
  PROVE  SInv'
<1>1. GaplessTo(ssiRecent', commitVer) /\ Len(ssiRecent') = Len(ssiRecent)
  BY FlaggedGapless, Zenon DEF SInv, WindowOK, Flagged
<1>2. commitVer - Len(ssiRecent') <= minLive'
  BY <1>1, Zenon DEF SInv, WindowOK
<1>3. \A i \in 1..Len(ssiRecent') : \E j \in 1..Len(ssiRecent) :
        SameEntry(ssiRecent'[i], ssiRecent[j])
  BY <1>1, Zenon DEF Flagged
<1>4. \A i \in 1..Len(recent') : \E j \in 1..Len(recent) : recent'[i] = recent[j]
  BY Zenon
<1> QED BY <1>1, <1>2, <1>3, <1>4, HistoryKept, Zenon

\* The window is unchanged.
LEMMA SameWindow ==
  ASSUME ssiRecent' = ssiRecent PROVE Flagged(ssiRecent', ssiRecent)
BY Zenon DEF Flagged, SameEntry

\* The transaction takes its snapshot and joins the window.
LEMMA BeginSInv ==
  ASSUME SInv, NEW t \in Txns, BeginTx(t) \/ RegisterSSI(t)
  PROVE  SInv'
<1>t. TypeOK /\ OInv /\ ReadsRecorded
  BY Zenon DEF SInv
<1>c. \A u \in Txns : committedV[u] # 0 => phase[u] = "committed"
  BY Zenon DEF SInv, VersionsNameWriters
<1>1. CASE BeginTx(t)
  <2>1. OInv' /\ minLive' = minLive /\ commitVer' = commitVer /\ recent' = recent
    BY <1>1, <1>t, BeginOracle, Zenon
  <2>2. minLive \in Nat /\ commitVer \in Nat
    BY <1>t, Zenon DEF TypeOK
  <2>3. TypeOK'
    <3>1. DOMAIN live' \subseteq 0..commitVer' /\ live' \in [DOMAIN live' -> Nat \ {0}]
      BY <2>1, Zenon DEF OInv, OracleInv
    <3> QED BY <1>1, <1>t, <2>1, <2>2, <3>1, Zenon DEF BeginTx, TypeOK, ssiVars
  <2>4. ReadsRecorded'
    BY <1>1, <1>t, Zenon DEF BeginTx, ReadsRecorded, TypeOK, ssiVars
  <2> QED BY <1>1, <1>t, <1>c, <2>1, <2>3, <2>4, WindowKept, SameWindow, Zenon DEF BeginTx, ssiVars, TypeOK
<1>2. CASE RegisterSSI(t)
  <2>1. \A u \in Txns : Holding(u)' <=> Holding(u)
    BY <1>2, <1>t, Zenon DEF RegisterSSI, Holding, TypeOK
  <2>2. OInv'
    BY <1>2, <1>t, <2>1, QuietOracle, Zenon DEF RegisterSSI
  <2>3. TypeOK'
    <3>1. DOMAIN ssiLive' = {u \in Txns : phase'[u] = "active"}
      BY <1>2, <1>t DEF RegisterSSI, TypeOK
    <3>2. \A u \in DOMAIN ssiLive' : ssiLive'[u] \in
            [reads : SUBSET Keys, inConflict : BOOLEAN, outConflict : BOOLEAN, doomed : BOOLEAN]
      BY <1>2, <1>t, Zenon DEF RegisterSSI, TypeOK, FreshSsiTxn
    <3> QED BY <1>2, <1>t, <3>1, <3>2, Zenon DEF RegisterSSI, TypeOK, oracleVars
  <2>4. ReadsRecorded'
    BY <1>2, <1>t, Zenon DEF RegisterSSI, ReadsRecorded, TypeOK, FreshSsiTxn
  <2> QED BY <1>2, <1>t, <1>c, <2>2, <2>3, <2>4, WindowKept, SameWindow, ZenonT(60)
          DEF RegisterSSI, oracleVars, TypeOK
<1> QED BY <1>1, <1>2, Zenon

\* Reads and buffered writes.
LEMMA WorkSInv ==
  ASSUME SInv, NEW t \in Txns,
         Find(t) \/ \E key \in Keys : FindOne(t, key) \/ Write(t, key)
  PROVE  SInv'
<1>t. TypeOK /\ OInv /\ ReadsRecorded /\ phase[t] = "active"
  BY Zenon DEF SInv, FindOne, Find, Write
<1>c. \A u \in Txns : committedV[u] # 0 => phase[u] = "committed" /\ u # t
  BY <1>t, Zenon DEF SInv, VersionsNameWriters
<1>o. OInv'
  BY <1>t, QuietOracle, ZenonT(60) DEF FindOne, Find, Write, Holding
<1>1. ASSUME NEW key \in Keys, FindOne(t, key) PROVE SInv'
  <2> DEFINE self == ssiLive[t]
             flag == \E i \in Concurrent(t) : key \in ssiRecent[i].writes /\ ssiRecent[i].outConflict
             hits == {i \in Concurrent(t) : key \in ssiRecent[i].writes} # {}
  <2>1. /\ t \in DOMAIN ssiLive
        /\ self \in [reads : SUBSET Keys, inConflict : BOOLEAN, outConflict : BOOLEAN, doomed : BOOLEAN]
    BY <1>t, Zenon DEF TypeOK
  <2>2. /\ ssiLive' = [ssiLive EXCEPT ![t] =
             [reads |-> self.reads \cup {key}, inConflict |-> self.inConflict,
              outConflict |-> self.outConflict \/ hits, doomed |-> self.doomed \/ flag]]
    BY <1>1, Zenon DEF FindOne, RecordRead
  <2>3. ssiRecent' \in Seq(SsiEntries) /\ Flagged(ssiRecent', ssiRecent)
    BY <1>1, <1>t, ReadFlags, Zenon DEF FindOne, TypeOK
  <2>4. hits \in BOOLEAN /\ flag \in BOOLEAN
    BY Zenon
  <2> HIDE DEF hits, flag
  <2>5. /\ DOMAIN ssiLive' = DOMAIN ssiLive
        /\ ssiLive'[t].reads = self.reads \cup {key}
        /\ \A u \in DOMAIN ssiLive : u # t => ssiLive'[u] = ssiLive[u]
        /\ ssiLive'[t] \in [reads : SUBSET Keys, inConflict : BOOLEAN, outConflict : BOOLEAN, doomed : BOOLEAN]
    BY <2>1, <2>2, <2>4, Zenon
  <2>6. /\ seen' = [seen EXCEPT ![t] = @ \cup ({key} \ writes[t])]
        /\ UNCHANGED <<oracleVars, phase, startVer, committedV, writes, scanned>>
    BY <1>1, Zenon DEF FindOne, observe
  <2>7. TypeOK'
    BY <1>t, <2>3, <2>5, <2>6, Zenon DEF TypeOK, oracleVars
  <2>8. ReadsRecorded'
    <3> SUFFICES ASSUME NEW u \in Txns
                 PROVE  /\ phase[u] \in {"idle", "begun"} => seen'[u] = {}
                        /\ phase[u] = "active" /\ u \notin scanned => seen'[u] \subseteq ssiLive'[u].reads
      BY <2>6, Zenon DEF ReadsRecorded
    <3>1. CASE u = t
      BY <3>1, <1>t, <2>5, <2>6, Zenon DEF ReadsRecorded, TypeOK
    <3>2. CASE u # t
      BY <3>2, <1>t, <2>5, <2>6, Zenon DEF ReadsRecorded, TypeOK
    <3> QED BY <3>1, <3>2, Zenon
  <2> QED BY <1>t, <1>c, <1>o, <2>3, <2>6, <2>7, <2>8, WindowKept, Zenon DEF oracleVars, TypeOK
<1>2. CASE Find(t)
  <2>1. TypeOK'
    BY <1>2, <1>t, Zenon DEF Find, observe, TypeOK, oracleVars, ssiVars
  <2>2. ReadsRecorded'
    BY <1>2, <1>t, Zenon DEF Find, observe, ReadsRecorded, TypeOK, ssiVars
  <2> QED BY <1>2, <1>t, <1>c, <1>o, <2>1, <2>2, WindowKept, SameWindow, Zenon
          DEF Find, observe, oracleVars, ssiVars, TypeOK
<1>3. ASSUME NEW key \in Keys, Write(t, key) PROVE SInv'
  <2>1. TypeOK'
    BY <1>3, <1>t DEF Write, TypeOK, oracleVars, ssiVars
  <2>2. ReadsRecorded'
    BY <1>3, <1>t, Zenon DEF Write, ReadsRecorded, TypeOK, ssiVars
  <2> QED BY <1>3, <1>t, <1>c, <1>o, <2>1, <2>2, WindowKept, SameWindow, Zenon
          DEF Write, oracleVars, ssiVars, TypeOK
<1> QED BY <1>1, <1>2, <1>3, Zenon

\* What Release leaves of the committed-since index was there before.
LEMMA ReleaseIndex ==
  ASSUME OInv, NEW v \in DOMAIN live, Release(v)
  PROVE  /\ commitVer' = commitVer
         /\ \A i \in 1..Len(recent') : \E j \in 1..Len(recent) : recent'[i] = recent[j]
<1>1. commitVer' = commitVer /\ Suffix(recent', recent, minLive, minLive')
  BY ReleaseInv, Zenon DEF OInv
<1> QED BY <1>1, Zenon DEF Suffix

\* A transaction that gives up without an entry in the window.
LEMMA ReleaseSInv ==
  ASSUME SInv, NEW t \in Txns, ReleaseSSI(t) \/ EndRelease(t)
  PROVE  SInv'
<1>t. TypeOK /\ OInv /\ ReadsRecorded /\ Holding(t) /\ phase[t] \in {"active", "releasing"}
  BY Zenon DEF SInv, ReleaseSSI, EndRelease, Holding
<1>c. \A u \in Txns : committedV[u] # 0 => phase[u] = "committed" /\ u # t
  BY <1>t, Zenon DEF SInv, VersionsNameWriters
<1>1. CASE ReleaseSSI(t)
  <2>1. OInv'
    <3>1. \A u \in Txns : Holding(u)' <=> Holding(u)
      BY <1>1, <1>t, Zenon DEF ReleaseSSI, Holding, TypeOK
    <3> QED BY <1>1, <1>t, <3>1, QuietOracle, Zenon DEF ReleaseSSI
  <2>2. /\ DOMAIN ssiLive' = DOMAIN ssiLive \ {t}
        /\ \A u \in DOMAIN ssiLive' : ssiLive'[u] = ssiLive[u]
    BY <1>1, Zenon DEF ReleaseSSI, without
  <2>3. TypeOK'
    BY <1>1, <1>t, <2>2, Zenon DEF ReleaseSSI, TypeOK, oracleVars
  <2>4. ReadsRecorded'
    BY <1>1, <1>t, <2>2, Zenon DEF ReleaseSSI, ReadsRecorded, TypeOK
  <2> QED BY <1>1, <1>t, <1>c, <2>1, <2>3, <2>4, WindowKept, SameWindow, Zenon
          DEF ReleaseSSI, oracleVars, TypeOK
<1>2. CASE EndRelease(t)
  <2>1. /\ Release(startVer[t]) /\ phase[t] = "releasing"
        /\ UNCHANGED <<startVer, committedV, writes, seen, scanned, ssiLive, ssiRecent>>
        /\ \/ phase' = [phase EXCEPT ![t] = "aborted"]
           \/ phase' = [phase EXCEPT ![t] = "committed"]
    BY <1>2, Zenon DEF EndRelease, ssiVars
  <2>2. ~Holding(t)' /\ \A u \in Txns : u # t => (Holding(u)' <=> Holding(u)) /\ phase'[u] = phase[u]
    BY <1>t, <2>1, Zenon DEF Holding, TypeOK
  <2>3. OInv' /\ minLive' >= minLive /\ minLive' \in Nat
    BY <1>t, <2>1, <2>2, EndOracle, Zenon
  <2>4. /\ commitVer' = commitVer
        /\ \A i \in 1..Len(recent') : \E j \in 1..Len(recent) : recent'[i] = recent[j]
    BY <1>t, <2>1, HolderIsLive, ReleaseIndex, Zenon
  <2>5. phase'[t] \in {"aborted", "committed"}
    BY <1>t, <2>1, Zenon DEF TypeOK
  <2>6. TypeOK'
    <3>1. /\ DOMAIN live' \subseteq 0..commitVer' /\ live' \in [DOMAIN live' -> Nat \ {0}]
          /\ recent' \in Seq([commitVer : Nat, writeSet : SUBSET Keys])
      BY <2>3, Zenon DEF OInv, OracleInv
    <3>2. {u \in Txns : phase'[u] = "active"} = {u \in Txns : phase[u] = "active"}
      BY <2>1, <2>2, <2>5, Zenon
    <3>3. phase' \in [Txns -> {"idle", "begun", "active", "releasing", "committed", "aborted"}]
      BY <1>t, <2>1, Zenon DEF TypeOK
    <3> QED BY <1>t, <2>1, <2>3, <2>4, <3>1, <3>2, <3>3, Zenon DEF TypeOK
  <2>7. ReadsRecorded'
    BY <1>t, <2>1, <2>2, <2>5, Zenon DEF ReadsRecorded
  <2>8. /\ GaplessTo(ssiRecent', commitVer) /\ commitVer - Len(ssiRecent') <= minLive'
    <3>1. /\ GaplessTo(ssiRecent, commitVer) /\ commitVer - Len(ssiRecent) <= minLive
          /\ Len(ssiRecent) \in Nat /\ minLive \in Nat /\ commitVer \in Nat
      BY <1>t DEF SInv, WindowOK, TypeOK
    <3> QED BY <3>1, <2>1, <2>3
  <2>9. \A i \in 1..Len(ssiRecent') : \E j \in 1..Len(ssiRecent) :
          SameEntry(ssiRecent'[i], ssiRecent[j])
    BY <2>1, Zenon DEF SameEntry
  <2> QED BY <1>c, <2>1, <2>2, <2>3, <2>4, <2>6, <2>7, <2>8, <2>9, HistoryKept, Zenon
<1> QED BY <1>1, <1>2, Zenon

\* A commit that aborts: the flags it has set stay.
LEMMA AbortSInv ==
  ASSUME SInv, NEW t \in Txns, phase[t] = "active",
         NEW livE, DOMAIN livE = DOMAIN ssiLive,
         \A u \in DOMAIN ssiLive :
           /\ livE[u].reads = ssiLive[u].reads
           /\ livE[u] \in [reads : SUBSET Keys, inConflict : BOOLEAN, outConflict : BOOLEAN, doomed : BOOLEAN],
         NEW rec \in Seq(SsiEntries), Flagged(rec, ssiRecent),
         abortSSILocked(t, livE, rec)
  PROVE  SInv'
<1>t. TypeOK /\ OInv /\ ReadsRecorded /\ Holding(t)
  BY Zenon DEF SInv, Holding
<1>c. \A u \in Txns : committedV[u] # 0 => phase[u] = "committed" /\ u # t
  BY <1>t, Zenon DEF SInv, VersionsNameWriters
<1>1. /\ ssiLive' = without(livE, t) /\ Release(startVer[t])
      /\ ssiRecent' = Pruned(rec, minLive')
      /\ phase' = [phase EXCEPT ![t] = "aborted"]
      /\ UNCHANGED <<startVer, committedV, writes, seen, scanned>>
  BY Zenon DEF abortSSILocked, pruneSSILocked, Pruned
<1>2. ~Holding(t)' /\ phase'[t] = "aborted"
      /\ \A u \in Txns : u # t => (Holding(u)' <=> Holding(u)) /\ phase'[u] = phase[u]
  BY <1>t, <1>1, Zenon DEF Holding, TypeOK
<1>3. OInv' /\ minLive' >= minLive /\ minLive' \in Nat
  BY <1>t, <1>1, <1>2, EndOracle, Zenon
<1>4. /\ commitVer' = commitVer
      /\ \A i \in 1..Len(recent') : \E j \in 1..Len(recent) : recent'[i] = recent[j]
  BY <1>t, <1>1, HolderIsLive, ReleaseIndex, Zenon
<1>5. /\ ssiRecent' \in Seq(SsiEntries) /\ Len(ssiRecent') = commitVer - minLive'
      /\ GaplessTo(ssiRecent', commitVer)
      /\ \A i \in 1..Len(ssiRecent') : \E j \in 1..Len(rec) : ssiRecent'[i] = rec[j]
  <2>1. GaplessTo(rec, commitVer)
    BY FlaggedGapless, Zenon DEF SInv, WindowOK
  <2>2. minLive' <= commitVer /\ commitVer \in Nat
    <3>1. minLive' \in 0..commitVer'
      BY <1>3, MinLiveBoundsNext, Zenon DEF OInv
    <3> QED BY <3>1, <1>4, <1>t DEF TypeOK
  <2>3. commitVer - Len(rec) <= minLive'
    <3>1. /\ Len(rec) = Len(ssiRecent) /\ Len(ssiRecent) \in Nat /\ minLive \in Nat
          /\ commitVer - Len(ssiRecent) <= minLive
      BY <1>t DEF SInv, WindowOK, TypeOK, Flagged
    <3> QED BY <3>1, <2>2, <1>3
  <2> DEFINE wm == minLive'
             cv == commitVer
             T == SsiEntries
  <2>4. Prunable(rec, cv, wm) /\ IsPruned(ssiRecent', rec, wm) /\ rec \in Seq(T)
    BY <1>1, <1>3, <2>1, <2>2, <2>3, Zenon DEF IsPruned, Prunable
  <2> HIDE DEF wm, cv, T
  <2>5. /\ ssiRecent' \in Seq(T) /\ Len(ssiRecent') = cv - wm
        /\ GaplessTo(ssiRecent', cv)
        /\ \A i \in 1..Len(ssiRecent') : \E j \in 1..Len(rec) : ssiRecent'[i] = rec[j]
    BY <2>4, PruneWindow, SMTT(30)
  <2> QED BY <2>5, Zenon DEF wm, cv, T
<1>6. \A i \in 1..Len(ssiRecent') : \E j \in 1..Len(ssiRecent) :
        SameEntry(ssiRecent'[i], ssiRecent[j])
  BY <1>5, Zenon DEF Flagged
<1>7. /\ DOMAIN ssiLive' = DOMAIN ssiLive \ {t}
      /\ \A u \in DOMAIN ssiLive' : ssiLive'[u] = livE[u]
  BY <1>1, Zenon DEF without
<1>8. TypeOK'
  <2>1. /\ DOMAIN live' \subseteq 0..commitVer' /\ live' \in [DOMAIN live' -> Nat \ {0}]
        /\ recent' \in Seq([commitVer : Nat, writeSet : SUBSET Keys])
    BY <1>3, Zenon DEF OInv, OracleInv
  <2>2. DOMAIN ssiLive' = {u \in Txns : phase'[u] = "active"}
    BY <1>t, <1>2, <1>7, Zenon DEF TypeOK
  <2>3. phase' \in [Txns -> {"idle", "begun", "active", "releasing", "committed", "aborted"}]
    BY <1>t, <1>1, Zenon DEF TypeOK
  <2> QED BY <1>t, <1>1, <1>3, <1>4, <1>5, <1>7, <2>1, <2>2, <2>3, Zenon DEF TypeOK
<1>9. ReadsRecorded'
  BY <1>t, <1>1, <1>2, <1>7 DEF ReadsRecorded, TypeOK
<1>10. commitVer - Len(ssiRecent') <= minLive'
  BY <1>3, <1>5, <1>t DEF TypeOK
<1> QED BY <1>c, <1>1, <1>2, <1>3, <1>4, <1>5, <1>6, <1>8, <1>9, <1>10, HistoryKept, Zenon

\* The window has a true entry for every commit after a held snapshot.
LEMMA Covered ==
  ASSUME SInv, NEW t \in Txns, Holding(t), NEW w \in Txns, committedV[w] > startVer[t]
  PROVE  \E i \in 1..Len(ssiRecent) :
           /\ i \in Concurrent(t)
           /\ ssiRecent[i].commitVer = committedV[w] /\ EntryOK(ssiRecent[i], w)
<1> DEFINE base == commitVer - Len(ssiRecent)
           i == committedV[w] - base
<1>1. /\ commitVer \in Nat /\ minLive \in Nat /\ Len(ssiRecent) \in Nat
      /\ Len(ssiRecent) <= commitVer /\ base <= minLive
      /\ \A j \in 1..Len(ssiRecent) : ssiRecent[j].commitVer = base + j
  BY DEF SInv, WindowOK, TypeOK, GaplessTo, Gapless
<1>2. startVer[t] \in minLive..commitVer /\ committedV[w] \in 0..commitVer
  BY HolderIsLive, Zenon DEF SInv, VersionsNameWriters
<1>3. i \in 1..Len(ssiRecent) /\ base + i = committedV[w] /\ committedV[w] # 0
  BY <1>1, <1>2
<1> HIDE DEF i, base
<1>4. ssiRecent[i].commitVer = committedV[w]
  BY <1>1, <1>3, Zenon
<1>5. EntryOK(ssiRecent[i], w)
  BY <1>3, <1>4, Zenon DEF SInv, WindowOK
<1>6. i \in Concurrent(t)
  BY <1>3, <1>4, Zenon DEF Concurrent
<1> QED BY <1>3, <1>4, <1>5, <1>6, Zenon

\* A transaction that passes first-committer-wins wrote nothing that was
\* committed since its snapshot.
LEMMA NothingOverwritten ==
  ASSUME SInv, NEW t \in Txns, Holding(t), ~conflicts(startVer[t], writes[t]),
         NEW w \in Txns, committedV[w] > startVer[t]
  PROVE  writes[w] \cap writes[t] = {}
<1> DEFINE i == committedV[w] - minLive
<1>1. /\ commitVer \in Nat /\ minLive \in Nat /\ Len(recent) \in Nat
      /\ Len(recent) = commitVer - minLive
      /\ \A j \in 1..Len(recent) : recent[j].commitVer = minLive + j
  BY DEF SInv, TypeOK, OInv, OracleInv
<1>2. startVer[t] \in minLive..commitVer /\ committedV[w] \in 0..commitVer
  BY HolderIsLive, Zenon DEF SInv, VersionsNameWriters
<1>3. i \in 1..Len(recent) /\ minLive + i = committedV[w] /\ committedV[w] # 0
  <2>1. committedV[w] \in Nat /\ startVer[t] \in Nat /\ minLive < committedV[w]
    BY <1>1, <1>2
  <2>2. i \in 1..(commitVer - minLive) /\ minLive + i = committedV[w]
    BY <2>1, <1>1, <1>2
  <2> QED BY <2>1, <2>2, <1>1
<1> HIDE DEF i
<1>4. recent[i].commitVer = committedV[w]
  BY <1>1, <1>3, Zenon
<1>5. recent[i].writeSet = writes[w]
  BY <1>3, <1>4, Zenon DEF SInv, IndexOK
<1>6. \A j \in i..Len(recent) : recent[j].commitVer > startVer[t]
  BY <1>1, <1>2, <1>3
<1> QED BY <1>3, <1>5, <1>6, Zenon DEF conflicts

\* What a commit does to the history: one more writer, after all others.
CommitsLast(t) ==
  /\ committedV' = [committedV EXCEPT ![t] = commitVer + 1]
  /\ commitVer' = commitVer + 1
  /\ phase' = [phase EXCEPT ![t] = "committed"]
  /\ UNCHANGED <<startVer, writes, seen, scanned>>

\* The commit keeps first-committer-wins and closes no dangerous structure: as
\* the pivot it finds both neighbours in the window, and as the reader of a
\* committed pivot it finds the pivot's flag.
LEMMA CommitHistory ==
  ASSUME SInv, NEW t \in Txns, phase[t] = "active", CommitsLast(t),
         ~conflicts(startVer[t], writes[t]), ~pivot(t)
  PROVE  VersionsNameWriters' /\ FirstWins' /\ NoPivot'
<1>t. /\ TypeOK /\ commitVer \in Nat /\ Holding(t) /\ startVer[t] \in 0..commitVer
      /\ VersionsNameWriters /\ committedV[t] = 0
  BY Zenon DEF SInv, TypeOK, Holding, OInv, VersionsNameWriters
<1>1. /\ committedV'[t] = commitVer + 1
      /\ \A u \in Txns : u # t => committedV'[u] = committedV[u] /\ phase'[u] = phase[u]
      /\ \A u \in Txns : committedV[u] \in 0..commitVer
      /\ phase'[t] = "committed"
      /\ startVer' = startVer /\ writes' = writes /\ seen' = seen /\ scanned' = scanned
      /\ commitVer' = commitVer + 1
  BY <1>t, Zenon DEF CommitsLast, TypeOK, VersionsNameWriters
<1>2. VersionsNameWriters'
  BY <1>t, <1>1 DEF VersionsNameWriters
<1>3. FirstWins'
  <2> SUFFICES ASSUME NEW a \in Txns, NEW b \in Txns, committedV'[a] # 0,
                      committedV'[a] < committedV'[b], writes[a] \cap writes[b] # {}
               PROVE  committedV'[a] <= startVer[b]
    BY <1>1, Zenon DEF FirstWins
  <2>1. a # t
    BY <1>t, <1>1
  <2>2. CASE b = t
    <3>1. ~(committedV[a] > startVer[t])
      BY <2>2, <1>t, NothingOverwritten, Zenon
    <3> QED BY <3>1, <2>1, <2>2, <1>t, <1>1, SMTT(30)
  <2>3. CASE b # t
    BY <2>1, <2>3, <1>1, Zenon DEF SInv, FirstWins
  <2> QED BY <2>2, <2>3, Zenon
<1>4. NoPivot'
  <2> SUFFICES ASSUME NEW a \in Txns, NEW b \in Txns, NEW c \in Txns,
                      a # b, a \notin scanned, b \notin scanned,
                      committedV'[a] # 0, committedV'[b] # 0, committedV'[c] # 0,
                      Rw(a, b)', Rw(b, c)',
                      committedV'[c] < committedV'[b], committedV'[c] <= committedV'[a]
               PROVE  FALSE
    BY <1>1, Zenon DEF NoPivot
  <2>1. c # t
    BY <1>t, <1>1, SMTT(30)
  <2>2. CASE b = t
    <3>1. committedV[c] > startVer[t] /\ seen[t] \cap writes[c] # {}
      BY <2>1, <2>2, <1>1, Zenon DEF Rw
    <3>2. a # t /\ committedV[a] > startVer[t] /\ seen[a] \cap writes[t] # {}
      <4>1. a # t /\ committedV[c] <= committedV[a] /\ seen[a] \cap writes[t] # {}
        BY <2>1, <2>2, <1>1, Zenon DEF Rw
      <4> QED BY <4>1, <3>1, <1>t, <1>1, SMTT(30)
    <3>3. PICK i \in 1..Len(ssiRecent) : i \in Concurrent(t) /\ EntryOK(ssiRecent[i], c)
      BY <3>1, <1>t, Covered, Zenon
    <3>4. PICK j \in 1..Len(ssiRecent) : j \in Concurrent(t) /\ EntryOK(ssiRecent[j], a)
      BY <3>2, <1>t, Covered, Zenon
    <3>5. seen[t] \subseteq ssiLive[t].reads
      BY <2>2, Zenon DEF SInv, ReadsRecorded
    <3>6. i \in outgoing(t)
      BY <3>1, <3>3, <3>5, Zenon DEF outgoing, EntryOK
    <3>7. j \in incoming(t)
      BY <3>2, <3>4, Zenon DEF incoming, EntryOK
    <3> QED BY <3>6, <3>7, Zenon DEF pivot, inConflict, outConflict
  <2>3. CASE a = t
    <3>1. b # t /\ committedV[b] > startVer[t] /\ seen[t] \cap writes[b] # {}
      BY <2>3, <1>1, Zenon DEF Rw
    <3>2. Rw(b, c) /\ committedV[c] < committedV[b]
      BY <2>1, <3>1, <1>1, Zenon DEF Rw
    <3>3. PICK i \in 1..Len(ssiRecent) : i \in Concurrent(t) /\ EntryOK(ssiRecent[i], b)
      BY <3>1, <1>t, Covered, Zenon
    <3>4. ssiRecent[i].outConflict
      BY <3>2, <3>3, Zenon DEF EntryOK
    <3>5. seen[t] \subseteq ssiLive[t].reads
      BY <2>3, ZenonT(60) DEF SInv, ReadsRecorded
    <3>6. i \in outgoing(t)
      BY <3>1, <3>3, <3>5, Zenon DEF outgoing, EntryOK
    <3> QED BY <3>4, <3>6, Zenon DEF pivot, doomed
  <2>4. CASE a # t /\ b # t
    BY <2>1, <2>4, <1>1, Zenon DEF SInv, NoPivot, Rw
  <2> QED BY <2>2, <2>3, <2>4, Zenon
<1> QED BY <1>2, <1>3, <1>4, Zenon

\* The entry a commit leaves in the window is true, and the others stay so.
LEMMA CommitWindow ==
  ASSUME SInv, NEW t \in Txns, phase[t] = "active", CommitsLast(t),
         minLive' \in minLive..(commitVer + 1),
         NEW fl \in Seq(SsiEntries), Flagged(fl, ssiRecent), NEW e \in SsiEntries,
         e.commitVer = commitVer + 1, e.reads = ssiLive[t].reads, e.writes = writes[t],
         outConflict(t) => e.outConflict,
         Extended(ssiRecent', fl, e, minLive')
  PROVE  ssiRecent' \in Seq(SsiEntries) /\ WindowOK'
<1>t. /\ TypeOK /\ commitVer \in Nat /\ minLive \in Nat /\ Holding(t)
      /\ startVer[t] \in 0..commitVer /\ VersionsNameWriters /\ committedV[t] = 0
      /\ Len(ssiRecent) \in Nat
  BY DEF SInv, TypeOK, Holding, OInv, VersionsNameWriters
<1>1. /\ committedV'[t] = commitVer + 1
      /\ \A u \in Txns : u # t => committedV'[u] = committedV[u]
      /\ \A u \in Txns : committedV[u] \in 0..commitVer
      /\ startVer' = startVer /\ writes' = writes /\ seen' = seen /\ scanned' = scanned
      /\ commitVer' = commitVer + 1
  BY <1>t, Zenon DEF CommitsLast, TypeOK, VersionsNameWriters
<1>2. /\ Len(fl) = Len(ssiRecent) /\ GaplessTo(fl, commitVer)
      /\ commitVer - Len(fl) <= minLive /\ Len(fl) <= commitVer
      /\ \A j \in 1..Len(fl) : SameEntry(fl[j], ssiRecent[j])
  BY FlaggedGapless, Zenon DEF SInv, WindowOK, Flagged, GaplessTo
<1>3. minLive' \in Nat /\ minLive' <= commitVer + 1 /\ commitVer - Len(fl) <= minLive'
  BY <1>2, <1>t, SMTT(30)
<1>8. /\ ssiRecent' \in Seq(SsiEntries) /\ Len(ssiRecent') = commitVer + 1 - minLive'
      /\ GaplessTo(ssiRecent', commitVer + 1)
      /\ \A i \in 1..Len(ssiRecent') :
           ssiRecent'[i] = e \/ \E j \in 1..Len(fl) : ssiRecent'[i] = fl[j]
  <2>1. Ready(fl, e, commitVer, minLive')
    BY <1>2, <1>3, <1>t, Zenon DEF Ready
  <2> QED BY <2>1, AppendWindow
<1>9. commitVer' - Len(ssiRecent') <= minLive'
  <2>1. commitVer' = commitVer + 1 /\ Len(ssiRecent') = commitVer + 1 - minLive'
    BY <1>1, <1>8, Zenon
  <2>2. commitVer \in Nat /\ minLive' \in Nat
    BY <1>3, <1>t, Zenon
  <2>3. \A a, b \in Nat : (a + 1) - (a + 1 - b) <= b
    OBVIOUS
  <2>4. (commitVer + 1) - (commitVer + 1 - minLive') <= minLive'
    BY <2>2, <2>3, Zenon
  <2> QED BY <2>1, <2>4, Zenon
<1>10. ASSUME NEW i \in 1..Len(ssiRecent'), NEW u \in Txns, committedV'[u] # 0,
              ssiRecent'[i].commitVer = committedV'[u]
       PROVE  EntryOK(ssiRecent[i], u)'
  <2>2. ASSUME NEW j \in 1..Len(fl), ssiRecent'[i] = fl[j]
        PROVE  EntryOK(ssiRecent[i], u)'
    <3>1. SameEntry(ssiRecent'[i], ssiRecent[j]) /\ j \in 1..Len(ssiRecent)
      BY <2>2, <1>2, Zenon
    <3>2. fl[j].commitVer = commitVer - Len(fl) + j
      BY <1>2, Zenon DEF GaplessTo, Gapless
    <3>3. u # t
      BY <2>2, <3>2, <1>1, <1>2, <1>10, <1>t, SMTT(30)
    <3>4. ssiRecent[j].commitVer = committedV[u] /\ committedV[u] # 0
      BY <3>1, <3>3, <1>1, <1>10, ZenonT(60) DEF SameEntry
    <3>5. WindowOK
      BY Zenon DEF SInv
    <3>6. EntryOK(ssiRecent[j], u)
      BY <3>1, <3>4, <3>5, Zenon DEF WindowOK
    <3>7. ASSUME NEW w \in Txns, committedV'[w] < committedV'[u], Rw(u, w)'
          PROVE  committedV[w] < committedV[u] /\ Rw(u, w)
      <4>1. w # t
        BY <3>3, <3>7, <1>1, <1>t, SMTT(30)
      <4> QED BY <4>1, <3>3, <3>7, <1>1, Zenon DEF Rw
    <3> QED BY <3>1, <3>6, <3>7, <1>1, Zenon DEF EntryOK, SameEntry
  <2>3. CASE ssiRecent'[i] = e
    <3>2. u = t
      <4>1. committedV'[u] = commitVer + 1 /\ commitVer \in Nat
        BY <2>3, <1>10, <1>t, Zenon
      <4>2. u # t => committedV'[u] \in 0..commitVer
        BY <1>1, Zenon
      <4> QED BY <4>1, <4>2
    <3>3. t \notin scanned => seen[t] \subseteq e.reads
      BY Zenon DEF SInv, ReadsRecorded
    <3>4. ASSUME t \notin scanned, NEW w \in Txns, committedV'[w] < committedV'[t], Rw(t, w)'
          PROVE  e.outConflict
      <4>1. committedV[w] > startVer[t] /\ seen[t] \cap writes[w] # {}
        BY <3>4, <1>1, <1>t, SMTT(30) DEF Rw
      <4>2. PICK h \in 1..Len(ssiRecent) : h \in Concurrent(t) /\ EntryOK(ssiRecent[h], w)
        BY <4>1, <1>t, Covered, ZenonT(60)
      <4>3. seen[t] \subseteq ssiLive[t].reads
        BY <3>4, ZenonT(60) DEF SInv, ReadsRecorded
      <4>4. h \in outgoing(t)
        BY <4>1, <4>2, <4>3, ZenonT(60) DEF outgoing, EntryOK
      <4> QED BY <4>4, Zenon DEF outConflict
    <3> QED BY <2>3, <3>2, <3>3, <3>4, <1>1, ZenonT(60) DEF EntryOK
  <2> QED BY <2>2, <2>3, <1>8, Zenon
<1>11. WindowOK'
  <2>1. GaplessTo(ssiRecent', commitVer')
    BY <1>1, <1>8, Zenon
  <2> QED BY <2>1, <1>9, <1>10, Zenon DEF WindowOK
<1> QED BY <1>8, <1>11, Zenon

\* The flags a commit sets in live transactions leave their reads alone.
LEMMA LiveFlags ==
  ASSUME TypeOK, NEW t \in Txns
  PROVE  /\ DOMAIN flaggedLive(t) = DOMAIN ssiLive
         /\ \A u \in DOMAIN ssiLive :
              /\ flaggedLive(t)[u].reads = ssiLive[u].reads
              /\ flaggedLive(t)[u] \in
                   [reads : SUBSET Keys, inConflict : BOOLEAN, outConflict : BOOLEAN, doomed : BOOLEAN]
<1>1. ASSUME NEW u \in DOMAIN ssiLive
      PROVE  /\ flaggedLive(t)[u].reads = ssiLive[u].reads
             /\ flaggedLive(t)[u] \in
                  [reads : SUBSET Keys, inConflict : BOOLEAN, outConflict : BOOLEAN, doomed : BOOLEAN]
  <2> DEFINE h == u \in readersOf(t)
  <2>1. ssiLive[u] \in
          [reads : SUBSET Keys, inConflict : BOOLEAN, outConflict : BOOLEAN, doomed : BOOLEAN]
    BY Zenon DEF TypeOK
  <2>2. flaggedLive(t)[u] = [ssiLive[u] EXCEPT !.outConflict = @ \/ h]
    BY Zenon DEF flaggedLive
  <2>3. h \in BOOLEAN
    OBVIOUS
  <2> HIDE DEF h
  <2> QED BY <2>1, <2>2, <2>3, Zenon
<1> QED BY <1>1, Zenon DEF flaggedLive

\* The commit of a writer.
LEMMA CommitSInv ==
  ASSUME SInv, NEW t \in Txns, CommitSerializable(t)
  PROVE  SInv'
<1> DEFINE W == writes[t]
           e == [commitVer |-> commitVer + 1, reads |-> ssiLive[t].reads, writes |-> W,
                 inConflict |-> inConflict(t), outConflict |-> outConflict(t)]
<1>t. /\ TypeOK /\ OInv /\ ReadsRecorded /\ Holding(t) /\ phase[t] = "active"
      /\ W \in SUBSET Keys /\ commitVer \in Nat /\ t \in DOMAIN ssiLive
      /\ ssiLive[t].reads \in SUBSET Keys
      /\ ssiLive[t].inConflict \in BOOLEAN /\ ssiLive[t].outConflict \in BOOLEAN
  BY Zenon DEF SInv, CommitSerializable, Holding, TypeOK
<1>1. /\ ~conflicts(startVer[t], W) /\ ~pivot(t) /\ install(startVer[t], W)
      /\ ssiLive' = without(flaggedLive(t), t)
      /\ Extended(ssiRecent', flaggedRecent(t), e, minLive')
      /\ CommitsLast(t)
  BY Zenon DEF CommitSerializable, pruneSSILocked, Extended, Pruned, CommitsLast, install
<1>2. /\ ~Holding(t)' /\ phase'[t] = "committed"
      /\ \A u \in Txns : u # t => (Holding(u)' <=> Holding(u)) /\ phase'[u] = phase[u]
      /\ startVer' = startVer /\ seen' = seen /\ scanned' = scanned
  BY <1>t, <1>1, Zenon DEF Holding, TypeOK, CommitsLast
<1>3. OInv' /\ minLive' >= minLive /\ minLive' \in Nat
  <2>1. UNCHANGED startVer /\ \E V \in SUBSET Keys : install(startVer[t], V)
    BY <1>t, <1>1, <1>2, Zenon
  <2>2. \A u \in Txns : u # t => (Holding(u)' <=> Holding(u))
    BY <1>2, Zenon
  <2> QED BY <1>t, <1>2, <2>1, <2>2, EndOracle, ZenonT(60)
<1>4. /\ commitVer' = commitVer + 1
      /\ Suffix(recent', Append(recent, [commitVer |-> commitVer + 1, writeSet |-> W]), minLive, minLive')
  BY <1>t, <1>1, HolderIsLive, InstallInv, ZenonT(60) DEF OInv
<1>5. VersionsNameWriters' /\ FirstWins' /\ NoPivot'
  BY <1>t, <1>1, CommitHistory, ZenonT(60)
<1>6. ssiRecent' \in Seq(SsiEntries) /\ WindowOK'
  <2>1. minLive' \in minLive..(commitVer + 1)
    <3>1. minLive' \in 0..commitVer'
      BY <1>3, MinLiveBoundsNext, Zenon DEF OInv
    <3> QED BY <3>1, <1>3, <1>4, <1>t DEF TypeOK
  <2>2. flaggedRecent(t) \in Seq(SsiEntries) /\ Flagged(flaggedRecent(t), ssiRecent)
    BY <1>t, CommitFlags, Zenon DEF TypeOK
  <2>3. inConflict(t) \in BOOLEAN /\ outConflict(t) \in BOOLEAN
    BY <1>t, Zenon DEF inConflict, outConflict
  <2>4. /\ e \in SsiEntries /\ e.commitVer = commitVer + 1 /\ e.reads = ssiLive[t].reads
        /\ e.writes = writes[t] /\ (outConflict(t) => e.outConflict)
    BY <1>t, <2>3 DEF SsiEntries
  <2> HIDE DEF e
  <2> QED BY <1>t, <1>1, <2>1, <2>2, <2>4, CommitWindow, ZenonT(60)
<1>7. IndexOK'
  <2> DEFINE a == [commitVer |-> commitVer + 1, writeSet |-> W]
  <2>1. /\ committedV'[t] = commitVer + 1 /\ writes' = writes
        /\ \A u \in Txns : u # t => committedV'[u] = committedV[u]
        /\ \A u \in Txns : committedV[u] \in 0..commitVer
    BY <1>t, <1>1, Zenon DEF CommitsLast, TypeOK, SInv, VersionsNameWriters
  <2>2. /\ Len(recent) \in Nat
        /\ \A j \in 1..Len(recent) : Append(recent, a)[j] = recent[j]
        /\ Append(recent, a)[Len(recent) + 1] = a
        /\ \A j \in 1..Len(Append(recent, a)) : j \in 1..Len(recent) \/ j = Len(recent) + 1
    BY <1>t, SMTT(30) DEF TypeOK
  <2>3. \A j \in 1..Len(recent) : recent[j].commitVer <= commitVer /\ recent[j].commitVer \in Nat
    <3>1. /\ Len(recent) \in Nat /\ minLive \in Nat /\ Len(recent) = commitVer - minLive
          /\ \A j \in 1..Len(recent) : recent[j].commitVer = minLive + j
      BY <1>t DEF OInv, OracleInv, TypeOK
    <3>2. commitVer \in Nat
      BY <1>t, Zenon
    <3> QED BY <3>1, <3>2, SMTT(30)
  <2>4. a.commitVer = commitVer + 1 /\ a.writeSet = writes[t]
    BY Zenon
  <2> HIDE DEF a
  <2> SUFFICES ASSUME NEW i \in 1..Len(recent'), NEW u \in Txns, committedV'[u] # 0,
                      recent'[i].commitVer = committedV'[u]
               PROVE  recent'[i].writeSet = writes[u]
    BY <2>1, Zenon DEF IndexOK
  <2>5. recent'[i] = a \/ \E j \in 1..Len(recent) : recent'[i] = recent[j]
    BY <1>4, <2>2, Zenon DEF Suffix, a
  <2>6. CASE recent'[i] = a
    <3>1. u = t
      BY <2>1, <2>4, <2>6, <1>t, SMTT(30)
    <3> QED BY <3>1, <2>4, <2>6, Zenon
  <2>7. ASSUME NEW j \in 1..Len(recent), recent'[i] = recent[j] PROVE recent'[i].writeSet = writes[u]
    <3>1. u # t
      BY <2>1, <2>3, <2>7, <1>t, SMTT(30)
    <3> QED BY <3>1, <2>1, <2>7, Zenon DEF SInv, IndexOK
  <2> QED BY <2>5, <2>6, <2>7, Zenon
<1>8. /\ DOMAIN ssiLive' = DOMAIN ssiLive \ {t}
      /\ \A u \in DOMAIN ssiLive' :
           /\ ssiLive'[u].reads = ssiLive[u].reads
           /\ ssiLive'[u] \in
                [reads : SUBSET Keys, inConflict : BOOLEAN, outConflict : BOOLEAN, doomed : BOOLEAN]
  <2>1. /\ DOMAIN ssiLive' = DOMAIN flaggedLive(t) \ {t}
        /\ \A u \in DOMAIN ssiLive' : ssiLive'[u] = flaggedLive(t)[u]
    BY <1>1, Zenon DEF without
  <2> QED BY <2>1, <1>t, LiveFlags, Zenon
<1>9. TypeOK'
  <2>1. /\ DOMAIN live' \subseteq 0..commitVer' /\ live' \in [DOMAIN live' -> Nat \ {0}]
        /\ recent' \in Seq([commitVer : Nat, writeSet : SUBSET Keys]) /\ commitVer' \in Nat
    BY <1>3, Zenon DEF OInv, OracleInv
  <2>2. DOMAIN ssiLive' = {u \in Txns : phase'[u] = "active"}
    BY <1>t, <1>2, <1>8, Zenon DEF TypeOK
  <2>3. /\ phase' \in [Txns -> {"idle", "begun", "active", "releasing", "committed", "aborted"}]
        /\ committedV' \in [Txns -> Nat] /\ writes' = writes
    BY <1>t, <1>1 DEF TypeOK, CommitsLast
  <2> QED BY <1>t, <1>2, <1>3, <1>6, <1>8, <2>1, <2>2, <2>3, Zenon DEF TypeOK
<1>10. ReadsRecorded'
  BY <1>t, <1>2, <1>8, Zenon DEF ReadsRecorded, TypeOK
<1> QED BY <1>3, <1>5, <1>6, <1>7, <1>9, <1>10, Zenon DEF SInv

\* Every step keeps the invariant.
LEMMA NextSInv == SInv /\ [Next]_vars => SInv'
<1> SUFFICES ASSUME SInv, [Next]_vars PROVE SInv'
  BY Zenon
<1>1. ASSUME NEW t \in Txns, BeginTx(t) \/ RegisterSSI(t) PROVE SInv'
  BY <1>1, BeginSInv, Zenon
<1>2. ASSUME NEW t \in Txns, Find(t) \/ \E key \in Keys : FindOne(t, key) \/ Write(t, key)
      PROVE  SInv'
  BY <1>2, WorkSInv, Zenon
<1>4. ASSUME NEW t \in Txns, CommitConflict(t) PROVE SInv'
  <2>1. TypeOK /\ phase[t] = "active" /\ abortSSILocked(t, ssiLive, ssiRecent)
    BY <1>4, Zenon DEF SInv, CommitConflict
  <2>2. ssiRecent \in Seq(SsiEntries) /\ Flagged(ssiRecent, ssiRecent)
    BY <2>1, Zenon DEF TypeOK, Flagged, SameEntry
  <2>3. \A u \in DOMAIN ssiLive : ssiLive[u] \in
          [reads : SUBSET Keys, inConflict : BOOLEAN, outConflict : BOOLEAN, doomed : BOOLEAN]
    BY <2>1, Zenon DEF TypeOK
  <2> QED BY <2>1, <2>2, <2>3, AbortSInv, Zenon
<1>5. ASSUME NEW t \in Txns, CommitAbort(t) PROVE SInv'
  <2>1. TypeOK /\ phase[t] = "active" /\ abortSSILocked(t, flaggedLive(t), flaggedRecent(t))
    BY <1>5, Zenon DEF SInv, CommitAbort
  <2>2. flaggedRecent(t) \in Seq(SsiEntries) /\ Flagged(flaggedRecent(t), ssiRecent)
    BY <2>1, CommitFlags, Zenon DEF TypeOK
  <2> QED BY <2>1, <2>2, LiveFlags, AbortSInv, Zenon
<1>6. ASSUME NEW t \in Txns, CommitSerializable(t) PROVE SInv'
  BY <1>6, CommitSInv, Zenon
<1>7. ASSUME NEW t \in Txns, ReleaseSSI(t) \/ EndRelease(t) PROVE SInv'
  BY <1>7, ReleaseSInv, Zenon
<1>8. CASE UNCHANGED vars
  <2>t. TypeOK /\ OInv /\ ReadsRecorded
    BY Zenon DEF SInv
  <2>1. TypeOK'
    BY <1>8, <2>t, Zenon DEF vars, oracleVars, txnVars, ssiVars, TypeOK
  <2>2. ReadsRecorded'
    BY <1>8, <2>t, Zenon DEF vars, txnVars, ssiVars, ReadsRecorded
  <2>3. OInv'
    BY <1>8, <2>t, QuietOracle, Zenon DEF vars, txnVars, Holding
  <2>4. \A u \in Txns : committedV[u] # 0 => phase[u] = "committed"
    BY Zenon DEF SInv, VersionsNameWriters
  <2> QED BY <1>8, <2>1, <2>2, <2>3, <2>4, WindowKept, SameWindow, Zenon
          DEF vars, oracleVars, txnVars, ssiVars
<1> QED BY <1>1, <1>2, <1>4, <1>5, <1>6, <1>7, <1>8, Zenon DEF Next, Finished

(***************************************************************************)
(* What follows from the invariant.                                        *)
(***************************************************************************)

\* The state of the serializable transactions is well typed.
THEOREM SsiTypeCorrect == Spec => []TypeOK
<1>1. SInv => TypeOK
  BY Zenon DEF SInv
<1> QED BY <1>1, InitSInv, NextSInv, PTL DEF Spec

\* pruneSSILocked never drops an entry that a live transaction could still
\* form an edge with.
THEOREM WindowAlwaysCovers == Spec => []WindowCoversConcurrent
<1>1. SInv => WindowCoversConcurrent
  <2> SUFFICES ASSUME SInv, NEW t \in Txns, NEW u \in Txns,
                      phase[t] \in {"begun", "active"}, committedV[u] > startVer[t]
               PROVE  \E i \in 1..Len(ssiRecent) :
                        ssiRecent[i].commitVer = committedV[u] /\ ssiRecent[i].writes = writes[u]
    BY Zenon DEF WindowCoversConcurrent
  <2>1. Holding(t)
    BY Zenon DEF Holding
  <2> QED BY <2>1, Covered, Zenon DEF EntryOK
<1> QED BY <1>1, InitSInv, NextSInv, PTL DEF Spec

\* Of two committed writers of one document, one started from the other's
\* version, whatever was pruned between.
THEOREM NoUpdateLost == Spec => []NoLostUpdate
<1>1. SInv => NoLostUpdate
  <2> SUFFICES ASSUME SInv, NEW t \in Txns, NEW u \in Txns,
                      committedV[t] # 0, committedV[u] # 0,
                      t # u, writes[t] \cap writes[u] # {}
               PROVE  committedV[t] <= startVer[u] \/ committedV[u] <= startVer[t]
    BY Zenon DEF NoLostUpdate, Committed
  <2>1. committedV[t] \in Nat /\ committedV[u] \in Nat /\ committedV[t] # committedV[u]
    BY Zenon DEF SInv, TypeOK, VersionsNameWriters
  <2>2. CASE committedV[t] < committedV[u]
    BY <2>2, Zenon DEF SInv, FirstWins
  <2>3. CASE committedV[u] < committedV[t]
    BY <2>3, Zenon DEF SInv, FirstWins
  <2> QED BY <2>1, <2>2, <2>3
<1> QED BY <1>1, InitSInv, NextSInv, PTL DEF Spec

\* The committed writers that read by _id only.
Updaters == {t \in Committed \ scanned : committedV[t] # 0}

\* A set in which the serialization graph never ends: it has a cycle.
Cyclic(S) == S # {} /\ \A t \in S : \E u \in S \ {t} : Before(t, u)

\* In a smallest such set every transaction is also somebody's successor.
LEMMA SmallestCyclic ==
  ASSUME NEW S \in SUBSET Updaters, Cyclic(S)
  PROVE  \E R \in SUBSET Updaters :
           R # {} /\ \A t \in R : \E u \in R \ {t} : Before(u, t)
<1> DEFINE bad == {Q \in SUBSET Updaters : Cyclic(Q)}
           sizes == {Cardinality(Q) : Q \in bad}
<1>1. \A Q \in SUBSET Updaters : IsFiniteSet(Q) /\ Cardinality(Q) \in Nat
  <2>1. \A Q \in SUBSET Updaters : Q \subseteq Txns
    BY Zenon DEF Updaters, Committed
  <2> QED BY <2>1, SsiAssumption, FS_Subset, FS_CardinalityType, Zenon
<1>2. sizes \in SUBSET Nat /\ sizes # {}
  BY <1>1, Zenon
<1>3. Min(sizes) \in sizes /\ \A y \in sizes : Min(sizes) <= y
  BY <1>2, MinNat, Zenon
<1>4. PICK R \in bad : \A Q \in bad : Cardinality(R) <= Cardinality(Q)
  BY <1>3, Zenon
<1>5. ASSUME NEW x \in R, ~\E u \in R \ {x} : Before(u, x)
      PROVE  FALSE
  <2>1. R \in SUBSET Updaters /\ Cyclic(R)
    BY <1>4, Zenon
  <2>2. R \ {x} # {}
    BY <2>1, Zenon DEF Cyclic
  <2>3. ASSUME NEW t \in R \ {x} PROVE \E u \in (R \ {x}) \ {t} : Before(t, u)
    <3>1. PICK u \in R \ {t} : Before(t, u)
      BY <2>1, Zenon DEF Cyclic
    <3> QED BY <3>1, <1>5, Zenon
  <2>4. R \ {x} \in bad
    BY <2>1, <2>2, <2>3, Zenon DEF Cyclic
  <2>5. Cardinality(R \ {x}) = Cardinality(R) - 1
    BY <1>1, <2>1, FS_RemoveElement, Zenon
  <2>6. Cardinality(R) <= Cardinality(R \ {x}) /\ Cardinality(R) \in Nat
    BY <1>1, <1>4, <2>1, <2>4, Zenon
  <2> QED BY <2>5, <2>6
<1> QED BY <1>4, <1>5, Zenon DEF Cyclic

\* A cycle of committed updaters contains a dangerous structure whose last
\* transaction was the first of the cycle to commit.
LEMMA CycleHasPivot ==
  ASSUME SInv, NEW R \in SUBSET Updaters, R # {},
         \A t \in R : \E u \in R \ {t} : Before(u, t)
  PROVE  FALSE
<1>1. \A t \in R : t \in Txns /\ t \notin scanned /\ committedV[t] # 0 /\ committedV[t] \in Nat
                   /\ startVer[t] \in Nat /\ startVer[t] < committedV[t]
  BY Zenon DEF Updaters, Committed, SInv, TypeOK, VersionsNameWriters
<1> DEFINE vers == {committedV[t] : t \in R}
<1>2. vers \in SUBSET Nat /\ vers # {}
  BY <1>1, Zenon
<1>3. Min(vers) \in vers /\ \A y \in vers : Min(vers) <= y
  BY <1>2, MinNat, Zenon
<1>4. PICK c \in R : \A t \in R : committedV[c] <= committedV[t]
  BY <1>3, ZenonT(60)
<1>5. PICK b \in R \ {c} : Before(b, c)
  BY Zenon
<1>6. committedV[c] < committedV[b]
  <2>1. committedV[c] # committedV[b]
    BY <1>1, <1>5, Zenon DEF SInv, VersionsNameWriters
  <2> QED BY <2>1, <1>1, <1>4, <1>5
<1>7. Rw(b, c)
  <2>1. ~(committedV[b] < committedV[c]) /\ ~(committedV[b] <= startVer[c])
    BY <1>1, <1>5, <1>6
  <2> QED BY <2>1, <1>5, Zenon DEF Before, Rw
<1>8. PICK a \in R \ {b} : Before(a, b)
  BY <1>5, Zenon
<1>9. committedV[c] <= committedV[a] /\ startVer[b] < committedV[c]
  BY <1>1, <1>4, <1>5, <1>7, <1>8, Zenon DEF Rw
<1>10. ~(committedV[a] <= startVer[b])
  BY <1>1, <1>5, <1>8, <1>9, SMTT(30)
<1>11. Rw(a, b)
  <2>1. ~ /\ committedV[a] < committedV[b]
          /\ writes[a] \cap writes[b] # {}
    BY <1>1, <1>5, <1>8, <1>10, Zenon DEF SInv, FirstWins
  <2> QED BY <2>1, <1>8, <1>10, Zenon DEF Before, Rw
<1> QED BY <1>1, <1>4, <1>5, <1>6, <1>7, <1>8, <1>9, <1>11, Zenon DEF SInv, NoPivot

\* The committed transactions that wrote, and read by _id only, can be put in a
\* serial order: CommitSerializable aborts a transaction of every cycle, for
\* any number of transactions and documents and however begins, reads, commits,
\* aborts and prunes interleave.
THEOREM UpdatesAlwaysSerializable == Spec => []UpdatesSerializable
<1>1. SInv => UpdatesSerializable
  <2> SUFFICES ASSUME SInv, NEW S \in SUBSET Updaters, S # {},
                      ~\E t \in S : \A u \in S \ {t} : ~Before(t, u)
               PROVE  FALSE
    BY Zenon DEF UpdatesSerializable, Acyclic, Updaters
  <2>1. Cyclic(S)
    BY Zenon DEF Cyclic
  <2> QED BY <2>1, SmallestCyclic, CycleHasPivot, Zenon
<1> QED BY <1>1, InitSInv, NextSInv, PTL DEF Spec
=============================================================================
