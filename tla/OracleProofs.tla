---------------------------- MODULE OracleProofs ----------------------------
(***************************************************************************)
(* Lemmas about the oracle's operations, for any set of keys.              *)
(***************************************************************************)
EXTENDS Oracle, WellFoundedInduction, SequenceTheorems, TLAPS

\* The oracle's own state: the watermark is exact and the committed-since
\* index holds the commits above it, in order and without a gap.
OracleInv(Keys) ==
  /\ commitVer \in Nat
  /\ DOMAIN live \subseteq 0..commitVer
  /\ live \in [DOMAIN live -> Nat \ {0}]
  /\ minLive = IF DOMAIN live = {} THEN commitVer ELSE Min(DOMAIN live)
  /\ recent \in Seq([commitVer : Nat, writeSet : SUBSET Keys])
  /\ Len(recent) = commitVer - minLive
  /\ \A i \in 1..Len(recent) : recent[i].commitVer = minLive + i

\* A nonempty set of naturals has a least element, and Min returns it.
LEMMA MinNat ==
  ASSUME NEW S \in SUBSET Nat, S # {}
  PROVE  /\ Min(S) \in S
         /\ \A y \in S : Min(S) <= y
<1>1. PICK x \in S : \A y \in S : ~ (<<y, x>> \in OpToRel(<, Nat))
  BY WFMin, NatLessThanWellFounded, Zenon
<1>2. ASSUME NEW y \in S, ~(x <= y)
      PROVE  FALSE
  <2>1. y \in Nat /\ x \in Nat /\ y < x
    BY <1>2
  <2>2. <<y, x>> \in OpToRel(<, Nat)
    BY <2>1, Zenon DEF OpToRel
  <2> QED BY <2>2, <1>1, Zenon
<1> QED BY <1>2, Zenon DEF Min

\* The prefix pruneLocked drops from a gapless index: the entries at or
\* below the watermark.
LEMMA PrunableGapless ==
  ASSUME NEW rec, NEW T, rec \in Seq(T),
         NEW base \in Nat, NEW wm \in Nat, base <= wm, wm <= base + Len(rec),
         \A i \in 1..Len(rec) : rec[i].commitVer = base + i
  PROVE  prunable(rec, wm) = wm - base
<1> DEFINE good(n) == /\ \A i \in 1..n : rec[i].commitVer <= wm
                      /\ n < Len(rec) => rec[n + 1].commitVer > wm
<1>0. Len(rec) \in Nat
  OBVIOUS
<1>1. wm - base \in 0..Len(rec) /\ good(wm - base)
  <2>1. wm - base \in 0..Len(rec)
    BY <1>0
  <2>2. ASSUME NEW i \in 1..(wm - base) PROVE rec[i].commitVer <= wm
    <3>1. i \in 1..Len(rec)
      BY <2>1, <1>0
    <3> QED BY <3>1
  <2>3. ASSUME wm - base < Len(rec) PROVE rec[wm - base + 1].commitVer > wm
    <3>1. wm - base + 1 \in 1..Len(rec)
      BY <2>1, <2>3, <1>0
    <3> QED BY <3>1
  <2> QED BY <2>1, <2>2, <2>3
<1>2. ASSUME NEW n \in 0..Len(rec), good(n)
      PROVE  n = wm - base
  <2>1. CASE n > wm - base
    <3>1. n \in 1..n /\ rec[n].commitVer = base + n
      BY <2>1, <1>0
    <3> QED BY <3>1, <2>1, <1>2
  <2>2. CASE n < wm - base
    <3>1. n < Len(rec) /\ rec[n + 1].commitVer = base + (n + 1)
      BY <2>2, <1>0, SMTT(30)
    <3> QED BY <3>1, <2>2, <1>2
  <2> QED BY <2>1, <2>2, <1>0
<1> QED BY <1>1, <1>2 DEF prunable

\* The watermark of a legal oracle state.
LEMMA MinLiveBounds ==
  ASSUME NEW Keys, OracleInv(Keys)
  PROVE  /\ minLive \in 0..commitVer
         /\ DOMAIN live # {} => minLive \in DOMAIN live
         /\ \A v \in DOMAIN live : minLive <= v
<1>1. CASE DOMAIN live = {}
  BY <1>1 DEF OracleInv
<1>2. CASE DOMAIN live # {}
  <2>1. DOMAIN live \in SUBSET Nat
    BY DEF OracleInv
  <2> QED BY <1>2, <2>1, MinNat, SMTT(30) DEF OracleInv
<1> QED BY <1>1, <1>2, Zenon

\* Taking a snapshot keeps the oracle's state legal and leaves the watermark.
LEMMA AcquireInv ==
  ASSUME NEW Keys, OracleInv(Keys), Acquire
  PROVE  OracleInv(Keys)' /\ minLive' = minLive /\ commitVer' = commitVer
<1>1. /\ commitVer' = commitVer /\ recent' = recent
      /\ minLive' = minLive
      /\ live' = incremented(commitVer)
  BY DEF Acquire, OracleInv
<1>2. /\ DOMAIN live' = DOMAIN live \cup {commitVer}
      /\ live' \in [DOMAIN live' -> Nat \ {0}]
  BY <1>1 DEF incremented, OracleInv
<1>3. minLive = Min(DOMAIN live')
  <2>1. DOMAIN live' \in SUBSET Nat /\ DOMAIN live' # {}
    BY <1>2 DEF OracleInv
  <2>a. /\ minLive \in 0..commitVer
        /\ DOMAIN live # {} => minLive \in DOMAIN live
        /\ \A v \in DOMAIN live : minLive <= v
    BY MinLiveBounds
  <2>2. minLive \in DOMAIN live' /\ \A y \in DOMAIN live' : minLive <= y
    <3>1. CASE DOMAIN live = {}
      BY <3>1, <1>2 DEF OracleInv
    <3>2. CASE DOMAIN live # {}
      BY <3>2, <1>2, <2>a DEF OracleInv
    <3> QED BY <3>1, <3>2, Zenon
  <2>3. Min(DOMAIN live') \in DOMAIN live' /\ \A y \in DOMAIN live' : Min(DOMAIN live') <= y
    BY <2>1, MinNat
  <2>4. minLive \in Nat /\ Min(DOMAIN live') \in Nat
    BY <2>1, <2>2, <2>3
  <2> QED BY <2>2, <2>3, <2>4
<1> QED BY <1>1, <1>2, <1>3 DEF OracleInv

\* Releasing a registered snapshot: counts stay positive, the watermark is
\* exact again and has not gone down.
LEMMA ReleaseLockedInv ==
  ASSUME NEW Keys, OracleInv(Keys), NEW v \in DOMAIN live,
         NEW cv \in Nat, commitVer <= cv, releaseLocked(v, cv)
  PROVE  /\ DOMAIN live' \subseteq DOMAIN live
         /\ live' \in [DOMAIN live' -> Nat \ {0}]
         /\ minLive' = IF DOMAIN live' = {} THEN cv ELSE Min(DOMAIN live')
         /\ minLive' \in minLive..cv
<1>1. /\ live' = decremented(v)
      /\ DOMAIN live' \subseteq DOMAIN live
      /\ DOMAIN live \ {v} \subseteq DOMAIN live'
      /\ live' \in [DOMAIN live' -> Nat \ {0}]
  BY DEF releaseLocked, decremented, OracleInv
<1>2. /\ minLive \in 0..commitVer /\ minLive \in DOMAIN live
      /\ \A y \in DOMAIN live : minLive <= y
      /\ DOMAIN live \in SUBSET Nat /\ commitVer \in Nat
  <2>1. /\ minLive \in 0..commitVer /\ minLive \in DOMAIN live
        /\ \A y \in DOMAIN live : minLive <= y
    BY MinLiveBounds
  <2> QED BY <2>1 DEF OracleInv
<1>3. DOMAIN live' # {} =>
        /\ Min(DOMAIN live') \in DOMAIN live'
        /\ \A y \in DOMAIN live' : Min(DOMAIN live') <= y
  BY <1>1, <1>2, MinNat
<1>4. CASE v # minLive
  <2>1. minLive' = minLive /\ minLive \in DOMAIN live'
    BY <1>1, <1>2, <1>4 DEF releaseLocked
  <2>2. Min(DOMAIN live') \in DOMAIN live /\ Min(DOMAIN live') <= minLive
    BY <2>1, <1>1, <1>3
  <2>3. Min(DOMAIN live') = minLive
    BY <2>2, <1>2
  <2> QED BY <2>1, <2>3, <1>1, <1>2
<1>5. CASE v = minLive
  <2>1. minLive' = IF DOMAIN live' = {} THEN cv ELSE Min(DOMAIN live')
    BY <1>5 DEF releaseLocked
  <2>2. CASE DOMAIN live' = {}
    BY <2>1, <2>2, <1>1, <1>2
  <2>3. CASE DOMAIN live' # {}
    <3>1. Min(DOMAIN live') \in DOMAIN live /\ Min(DOMAIN live') \in Nat
      BY <2>3, <1>1, <1>2, <1>3
    <3>2. minLive <= Min(DOMAIN live') /\ Min(DOMAIN live') <= commitVer
      BY <3>1, <1>2 DEF OracleInv
    <3> QED BY <3>1, <3>2, <2>1, <2>3, <1>1, <1>2
  <2> QED BY <2>2, <2>3, SMTT(30)
<1> QED BY <1>4, <1>5

\* What pruneLocked leaves of an index.
Pruned(rec, wm) == SubSeq(rec, prunable(rec, wm) + 1, Len(rec))

\* An index that starts right above base holds, from right above wm on, out.
Suffix(out, rec, base, wm) ==
  \A i \in 1..Len(out) : wm - base + i \in 1..Len(rec) /\ out[i] = rec[wm - base + i]

\* An index without a gap that starts right above base.
Gapless(rec, base) == \A i \in 1..Len(rec) : rec[i].commitVer = base + i

\* Pruning a gapless index to a watermark leaves exactly the entries above it.
LEMMA PruneGapless ==
  ASSUME NEW T, NEW rec \in Seq(T), NEW base \in Nat,
         NEW wm \in base..(base + Len(rec)),
         Gapless(rec, base), NEW out, out = Pruned(rec, wm)
  PROVE  /\ out \in Seq(T)
         /\ Len(out) = base + Len(rec) - wm
         /\ Suffix(out, rec, base, wm) /\ Gapless(out, wm)
<1>1. Len(rec) \in Nat /\ wm \in Nat /\ base <= wm /\ wm <= base + Len(rec)
  OBVIOUS
<1>2. prunable(rec, wm) = wm - base
  BY <1>1, PrunableGapless DEF Gapless
<1>3. out = SubSeq(rec, wm - base + 1, Len(rec))
  BY <1>2 DEF Pruned
<1>4. out \in Seq(T) /\ Len(out) = base + Len(rec) - wm
  BY <1>1, <1>3
<1>5. ASSUME NEW i \in 1..Len(out)
      PROVE  out[i] = rec[wm - base + i] /\ wm - base + i \in 1..Len(rec)
  <2>1. i \in Nat /\ 1 <= i /\ i <= base + Len(rec) - wm
    BY <1>1, <1>4
  <2> DEFINE m == wm - base + 1
  <2>2. m \in 1..(Len(rec) + 1)
    <3>1. wm - base \in 0..Len(rec)
      BY <1>1
    <3> QED BY <3>1
  <2>3. out = SubSeq(rec, m, Len(rec))
    BY <1>3
  <2> HIDE DEF m
  <2>4. i \in 1..(Len(rec) - m + 1)
    BY <2>1, <1>1 DEF m
  <2>5. out[i] = rec[m + i - 1]
    BY <2>2, <2>3, <2>4, <1>1, SubSeqProperties
  <2>6. m + i - 1 = wm - base + i
    BY <2>1, <1>1 DEF m
  <2>7. wm - base + i \in 1..Len(rec)
    BY <2>1, <1>1
  <2> QED BY <2>5, <2>6, <2>7
<1>6. ASSUME NEW i \in 1..Len(out)
      PROVE  out[i].commitVer = wm + i
  <2>1. out[i].commitVer = base + (wm - base + i)
    BY <1>5, Zenon DEF Gapless
  <2> QED BY <2>1, <1>1
<1> QED BY <1>4, <1>5, <1>6, Zenon DEF Suffix, Gapless

\* Release keeps the oracle's state legal; the watermark does not go down.
LEMMA ReleaseInv ==
  ASSUME NEW Keys, OracleInv(Keys), NEW v \in DOMAIN live, Release(v)
  PROVE  /\ OracleInv(Keys)' /\ minLive' >= minLive /\ minLive' \in Nat
         /\ commitVer' = commitVer
         /\ Suffix(recent', recent, minLive, minLive')
<1> DEFINE Entry == [commitVer : Nat, writeSet : SUBSET Keys]
<1>1. /\ commitVer \in Nat /\ commitVer' = commitVer
      /\ DOMAIN live' \subseteq 0..commitVer
      /\ live' \in [DOMAIN live' -> Nat \ {0}]
      /\ minLive' = IF DOMAIN live' = {} THEN commitVer ELSE Min(DOMAIN live')
      /\ minLive' \in minLive..commitVer
  <2>1. /\ releaseLocked(v, commitVer) /\ commitVer \in Nat /\ DOMAIN live \subseteq 0..commitVer
        /\ commitVer' = commitVer
    BY DEF Release, OracleInv
  <2>2. /\ DOMAIN live' \subseteq DOMAIN live
        /\ live' \in [DOMAIN live' -> Nat \ {0}]
        /\ minLive' = IF DOMAIN live' = {} THEN commitVer ELSE Min(DOMAIN live')
        /\ minLive' \in minLive..(commitVer)
    BY <2>1, ReleaseLockedInv
  <2> QED BY <2>1, <2>2
<1>2. minLive \in Nat /\ recent \in Seq(Entry) /\ Len(recent) = commitVer - minLive
  <2>1. minLive \in 0..commitVer
    BY MinLiveBounds
  <2> QED BY <2>1 DEF OracleInv
<1>3. minLive' \in minLive..(minLive + Len(recent))
  BY <1>1, <1>2
<1>4. /\ recent' \in Seq(Entry)
      /\ Len(recent') = minLive + Len(recent) - minLive'
      /\ Suffix(recent', recent, minLive, minLive') /\ Gapless(recent', minLive')
  <2>1. recent' = Pruned(recent, minLive')
    BY DEF Release, pruneLocked, Pruned
  <2>2. Gapless(recent, minLive)
    BY DEF OracleInv, Gapless
  <2> HIDE DEF Entry
  <2> QED BY <1>2, <1>3, <2>1, <2>2, PruneGapless
<1>5. OracleInv(Keys)'
  BY <1>1, <1>2, <1>4, SMTT(30) DEF OracleInv, Gapless
<1>6. minLive' >= minLive /\ minLive' \in Nat
  BY <1>1, <1>2
<1> QED BY <1>1, <1>4, <1>5, <1>6

\* A successful commit keeps the oracle's state legal, consumes exactly one
\* version, and does not lower the watermark.
LEMMA InstallInv ==
  ASSUME NEW Keys, OracleInv(Keys), NEW v \in DOMAIN live,
         NEW W \in SUBSET Keys, install(v, W)
  PROVE  /\ OracleInv(Keys)' /\ minLive' >= minLive /\ minLive' \in Nat
         /\ commitVer' = commitVer + 1
         /\ Suffix(recent', Append(recent, [commitVer |-> commitVer + 1, writeSet |-> W]),
                   minLive, minLive')
<1> DEFINE Entry == [commitVer : Nat, writeSet : SUBSET Keys]
           rec == Append(recent, [commitVer |-> commitVer + 1, writeSet |-> W])
<1>1. /\ commitVer \in Nat /\ commitVer' = commitVer + 1
      /\ DOMAIN live' \subseteq 0..commitVer
      /\ live' \in [DOMAIN live' -> Nat \ {0}]
      /\ minLive' = IF DOMAIN live' = {} THEN commitVer + 1 ELSE Min(DOMAIN live')
      /\ minLive' \in minLive..(commitVer + 1)
  <2>1. /\ releaseLocked(v, commitVer + 1) /\ commitVer \in Nat /\ DOMAIN live \subseteq 0..commitVer
        /\ commitVer' = commitVer + 1
    BY DEF install, OracleInv
  <2>2. /\ DOMAIN live' \subseteq DOMAIN live
        /\ live' \in [DOMAIN live' -> Nat \ {0}]
        /\ minLive' = IF DOMAIN live' = {} THEN commitVer + 1 ELSE Min(DOMAIN live')
        /\ minLive' \in minLive..(commitVer + 1)
    BY <2>1, ReleaseLockedInv
  <2> QED BY <2>1, <2>2
<1>2. minLive \in Nat /\ recent \in Seq(Entry) /\ Len(recent) = commitVer - minLive
  <2>1. minLive \in 0..commitVer
    BY MinLiveBounds
  <2> QED BY <2>1 DEF OracleInv
<1>3. /\ rec \in Seq(Entry) /\ Len(rec) = commitVer + 1 - minLive
      /\ Gapless(rec, minLive)
  <2>1. rec \in Seq(Entry) /\ Len(rec) = Len(recent) + 1
    BY <1>1, <1>2
  <2>2. \A i \in 1..Len(recent) : rec[i] = recent[i]
    BY <1>2
  <2>3. rec[Len(recent) + 1].commitVer = minLive + (Len(recent) + 1)
    BY <1>1, <1>2
  <2>4. \A i \in 1..Len(rec) : i \in 1..Len(recent) \/ i = Len(recent) + 1
    BY <2>1, <1>2
  <2> QED BY <2>1, <2>2, <2>3, <2>4, <1>1, <1>2, SMTT(30) DEF OracleInv, Gapless
<1>4. minLive' \in minLive..(minLive + Len(rec))
  BY <1>1, <1>2, <1>3
<1>5. recent' = Pruned(rec, minLive')
  BY DEF install, pruneLocked, Pruned
<1> HIDE DEF rec, Entry
<1>6. /\ recent' \in Seq(Entry)
      /\ Len(recent') = minLive + Len(rec) - minLive'
      /\ Suffix(recent', rec, minLive, minLive') /\ Gapless(recent', minLive')
  BY <1>2, <1>3, <1>4, <1>5, PruneGapless, SMTT(30)
<1>7. Len(recent') = commitVer' - minLive' /\ DOMAIN live' \subseteq 0..commitVer'
  <2>1. Len(recent') = minLive + (commitVer + 1 - minLive) - minLive'
    BY <1>3, <1>6
  <2> QED BY <2>1, <1>1, <1>2, SMTT(30)
<1>8. minLive' >= minLive /\ minLive' \in Nat
  BY <1>1, <1>2
<1>9. /\ commitVer' \in Nat
      /\ minLive' = IF DOMAIN live' = {} THEN commitVer' ELSE Min(DOMAIN live')
  BY <1>1
<1>10. OracleInv(Keys)'
  BY <1>1, <1>6, <1>7, <1>9 DEF OracleInv, Gapless, Entry
<1> QED BY <1>1, <1>6, <1>8, <1>10 DEF rec
=============================================================================
