---------------------------- MODULE PagerProofs ----------------------------
(* That the pager keeps what it acknowledged, for any set of pages, any pool *)
(* and any number of transactions, checkpoints, backups and crashes, when    *)
(* Checkpoint, Backup and Close are not called in the middle of a write.     *)
EXTENDS PagerSteps

\* What of a batch of c images, in the order of their LSNs, commitLocked appends.
Appends(order, c, k) ==
  /\ wal' \in Seq(Rec) /\ Len(wal') = Len(wal) + k
  /\ \A i \in 1..Len(wal) : wal'[i] = wal[i]
  /\ \A i \in 1..k : wal'[Len(wal) + i] =
       [page |-> order[i], buf |-> frames[order[i]].buf, marker |-> i = c]

LEMMA AppendsPages ==
  ASSUME NEW order, NEW c, NEW k, Appends(order, c, k), NEW i \in 1..k
  PROVE  wal'[Len(wal) + i].page = order[i]
<1> DEFINE last == i = c
<1>1. wal'[Len(wal) + i] = [page |-> order[i], buf |-> frames[order[i]].buf, marker |-> last]
  BY Zenon DEF Appends
<1> HIDE DEF last
<1> QED BY <1>1

LEMMA UncommittedFinite ==
  ASSUME PagerTypes
  PROVE  /\ uncommitted \subseteq Pages
         /\ Cardinality(uncommitted) \in Nat
         /\ uncommitted # {} => Cardinality(uncommitted) > 0
<1>1. uncommitted \subseteq Pages
  BY Zenon DEF PagerTypes, uncommitted
<1>2. IsFiniteSet(uncommitted)
  BY <1>1, PagerAssumption, FS_Subset, Zenon
<1>3. Cardinality(uncommitted) \in Nat
  BY <1>2, FS_CardinalityType, Zenon
<1>4. Cardinality(uncommitted) = 0 <=> uncommitted = {}
  BY <1>2, FS_EmptySet, Zenon
<1> QED BY <1>1, <1>3, <1>4

LEMMA CommitAppends ==
  ASSUME PInv, commitLocked
  PROVE  \E order \in lsnOrders :
           \/ /\ Appends(order, Cardinality(uncommitted), Cardinality(uncommitted))
              /\ pc' = "walSync" /\ hand' = hand /\ failed' = failed
           \/ /\ \E k \in 0..Cardinality(uncommitted) - 1 :
                   Appends(order, Cardinality(uncommitted), k)
              /\ pc' = pc /\ hand' = Idle /\ failed' = TRUE
<1> DEFINE c == Cardinality(uncommitted)
<1>1. PagerTypes /\ wal \in Seq(Rec) /\ c \in Nat
  BY UncommittedFinite, Zenon DEF PInv, PagerTypes
<1>2. PICK order \in lsnOrders :
        \/ wal' = wal \o batch(order) /\ pc' = "walSync" /\ UNCHANGED <<hand, failed>>
        \/ /\ \E n \in 0..Len(batch(order)) - 1 : wal' = wal \o SubSeq(batch(order), 1, n)
           /\ hand' = Idle /\ failed' = TRUE /\ pc' = pc
  BY Zenon DEF commitLocked
<1> DEFINE b == batch(order)
<1>3. \A i \in 1..c : order[i] \in uncommitted
  BY <1>2, Zenon DEF lsnOrders, Bijection, Injection
<1>4. \A q \in uncommitted : q \in Pages /\ frames[q].buf \in Txns
  BY <1>1, Zenon DEF uncommitted, PagerTypes
<1>5. b \in [1..c -> Rec]
  <2>1. \A i \in 1..c : [page |-> order[i], buf |-> frames[order[i]].buf, marker |-> i = c] \in Rec
    BY <1>3, <1>4, Zenon DEF Rec
  <2> QED BY <2>1, Zenon DEF batch
<1>6. b \in Seq(Rec) /\ Len(b) = c
  BY <1>1, <1>5
<1>7. \A i \in 1..c : b[i] = [page |-> order[i], buf |-> frames[order[i]].buf, marker |-> i = c]
  BY Zenon DEF batch
<1> HIDE DEF b, c
<1>8. ASSUME wal' = wal \o b
      PROVE  Appends(order, c, c)
  <2>1. wal' \in Seq(Rec) /\ Len(wal') = Len(wal) + c
    BY <1>1, <1>6, <1>8, ConcatProperties, Zenon
  <2>2. \A i \in 1..Len(wal) : wal'[i] = wal[i]
    BY <1>1, <1>6, <1>8, ConcatProperties
  <2>3. \A i \in 1..c : wal'[Len(wal) + i] = b[i]
    BY <1>1, <1>6, <1>8, ConcatProperties
  <2> QED BY <2>1, <2>2, <2>3, <1>7, Zenon DEF Appends
<1>9. ASSUME NEW n \in 0..c - 1, wal' = wal \o SubSeq(b, 1, n)
      PROVE  Appends(order, c, n)
  <2>0. n \in Nat /\ n <= c
    BY <1>1
  <2>1. SubSeq(b, 1, n) \in Seq(Rec) /\ Len(SubSeq(b, 1, n)) = n /\ \A i \in 1..n : SubSeq(b, 1, n)[i] = b[i]
    BY <1>1, <1>6, <2>0
  <2>2. wal' \in Seq(Rec) /\ Len(wal') = Len(wal) + n
    BY <1>1, <1>9, <2>0, <2>1, ConcatProperties, Zenon
  <2>3. \A i \in 1..Len(wal) : wal'[i] = wal[i]
    BY <1>1, <1>9, <2>0, <2>1, ConcatProperties
  <2>4. \A i \in 1..n : wal'[Len(wal) + i] = b[i]
    BY <1>1, <1>9, <2>0, <2>1, ConcatProperties
  <2>5. \A i \in 1..n : i \in 1..c
    BY <1>1, <2>0
  <2> QED BY <2>2, <2>3, <2>4, <2>5, <1>7, Zenon DEF Appends
<1> QED BY <1>2, <1>6, <1>8, <1>9, Zenon DEF b, c

\* What commitLocked leaves of frames and pages: it only seals.
LEMMA CommitSeals ==
  ASSUME PInv, commitLocked
  PROVE  /\ resident' = resident /\ frames' = [q \in resident |-> frames'[q]]
         /\ \A q \in resident :
              /\ frames'[q] \in [buf : Txns, sealed : BOOLEAN, dirty : BOOLEAN, lsn : 0..nextLSN]
              /\ frames'[q].buf = frames[q].buf /\ frames'[q].dirty = frames[q].dirty
              /\ frames'[q].lsn = frames[q].lsn
              /\ frames[q].sealed \/ q \in uncommitted => frames'[q].sealed
         /\ uncommitted' = uncommitted /\ toFold' = toFold
         /\ View' = View /\ \A q \in Pages : view(q)' = view(q)
<1>1. /\ PagerTypes
      /\ frames' = [p \in resident |-> [frames[p] EXCEPT !.sealed = @ \/ p \in uncommitted]]
      /\ UNCHANGED <<nextLSN, walFlushedLSN, file>>
  BY Zenon DEF PInv, commitLocked, diskVars
<1>2. resident' = resident /\ frames' = [q \in resident |-> frames'[q]]
  BY <1>1, Zenon DEF resident
<1>3. ASSUME NEW q \in resident
      PROVE  /\ frames'[q] \in [buf : Txns, sealed : BOOLEAN, dirty : BOOLEAN, lsn : 0..nextLSN]
             /\ frames'[q].buf = frames[q].buf /\ frames'[q].dirty = frames[q].dirty
             /\ frames'[q].lsn = frames[q].lsn
             /\ frames[q].sealed \/ q \in uncommitted => frames'[q].sealed
  <2> DEFINE s == frames[q].sealed \/ q \in uncommitted
  <2>1. frames[q] \in [buf : Txns, sealed : BOOLEAN, dirty : BOOLEAN, lsn : 0..nextLSN]
    BY <1>1, Zenon DEF PagerTypes
  <2>2. frames'[q] = [frames[q] EXCEPT !.sealed = s]
    BY <1>1, Zenon
  <2>3. s \in BOOLEAN
    BY Zenon
  <2> HIDE DEF s
  <2>4. /\ frames'[q] \in [buf : Txns, sealed : BOOLEAN, dirty : BOOLEAN, lsn : 0..nextLSN]
        /\ frames'[q].buf = frames[q].buf /\ frames'[q].dirty = frames[q].dirty
        /\ frames'[q].lsn = frames[q].lsn /\ frames'[q].sealed = s
    BY <2>1, <2>2, <2>3, Zenon
  <2> QED BY <2>4, Zenon DEF s
<1>4. uncommitted' = uncommitted /\ toFold' = toFold
  BY <1>1, <1>2, <1>3 DEF uncommitted, toFold
<1>5. View' = View /\ \A q \in Pages : view(q)' = view(q)
  BY <1>1, <1>2, <1>3 DEF View, view
<1> QED BY <1>2, <1>3, <1>4, <1>5, Zenon

\* The frames appended are of uncommitted pages, with their present bytes, and
\* only the last of the batch carries a marker.
LEMMA AppendedFrames ==
  ASSUME PInv, pc = "free", NEW order \in lsnOrders,
         NEW k \in 0..Cardinality(uncommitted), Appends(order, Cardinality(uncommitted), k)
  PROVE  /\ Len(wal) \in Nat /\ Len(wal') \in Nat /\ Len(wal') = Len(wal) + k
         /\ \A i \in 1..Len(wal) : wal'[i] = wal[i]
         /\ \A i \in 1..Len(wal') : i > Len(wal) =>
              /\ wal'[i].page \in uncommitted /\ wal'[i].buf = view(wal'[i].page)
              /\ wal'[i].marker <=> i = Len(wal) + Cardinality(uncommitted)
         /\ \A i \in 1..Len(wal') : wal'[i].buf <= view(wal'[i].page) /\ wal'[i].buf <= txn
         /\ \A i, j \in 1..Len(wal') :
              i <= j /\ wal'[i].page = wal'[j].page => wal'[i].buf <= wal'[j].buf
<1> DEFINE c == Cardinality(uncommitted)
<1>1. PagerTypes /\ Newer /\ Logs /\ c \in Nat
  BY UncommittedFinite, Zenon DEF PInv
<1>2. Len(wal) \in Nat /\ Len(wal') = Len(wal) + k /\ k \in Nat
  BY <1>1, WalTyped DEF Appends
<1>3. \A i \in 1..Len(wal) : wal'[i] = wal[i]
  BY Zenon DEF Appends
<1>4. ASSUME NEW i \in 1..Len(wal'), i > Len(wal)
      PROVE  /\ wal'[i].page \in uncommitted /\ wal'[i].buf = view(wal'[i].page)
             /\ wal'[i].marker <=> i = Len(wal) + c
  <2> DEFINE d == i - Len(wal)
             last == d = c
  <2>1. d \in 1..k /\ d \in 1..c /\ i = Len(wal) + d
    BY <1>1, <1>2, <1>4
  <2>2. wal'[i] = [page |-> order[d], buf |-> frames[order[d]].buf, marker |-> last]
    BY <2>1, Zenon DEF Appends
  <2>3. order[d] \in uncommitted /\ order[d] \in resident
    BY <2>1, Zenon DEF lsnOrders, Bijection, Injection, uncommitted
  <2>4. last <=> i = Len(wal) + c
    BY <1>1, <1>2, <2>1
  <2>5. /\ wal'[i].page = order[d] /\ wal'[i].buf = frames[order[d]].buf
        /\ wal'[i].marker = last
    <3> HIDE DEF d, last
    <3> QED BY <2>2
  <2>6. view(order[d]) = frames[order[d]].buf
    BY <2>3, Zenon DEF view
  <2> HIDE DEF c, d, last
  <2> QED BY <2>3, <2>4, <2>5, <2>6, Zenon
<1>5. \A q \in uncommitted : q \in Pages /\ view(q) <= txn /\ view(q) \in Nat
  BY <1>1, PagerAssumption DEF Newer, uncommitted, PagerTypes, view, Txns
<1>6. ASSUME NEW i \in 1..Len(wal')
      PROVE  wal'[i].buf <= view(wal'[i].page) /\ wal'[i].buf <= txn
  <2>1. CASE i \in 1..Len(wal)
    BY <1>1, <1>3, <2>1, Zenon DEF Newer
  <2>2. CASE i > Len(wal)
    BY <1>4, <1>5, <2>2
  <2> QED BY <1>2, <2>1, <2>2
<1>7. ASSUME NEW i \in 1..Len(wal'), NEW j \in 1..Len(wal'), i <= j, wal'[i].page = wal'[j].page
      PROVE  wal'[i].buf <= wal'[j].buf
  <2>1. CASE j \in 1..Len(wal)
    <3>1. i \in 1..Len(wal) /\ Len(wal) \in walSynced..Len(wal)
      BY <1>1, <1>2, <1>7, <2>1, WalTyped DEF PagerTypes
    <3>2. Ordered(wal, Len(wal))
      BY <1>1, <3>1, Zenon DEF Logs, Recoverable
    <3> QED BY <1>3, <1>7, <2>1, <3>1, <3>2, Zenon DEF Ordered
  <2>2. CASE j > Len(wal)
    BY <1>4, <1>6, <1>7, <2>2, Zenon
  <2> QED BY <1>2, <2>1, <2>2
<1> QED BY <1>2, <1>3, <1>4, <1>6, <1>7

\* The part of the invariant that does not depend on how much was appended.
LEMMA CommitCommon ==
  ASSUME PInv, commitLocked, NEW order \in lsnOrders,
         NEW k \in 0..Cardinality(uncommitted), Appends(order, Cardinality(uncommitted), k),
         hand' \in {Idle, Applying}, pc' \in {"free", "walSync"},
         pc' = "walSync" => hand' = Applying,
         failed' \in BOOLEAN, failed => failed', hand' = Idle => failed'
  PROVE  /\ PagerTypes' /\ Phases' /\ Cached' /\ Newer' /\ Served' /\ Copied'
         /\ \A n \in walSynced..Len(wal') : n < Len(wal) + Cardinality(uncommitted) =>
              Recoverable(wal', n, main, unsynced, acked, attempts', failed')
         /\ \A q \in Pages \ uncommitted :
              Ends(wal, q, view(q), main[q], unsynced[q]) =>
                Ends(wal', q, view(q), main[q], unsynced[q])
<1> DEFINE c == Cardinality(uncommitted)
<1>1. /\ PagerTypes /\ Phases /\ Cached /\ Newer /\ Logs /\ Served /\ Copied
      /\ pc = "free" /\ hand = Applying /\ attempts' = attempts \cup {View} /\ wal' \in Seq(Rec)
      /\ c \in Nat
  BY UncommittedFinite, Zenon DEF PInv, commitLocked, Appends
<1>2. /\ UNCHANGED <<after, nextLSN, walFlushedLSN, walSynced, walOld, backup>>
      /\ UNCHANGED <<file, main, unsynced, txn, acked>>
  BY Zenon DEF commitLocked, diskVars
<1>3. /\ Len(wal) \in Nat /\ Len(wal') \in Nat /\ Len(wal') = Len(wal) + k
      /\ walSynced \in 0..Len(wal) /\ walSynced \in 0..Len(wal')
  BY <1>1, AppendedFrames DEF PagerTypes
<1>4. \A q : ~mutating(q) /\ ~mutating(q)'
  BY <1>1 DEF mutating, Applying, Idle
<1>5. \A q : Images(wal', walSynced, q) = Images(wal, walSynced, q)
  <2>1. \A i \in 1..walSynced : wal'[i] = wal[i]
    BY <1>1, <1>3, AppendedFrames
  <2> QED BY <2>1 DEF Images
<1>6. PagerTypes'
  <2>1. View \in [Pages -> Txns]
    <3>1. \A q \in Pages : file[q] \in Txns
      BY <1>1, Zenon DEF PagerTypes, Cached, Contents
    <3>2. \A q \in resident : frames[q].buf \in Txns
      BY <1>1, Zenon DEF PagerTypes
    <3> QED BY <3>1, <3>2, Zenon DEF View
  <2>2. hand' \in [busy : BOOLEAN, page : SUBSET Pages, mutated : BOOLEAN]
    BY HandTyped, Zenon
  <2>3. attempts' \subseteq [Pages -> Txns]
    BY <1>1, <2>1, Zenon DEF PagerTypes
  <2> QED BY <1>1, <1>2, <1>3, <2>2, <2>3, CommitSeals, Zenon DEF PagerTypes
<1>7. Phases'
  BY DEF Phases, Idle, Applying
<1>8. Cached'
  <2>1. \A q \in resident' : ~frames'[q].dirty => frames'[q].buf = file'[q]
    BY <1>1, <1>2, <1>4, CommitSeals, Zenon DEF Cached
  <2>2. \A q \in toFold' : /\ frames'[q].sealed
                           /\ \E i \in Images(wal', walSynced, q) : wal'[i].buf = frames'[q].buf
    <3> SUFFICES ASSUME NEW q \in toFold
                 PROVE  /\ frames'[q].sealed
                        /\ \E i \in Images(wal', walSynced, q) : wal'[i].buf = frames'[q].buf
      BY CommitSeals, Zenon
    <3>1. q \in resident /\ frames[q].sealed
      BY <1>1, <1>4, Zenon DEF Cached, toFold
    <3>2. PICK i \in Images(wal, walSynced, q) : wal[i].buf = frames[q].buf
      BY <1>1, <1>4, Zenon DEF Cached
    <3>3. i \in 1..Len(wal)
      BY <1>3, <3>2 DEF Images
    <3>4. wal'[i] = wal[i]
      BY <1>1, <3>3, AppendedFrames, Zenon
    <3> QED BY <1>5, <3>1, <3>2, <3>4, CommitSeals, Zenon
  <2>3. \A q \in Pages :
          /\ unsynced[q] = {} => file[q] = main[q]
          /\ file[q] \in unsynced[q] \cup {main[q]}
          /\ unsynced[q] # {} \/ main[q] = Torn => Images(wal', walSynced, q) # {}
          /\ file[q] # Torn
    BY <1>1, <1>5, Zenon DEF Cached
  <2> QED BY <1>2, <2>1, <2>2, <2>3, Zenon DEF Cached
<1>9. Newer'
  <2>1. \A q \in Pages : \A i \in Images(wal', walSynced, q) : wal'[i].buf <= acked[q]
    <3> SUFFICES ASSUME NEW q \in Pages, NEW i \in Images(wal, walSynced, q)
                 PROVE  wal'[i].buf <= acked[q]
      BY <1>5, Zenon
    <3>1. i \in 1..Len(wal) /\ wal[i].buf <= acked[q]
      BY <1>1, <1>3 DEF Images, Newer
    <3> QED BY <1>1, <3>1, AppendedFrames, Zenon
  <2>2. \A i \in 1..Len(wal') : wal'[i].buf <= txn /\ wal'[i].buf <= view(wal[i].page)'
    <3> SUFFICES ASSUME NEW i \in 1..Len(wal')
                 PROVE  wal'[i].buf <= txn /\ wal'[i].buf <= view(wal[i].page)'
      BY Zenon
    <3>1. wal'[i].page \in Pages
      BY <1>1, LogTyped, Zenon
    <3>2. \A q \in Pages : q = wal'[i].page => view(wal[i].page)' = view(q)
      BY CommitSeals, Zenon DEF view
    <3> QED BY <1>1, <3>1, <3>2, AppendedFrames, Zenon
  <2>3. \A q \in Pages : view(q)' = view(q)
    BY CommitSeals, Zenon
  <2> QED BY <1>1, <1>2, <2>1, <2>2, <2>3, Zenon DEF Newer
<1>10. Served'
  <2>1. ASSUME NEW q \in Pages, Replays(wal, walSynced, q, acked[q], main[q], unsynced[q])
        PROVE  Replays(wal', walSynced, q, acked[q], main[q], unsynced[q])
    <3>1. \A i \in 1..walSynced : wal'[i] = wal[i]
      BY <1>1, <1>3, AppendedFrames
    <3> QED BY <1>5, <2>1, <3>1 DEF Replays, LastImage
  <2> QED BY <1>1, <1>2, <1>4, <2>1, CommitSeals, Zenon DEF Served
<1>11. Copied'
  BY <1>1, <1>2, Zenon DEF Copied
<1>12. ASSUME NEW n \in walSynced..Len(wal'), n < Len(wal) + c
       PROVE  Recoverable(wal', n, main, unsynced, acked, attempts', failed')
  <2>0. n \in Nat
    BY <1>3
  <2>1. ASSUME NEW l \in walSynced..Len(wal)
        PROVE  l \in Nat /\ Recoverable(wal', l, main, unsynced, acked, attempts', failed')
    <3>1. l \in Nat /\ \A i \in 1..l : wal'[i] = wal[i]
      BY <1>1, <1>3, AppendedFrames
    <3>2. Recoverable(wal, l, main, unsynced, acked, attempts, failed)
      BY <1>1, Zenon DEF Logs
    <3>3. Recoverable(wal', l, main, unsynced, acked, attempts, failed)
      BY <3>1, <3>2, RecoverableAgree, Zenon
    <3> QED BY <1>1, <3>1, <3>3, RecoverableMore
  <2>2. CASE n <= Len(wal)
    BY <1>3, <2>1, <2>2
  <2>3. CASE n > Len(wal)
    <3>1. /\ Len(wal) \in walSynced..Len(wal) /\ Len(wal) <= n
          /\ \A i \in 1..n : i \in 1..Len(wal')
      BY <1>3, <2>3
    <3>2. \A i \in 1..n : i > Len(wal) => i # Len(wal) + c
      BY <1>1, <1>3, <1>12, <2>0
    <3>3. \A i \in 1..n : i > Len(wal) => ~wal'[i].marker
      BY <1>1, <3>1, <3>2, AppendedFrames, Zenon
    <3>4. \A i, j \in 1..n : i <= j /\ wal'[i].page = wal'[j].page => wal'[i].buf <= wal'[j].buf
      BY <1>1, <3>1, AppendedFrames, Zenon
    <3> QED BY <1>3, <2>0, <2>1, <3>1, <3>3, <3>4, RecoverableStop, Zenon
  <2> QED BY <1>3, <2>0, <2>2, <2>3
<1>13. ASSUME NEW q \in Pages \ uncommitted, Ends(wal, q, view(q), main[q], unsynced[q])
       PROVE  Ends(wal', q, view(q), main[q], unsynced[q])
  <2>1. \A i \in 1..Len(wal') : i \in 1..Len(wal) \/ wal'[i].page # q
    <3>1. \A i \in 1..Len(wal') : i > Len(wal) => wal'[i].page \in uncommitted
      BY <1>1, AppendedFrames, Zenon
    <3> QED BY <1>3, <3>1
  <2>2. \A i \in 1..Len(wal) : wal'[i] = wal[i] /\ i \in 1..Len(wal')
    BY <1>1, <1>3, AppendedFrames
  <2> QED BY <1>13, <2>1, <2>2, Zenon DEF Ends
<1> QED BY <1>6, <1>7, <1>8, <1>9, <1>10, <1>11, <1>12, <1>13, Zenon

LEMMA CommitKeeps ==
  ASSUME PInv, commitLocked
  PROVE  PInv'
<1> DEFINE c == Cardinality(uncommitted)
<1>1. /\ PagerTypes /\ Newer /\ Logs /\ pc = "free" /\ hand = Applying
      /\ uncommitted # {} /\ attempts' = attempts \cup {View} /\ c \in Nat /\ c > 0
      /\ uncommitted \subseteq Pages
  BY UncommittedFinite, Zenon DEF PInv, commitLocked
<1>2. UNCHANGED <<main, unsynced, txn, acked, walSynced, walOld>>
  BY Zenon DEF commitLocked, diskVars
<1>3. \A q : ~mutating(q)
  BY <1>1, Zenon DEF mutating, Applying
<1>4. PICK order \in lsnOrders :
        \/ Appends(order, c, c) /\ pc' = "walSync" /\ hand' = hand /\ failed' = failed
        \/ /\ \E k \in 0..c - 1 : Appends(order, c, k)
           /\ pc' = pc /\ hand' = Idle /\ failed' = TRUE
  BY CommitAppends, Zenon
<1>5. ASSUME NEW k \in 0..c - 1, Appends(order, c, k), pc' = pc, hand' = Idle, failed' = TRUE
      PROVE  PInv'
  <2>1. k \in 0..c /\ k < c
    BY <1>1
  <2>2. /\ PagerTypes' /\ Phases' /\ Cached' /\ Newer' /\ Served' /\ Copied'
        /\ \A n \in walSynced..Len(wal') : n < Len(wal) + c =>
             Recoverable(wal', n, main, unsynced, acked, attempts', failed')
        /\ \A q \in Pages \ uncommitted :
             Ends(wal, q, view(q), main[q], unsynced[q]) =>
               Ends(wal', q, view(q), main[q], unsynced[q])
    BY <1>1, <1>5, <2>1, CommitCommon, Zenon
  <2>3. Len(wal) \in Nat /\ Len(wal') = Len(wal) + k
    BY <1>1, <1>5, <2>1, AppendedFrames, Zenon
  <2>4. \A n \in walSynced..Len(wal') : n < Len(wal) + c
    BY <1>1, <2>1, <2>3, WalTyped
  <2>5. Logs'
    <3>1. \A n \in walSynced..Len(wal') : Recoverable(wal', n, main, unsynced, acked, attempts', failed')
      BY <2>2, <2>4, Zenon
    <3>2. \A q \in Pages \ uncommitted : Ends(wal', q, view(q), main[q], unsynced[q])
      BY <1>1, <1>3, <2>2, Zenon DEF Logs
    <3> QED BY <1>1, <1>2, <1>5, <3>1, <3>2, CommitSeals, Zenon DEF Logs
  <2>6. Syncing'
    BY <1>1, <1>5, Zenon DEF Syncing
  <2> QED BY <2>2, <2>5, <2>6, Zenon DEF PInv
<1>6. ASSUME Appends(order, c, c), pc' = "walSync", hand' = hand, failed' = failed
      PROVE  PInv'
  <2>1. c \in 0..c
    BY <1>1
  <2>2. /\ PagerTypes' /\ Phases' /\ Cached' /\ Newer' /\ Served' /\ Copied'
        /\ \A n \in walSynced..Len(wal') : n < Len(wal) + c =>
             Recoverable(wal', n, main, unsynced, acked, attempts', failed')
        /\ \A q \in Pages \ uncommitted :
             Ends(wal, q, view(q), main[q], unsynced[q]) =>
               Ends(wal', q, view(q), main[q], unsynced[q])
    <3>1. failed' \in BOOLEAN /\ hand' # Idle
      BY <1>1, <1>6, Zenon DEF PagerTypes, Applying, Idle
    <3> QED BY <1>1, <1>6, <2>1, <3>1, CommitCommon, Zenon
  <2>3. Len(wal) \in Nat /\ Len(wal') = Len(wal) + c /\ Len(wal') \in Nat /\ Len(wal') > 0
    BY <1>1, <1>6, <2>1, AppendedFrames
  <2>4. wal'[Len(wal')].marker
    <3>1. Len(wal') \in 1..Len(wal') /\ Len(wal') > Len(wal)
      BY <1>1, <2>3
    <3> QED BY <1>1, <1>6, <2>1, <2>3, <3>1, AppendedFrames, Zenon
  <2>5. ASSUME NEW q \in uncommitted
        PROVE  \E i \in 1..Len(wal') :
                 /\ wal'[i].page = q /\ wal'[i].buf = view(q)
                 /\ \A j \in 1..Len(wal') : wal'[j].page = q => j <= i
    <3>1. PICK d \in 1..c : order[d] = q
      BY Zenon DEF lsnOrders, Bijection, Surjection
    <3>2. Len(wal) + d \in 1..Len(wal') /\ Len(wal) + d > Len(wal)
      BY <1>1, <2>3
    <3>3. wal'[Len(wal) + d].page = q
      BY <1>6, <3>1, AppendsPages, Zenon
    <3>4. wal'[Len(wal) + d].buf = view(q)
      BY <1>1, <1>6, <2>1, <3>2, <3>3, AppendedFrames, Zenon
    <3>5. ASSUME NEW j \in 1..Len(wal'), wal'[j].page = q
          PROVE  j <= Len(wal) + d
      <4>1. CASE j <= Len(wal)
        BY <1>1, <2>3, <4>1
      <4>2. CASE j > Len(wal)
        <5> DEFINE e == j - Len(wal)
        <5>1. e \in 1..c /\ j = Len(wal) + e
          BY <1>1, <2>3, <4>2
        <5>2. wal'[j].page = order[e]
          BY <1>6, <5>1, AppendsPages, ZenonT(30)
        <5>3. order[e] = order[d]
          BY <3>1, <3>5, <5>2, Zenon
        <5>4. e = d
          BY <3>1, <5>1, <5>3, Zenon DEF lsnOrders, Bijection, Injection, IsInjective
        <5> QED BY <5>1, <5>4
      <4> QED BY <1>1, <2>3, <4>1, <4>2
    <3> QED BY <3>2, <3>3, <3>4, <3>5, Zenon
  <2>6. \A q \in Pages : Ends(wal', q, view(q), main[q], unsynced[q])
    <3>1. ASSUME NEW q \in uncommitted
          PROVE  Ends(wal', q, view(q), main[q], unsynced[q])
      BY <2>5, Zenon DEF Ends
    <3>2. \A q \in Pages \ uncommitted : Ends(wal', q, view(q), main[q], unsynced[q])
      BY <1>1, <1>3, <2>2, Zenon DEF Logs
    <3> QED BY <3>1, <3>2, Zenon
  <2>7. Recoverable(wal', Len(wal'), main, unsynced, acked, attempts', failed')
    <3>1. \A q \in Pages : View[q] = view(q)
      BY Zenon DEF View, view
    <3>2. \A q \in Pages : /\ Ends(wal', q, View[q], main[q], unsynced[q])
                           /\ main[q] <= View[q] /\ \A b \in unsynced[q] : b <= View[q]
      BY <1>1, <2>6, <3>1, Zenon DEF Newer
    <3>3. \A i, j \in 1..Len(wal') : i <= j /\ wal'[i].page = wal'[j].page => wal'[i].buf <= wal'[j].buf
      BY <1>1, <1>6, <2>1, AppendedFrames, Zenon
    <3>4. /\ Ordered(wal', Len(wal')) /\ Covers(wal', Len(wal'), main, unsynced)
          /\ \A p \in Pages : Replays(wal', Len(wal'), p, View[p], main[p], unsynced[p])
      BY <2>3, <2>4, <3>2, <3>3, RecoverableWhole, Zenon
    <3> QED BY <1>1, <3>4, Zenon DEF Recoverable, Sound
  <2>8. Logs'
    <3>1. \A n \in walSynced..Len(wal') : n < Len(wal) + c \/ n = Len(wal')
      BY <1>1, <2>3, WalTyped
    <3>2. \A n \in walSynced..Len(wal') : Recoverable(wal', n, main, unsynced, acked, attempts', failed')
      BY <2>2, <2>7, <3>1, Zenon
    <3> QED BY <1>2, <1>6, <3>2, Zenon DEF Logs
  <2>9. \E p \in uncommitted : \A q \in uncommitted : frames[q].lsn <= frames[p].lsn
    <3>1. order[c] \in uncommitted /\ \A q \in uncommitted : \E d \in 1..c : order[d] = q
      BY <1>1 DEF lsnOrders, Bijection, Surjection, Injection
    <3>2. \A d \in 1..c : d < c => frames[order[d]].lsn < frames[order[c]].lsn
      BY <1>1 DEF lsnOrders, Bijection, Injection
    <3>3. \A q \in uncommitted : frames[q].lsn \in Nat
      BY <1>1 DEF uncommitted, PagerTypes
    <3>4. ASSUME NEW q \in uncommitted
          PROVE  frames[q].lsn <= frames[order[c]].lsn
      <4>1. PICK d \in 1..c : order[d] = q
        BY <3>1, Zenon
      <4>2. d < c \/ d = c
        BY <1>1
      <4> QED BY <3>1, <3>2, <3>3, <4>1, <4>2
    <3> QED BY <3>1, <3>4, Zenon
  <2>10. Syncing'
    <3>1. View' \in attempts'
      BY <1>1, CommitSeals, Zenon
    <3>2. \A q \in uncommitted : frames'[q].lsn = frames[q].lsn /\ frames'[q].sealed
      BY CommitSeals, Zenon DEF uncommitted
    <3>3. \A q \in uncommitted : \E i \in 1..Len(wal') : wal'[i].page = q
      BY <2>5, Zenon
    <3>4. \A q \in Pages : Ends(wal', q, view(q)', main'[q], unsynced'[q])
      BY <1>2, <2>6, CommitSeals, Zenon
    <3>5. uncommitted' = uncommitted
      BY CommitSeals, Zenon
    <3> QED BY <2>3, <2>4, <2>9, <3>1, <3>2, <3>3, <3>4, <3>5, Zenon DEF Syncing
  <2> QED BY <2>2, <2>8, <2>10, Zenon DEF PInv
<1> QED BY <1>4, <1>5, <1>6, Zenon

LEMMA MaxOf ==
  ASSUME NEW S, NEW m \in S, \A y \in S : m >= y
  PROVE  Max(S) \in S /\ \A y \in S : Max(S) >= y
BY Zenon DEF Max

\* A commit fsync that succeeds makes everything durable and clean of debts.
LEMMA SyncWALKeeps ==
  ASSUME PInv, syncWAL
  PROVE  PInv'
<1>1. /\ PagerTypes /\ Phases /\ Cached /\ Newer /\ Logs /\ Syncing /\ Served /\ Copied
      /\ pc = "walSync" /\ hand' = Idle
  BY Zenon DEF PInv, syncWAL
<1>2. UNCHANGED <<frames, nextLSN, wal, walOld, file, main, unsynced, txn, backup>>
  BY Zenon DEF syncWAL, diskVars
<1>3. hand = Applying
  BY <1>1, Zenon DEF Phases
<1>4. \A q : ~mutating(q) /\ ~mutating(q)'
  BY <1>1, <1>3, Zenon DEF mutating, Applying, Idle
<1>5. /\ resident' = resident /\ View' = View /\ \A q : view(q)' = view(q)
      /\ \A q \in Pages : View[q] = view(q)
  BY <1>2, Zenon DEF resident, View, view
<1>6. CASE /\ pc' = "free" /\ failed' = TRUE
           /\ UNCHANGED <<walSynced, walFlushedLSN, acked, attempts, after>>
  <2>1. uncommitted' = uncommitted /\ toFold' = toFold
    BY <1>2, <1>5, <1>6, Zenon DEF uncommitted, toFold
  <2>2. PagerTypes'
    BY <1>1, <1>2, <1>5, <1>6, HandTyped, Zenon DEF PagerTypes
  <2>3. Phases'
    BY <1>1, <1>6, Zenon DEF Phases, Idle
  <2>4. Cached'
    BY <1>1, <1>2, <1>4, <1>5, <1>6, <2>1 DEF Cached, Images
  <2>5. Newer'
    BY <1>1, <1>2, <1>5, <1>6, Zenon DEF Newer, Images
  <2>6. Logs'
    <3>1. \A n \in walSynced..Len(wal) : Recoverable(wal, n, main, unsynced, acked, attempts, failed')
      BY <1>1, <1>6, RecoverableMore, Zenon DEF Logs
    <3> QED BY <1>1, <1>2, <1>5, <1>6, <3>1, Zenon DEF Logs, Syncing
  <2>7. Syncing' /\ Served' /\ Copied'
    BY <1>1, <1>2, <1>6, Zenon DEF Syncing, Served, Copied
  <2> QED BY <2>2, <2>3, <2>4, <2>5, <2>6, <2>7, Zenon DEF PInv
<1>7. CASE /\ walSynced' = Len(wal) /\ walFlushedLSN' = Max({frames[p].lsn : p \in uncommitted})
           /\ acked' = View /\ attempts' = {} /\ pc' = IF autoCheckpoint THEN "ckpt" ELSE "free"
           /\ after' = "open" /\ UNCHANGED failed
  <2> DEFINE lsns == {frames[p].lsn : p \in uncommitted}
  <2>1. /\ Len(wal) \in Nat /\ Len(wal) > 0 /\ wal[Len(wal)].marker /\ walSynced \in 0..Len(wal)
        /\ \A q \in Pages : Ends(wal, q, view(q), main[q], unsynced[q])
        /\ \A q \in uncommitted : frames[q].sealed /\ \E i \in 1..Len(wal) : wal[i].page = q
    BY <1>1, WalTyped, Zenon DEF Syncing, PagerTypes
  <2>2. \A q \in resident : q \in Pages /\ frames[q].lsn \in 0..nextLSN /\ frames[q].dirty \in BOOLEAN
    BY <1>1, Zenon DEF PagerTypes
  <2>3. Max(lsns) \in lsns /\ \A y \in lsns : Max(lsns) >= y
    <3>1. PICK p \in uncommitted : \A q \in uncommitted : frames[q].lsn <= frames[p].lsn
      BY <1>1, Zenon DEF Syncing
    <3>2. frames[p].lsn \in lsns /\ \A y \in lsns : frames[p].lsn >= y
      BY <2>2, <3>1, Zenon DEF uncommitted
    <3> HIDE DEF lsns
    <3> QED BY <3>2, MaxOf, Zenon
  <2>4. /\ walFlushedLSN' \in 0..nextLSN /\ nextLSN \in Nat /\ walFlushedLSN \in Nat
        /\ walFlushedLSN <= walFlushedLSN'
        /\ \A q \in uncommitted : frames[q].lsn <= walFlushedLSN'
    <3>1. walFlushedLSN \in 0..nextLSN /\ nextLSN \in Nat
      BY <1>1, Zenon DEF PagerTypes
    <3>2. walFlushedLSN' \in lsns /\ \A q \in uncommitted : walFlushedLSN' >= frames[q].lsn
      BY <1>7, <2>3, Zenon
    <3>3. PICK p \in uncommitted : walFlushedLSN' = frames[p].lsn
      BY <3>2, Zenon
    <3>4. frames[p].lsn \in 0..nextLSN /\ frames[p].lsn > walFlushedLSN
      BY <2>2, <3>3, Zenon DEF uncommitted
    <3>5. \A q \in uncommitted : frames[q].lsn \in Nat
      BY <2>2, <3>1 DEF uncommitted
    <3> QED BY <3>1, <3>2, <3>3, <3>4, <3>5
  <2>5. ASSUME NEW q \in resident
        PROVE  /\ q \notin uncommitted' /\ (q \in toFold' <=> q \in toFold \cup uncommitted)
    <3>1. frames[q].lsn \in Nat
      BY <2>2, <2>4
    <3>2. frames[q].lsn > walFlushedLSN \/ frames[q].lsn <= walFlushedLSN
      BY <2>4, <3>1
    <3>3. frames[q].dirty => frames[q].lsn <= walFlushedLSN' /\ ~(frames[q].lsn > walFlushedLSN')
      <4>1. CASE q \in uncommitted
        BY <2>4, <3>1, <4>1
      <4>2. CASE frames[q].lsn <= walFlushedLSN
        BY <2>4, <3>1, <4>2
      <4> QED BY <3>2, <4>1, <4>2, Zenon DEF uncommitted
    <3> QED BY <1>2, <1>5, <3>2, <3>3, Zenon DEF uncommitted, toFold
  <2>6. uncommitted' = {} /\ toFold' = toFold \cup uncommitted
    BY <1>5, <2>5, Zenon DEF uncommitted, toFold
  <2>7. \A q : /\ Images(wal, walSynced, q) \subseteq Images(wal, Len(wal), q)
               /\ Images(wal, Len(wal), q) = {i \in 1..Len(wal) : wal[i].page = q}
    BY <2>1, ImagesGrow, ImagesWhole
  <2>8. PagerTypes'
    <3>1. View \in [Pages -> Txns]
      BY <1>1, Zenon DEF PagerTypes, Syncing
    <3>2. pc' \in {"free", "ckpt"}
      BY <1>7, Zenon
    <3>3. walSynced' \in 0..Len(wal)
      BY <1>7, <2>1
    <3> QED BY <1>1, <1>2, <1>5, <1>7, <2>4, <3>1, <3>2, <3>3, HandTyped, Zenon DEF PagerTypes
  <2>9. Phases'
    BY <1>1, <1>7, ZenonT(30) DEF Phases, Idle
  <2>10. Cached'
    <3>1. ASSUME NEW q \in toFold \cup uncommitted
          PROVE  /\ frames[q].sealed
                 /\ \E i \in Images(wal, Len(wal), q) : wal[i].buf = frames[q].buf
      <4>1. CASE q \in toFold
        BY <1>1, <1>4, <2>7, <4>1, Zenon DEF Cached
      <4>2. CASE q \in uncommitted
        <5>1. q \in Pages /\ view(q) = frames[q].buf
          BY <2>2, <4>2, Zenon DEF uncommitted, view
        <5>2. \E i \in 1..Len(wal) : wal[i].page = q /\ wal[i].buf = view(q)
          BY <2>1, <4>2, <5>1, Zenon DEF Ends
        <5> QED BY <2>1, <2>7, <4>2, <5>1, <5>2, Zenon
      <4> QED BY <4>1, <4>2, Zenon
    <3>2. \A q \in Pages :
            /\ unsynced[q] = {} => file[q] = main[q]
            /\ file[q] \in unsynced[q] \cup {main[q]}
            /\ unsynced[q] # {} \/ main[q] = Torn => Images(wal, Len(wal), q) # {}
            /\ file[q] # Torn
      BY <1>1, <2>7, Zenon DEF Cached
    <3>3. \A q : Images(wal, walSynced, q)' = Images(wal, Len(wal), q)
      BY <1>2, <1>7, Zenon DEF Images
    <3>4. \A q \in resident : ~frames[q].dirty => frames[q].buf = file[q]
      BY <1>1, <1>4, Zenon DEF Cached
    <3> QED BY <1>2, <1>5, <2>6, <3>1, <3>2, <3>3, <3>4 DEF Cached
  <2>11. Newer'
    <3>1. \A q : Images(wal, walSynced, q)' = Images(wal, Len(wal), q)
      BY <1>2, <1>7, Zenon DEF Images
    <3>2. \A q \in Pages : \A i \in Images(wal, Len(wal), q) : wal[i].buf <= View[q]
      BY <1>1, <1>5, <2>7 DEF Newer
    <3>3. \A q \in Pages : /\ main[q] <= View[q] /\ \A b \in unsynced[q] : b <= View[q]
                           /\ View[q] <= txn
      BY <1>1, <1>5, Zenon DEF Newer
    <3> QED BY <1>1, <1>2, <1>5, <1>7, <3>1, <3>2, <3>3, Zenon DEF Newer
  <2>12. /\ Ordered(wal, Len(wal)) /\ Covers(wal, Len(wal), main, unsynced)
         /\ \A p \in Pages : Replays(wal, Len(wal), p, View[p], main[p], unsynced[p])
    <3>1. \A q \in Pages : /\ Ends(wal, q, View[q], main[q], unsynced[q])
                           /\ main[q] <= View[q] /\ \A b \in unsynced[q] : b <= View[q]
      BY <1>1, <1>5, <2>1, ZenonT(30) DEF Newer
    <3>2. Ordered(wal, Len(wal))
      BY <1>1, <2>1 DEF Logs, Recoverable
    <3> QED BY <2>1, <3>1, <3>2, RecoverableWhole, Zenon DEF Ordered
  <2>13. Logs'
    <3>1. Recoverable(wal, Len(wal), main, unsynced, View, attempts', failed')
      <4>1. \A p \in Pages : \A i \in Images(wal, Len(wal), p) : wal[i].buf <= View[p]
        BY <1>1, <1>5, <2>7 DEF Newer
      <4> QED BY <2>12, <4>1, Zenon DEF Recoverable, Sound
    <3>2. \A n \in Len(wal)..Len(wal) : n = Len(wal)
      BY <2>1
    <3> QED BY <1>2, <1>5, <1>7, <2>1, <3>1, <3>2, Zenon DEF Logs
  <2>14. Syncing'
    BY <1>7, Zenon DEF Syncing
  <2>15. Served'
    BY <1>2, <1>5, <1>7, <2>6, <2>12, Zenon DEF Served
  <2>16. Copied'
    BY <1>1, <1>2, <1>7, Zenon DEF Copied, autoCheckpoint
  <2> QED BY <2>8, <2>9, <2>10, <2>11, <2>13, <2>14, <2>15, <2>16, Zenon DEF PInv
<1> QED BY <1>6, <1>7, Zenon DEF syncWAL
-----------------------------------------------------------------------------

\* What a log that survives a crash is good for.
LEMMA LogSurvives ==
  ASSUME PInv, pc # "down", NEW sv \in survivingLogs
  PROVE  /\ sv.log \in Seq(Rec) /\ \A i \in 1..Len(sv.log) : sv.log[i].buf <= txn
         /\ Recoverable(sv.log, Len(sv.log), main, unsynced, acked, attempts, failed)
         /\ \A p \in Pages : unsynced[p] # {} \/ main[p] = Torn =>
              Images(sv.log, Len(sv.log), p) # {}
<1>1. PagerTypes /\ Phases /\ Cached /\ Newer /\ Logs
  BY Zenon DEF PInv
<1>2. CASE \E n \in walSynced..Len(wal) : sv = [log |-> SubSeq(wal, 1, n), gen |-> checkpointSeq]
  <2>1. PICK n \in walSynced..Len(wal) : sv.log = SubSeq(wal, 1, n)
    BY <1>2
  <2>2. /\ n \in Nat /\ walSynced \in Nat /\ n \in 0..Len(wal) /\ walSynced <= n
        /\ Len(wal) \in Nat /\ wal \in Seq(Rec)
    BY <1>1, WalTyped DEF PagerTypes
  <2>3. /\ sv.log \in Seq(Rec) /\ Len(sv.log) = n
        /\ \A i \in 1..n : sv.log[i] = wal[i]
    BY <2>1, <2>2, PrefixTyped, Zenon
  <2>4. \A i \in 1..Len(sv.log) : sv.log[i].buf <= txn
    BY <1>1, <2>2, <2>3 DEF Newer
  <2>5. Recoverable(wal, n, main, unsynced, acked, attempts, failed)
    BY <1>1, Zenon DEF Logs
  <2>6. Recoverable(sv.log, n, main, unsynced, acked, attempts, failed)
    BY <2>2, <2>3, <2>5, RecoverableAgree, Zenon
  <2>7. \A p : Images(wal, walSynced, p) \subseteq Images(sv.log, n, p)
    <3>1. \A p : Images(sv.log, n, p) = Images(wal, n, p)
      BY <2>3 DEF Images
    <3> QED BY <2>2, <3>1, ImagesGrow
  <2> QED BY <1>1, <2>3, <2>4, <2>6, <2>7, Zenon DEF Cached
<1>3. CASE pc = "freshSync" /\ sv = [log |-> walOld, gen |-> checkpointSeq - 1]
  <2>1. sv.log = walOld
    BY <1>3, Zenon
  <2>2. \A p \in Pages : unsynced[p] = {} /\ main[p] # Torn
    BY <1>3, Folded, Zenon
  <2> QED BY <1>1, <1>3, <2>1, <2>2, Zenon DEF PagerTypes, Newer, Logs
<1> QED BY <1>2, <1>3, Zenon DEF survivingLogs

LEMMA CrashKeeps ==
  ASSUME PInv, Crash
  PROVE  PInv'
<1>1. /\ PagerTypes /\ Phases /\ Cached /\ Newer
      /\ pc # "down" /\ pc' = "down" /\ frames' = NoFrames /\ hand' = Idle
      /\ backup' = NoBackup /\ walOld' = << >> /\ unsynced' = [p \in Pages |-> {}]
      /\ UNCHANGED <<after, nextLSN, walFlushedLSN, txn, acked, attempts, failed>>
  BY Zenon DEF PInv, Crash, ghosts
<1>2. PICK sv \in survivingLogs : wal' = sv.log /\ walSynced' = Len(sv.log)
  BY Zenon DEF Crash
<1>3. /\ wal' \in Seq(Rec) /\ \A i \in 1..Len(wal') : wal'[i].buf <= txn
      /\ Recoverable(wal', Len(wal'), main, unsynced, acked, attempts, failed)
      /\ \A p \in Pages : unsynced[p] # {} \/ main[p] = Torn =>
           Images(wal', walSynced', p) # {}
  BY <1>1, <1>2, LogSurvives, Zenon
<1>4. /\ Len(wal') \in Nat /\ walSynced' = Len(wal')
      /\ \A i \in 1..Len(wal') : wal'[i].buf \in Nat
  BY <1>2, <1>3, LogTyped, Zenon
<1>5. /\ main' \in [Pages -> Contents] /\ file' = main'
      /\ \A p \in Pages : main'[p] \in survivingContents(p)
  BY Zenon DEF Crash
<1>6. resident' = {} /\ toFold' = {}
  BY <1>1, Zenon DEF resident, NoFrames, toFold
<1>7. Settles(main, unsynced, main', unsynced')
  BY <1>1, <1>5, Zenon DEF Settles, survivingContents
<1>8. PagerTypes'
  <2>1. NoFrames = [p \in {} |-> NoFrames[p]]
    BY Zenon DEF NoFrames
  <2>2. frames' = [p \in resident' |-> frames'[p]]
    BY <1>1, <1>6, <2>1, Zenon
  <2>3. walOld' \in Seq(Rec) /\ walSynced' \in 0..Len(wal')
    BY <1>1, <1>4
  <2> QED BY <1>1, <1>3, <1>5, <1>6, <2>2, <2>3, HandTyped, Zenon DEF PagerTypes
<1>9. Phases'
  BY <1>1, <1>4, <1>6, Zenon DEF Phases, Idle
<1>10. Cached'
  <2>1. \A p \in Pages : main'[p] = Torn => unsynced[p] # {} \/ main[p] = Torn
    BY <1>5, Zenon DEF survivingContents
  <2> QED BY <1>1, <1>3, <1>5, <1>6, <2>1, Zenon DEF Cached
<1>11. Newer'
  <2>1. \A p \in Pages : acked[p] \in Nat
    BY <1>1, PagerAssumption DEF PagerTypes, Txns
  <2>2. \A p \in Pages : main'[p] <= acked[p]
    BY <1>1, <1>7, <2>1 DEF Settles, Newer, Torn
  <2> QED BY <1>1, <1>3, <2>2 DEF Newer
<1>12. Logs'
  <2>1. Recoverable(wal', Len(wal'), main', unsynced', acked, attempts, failed)
    BY <1>3, <1>4, <1>7, RecoverableSettle, Zenon
  <2>2. \A n \in walSynced'..Len(wal') : n = Len(wal')
    BY <1>4
  <2> QED BY <1>1, <2>1, <2>2, Zenon DEF Logs
<1>13. Syncing' /\ Served'
  BY <1>1, Zenon DEF Syncing, Served
<1>14. Copied'
  BY <1>1, NoBackupTyped, Zenon DEF Copied, NoBackup
<1> QED BY <1>8, <1>9, <1>10, <1>11, <1>12, <1>13, <1>14, Zenon DEF PInv

\* recover gives every page the last image the log has of it.
LEMMA RecoverReplays ==
  ASSUME PInv, recover
  PROVE  /\ walSynced = Len(wal) /\ Recoverable(wal, Len(wal), main, unsynced, acked, attempts, failed)
         /\ file' \in [Pages -> Txns] /\ unsynced' \in [Pages -> SUBSET Txns]
         /\ \A p \in Pages :
              /\ unsynced'[p] = {wal[i].buf : i \in Images(wal, Len(wal), p)}
              /\ \/ Images(wal, Len(wal), p) = {} /\ file'[p] = main[p]
                 \/ \E i \in 1..Len(wal) : LastImage(wal, Len(wal), p, i) /\ file'[p] = wal[i].buf
         /\ \A p \in Pages : \A b : Replays(wal, Len(wal), p, b, main[p], unsynced[p]) => file'[p] = b
<1> DEFINE n == Len(wal)
<1>1. /\ PagerTypes /\ Phases /\ Cached /\ Logs /\ pc = "down"
  BY Zenon DEF PInv, recover
<1>2. /\ n \in Nat /\ walSynced = n /\ unsynced = [p \in Pages |-> {}]
      /\ \A i \in 1..n : wal[i] \in Rec
  BY <1>1, WalTyped, Zenon DEF Phases
<1>3. Recoverable(wal, n, main, unsynced, acked, attempts, failed)
  BY <1>1, <1>2 DEF Logs
<1>4. /\ file' = [p \in Pages |-> IF Images(wal, n, p) = {} THEN main[p]
                                  ELSE wal[Max(Images(wal, n, p))].buf]
      /\ unsynced' = [p \in Pages |-> {wal[i].buf : i \in Images(wal, n, p)}]
  BY RedoneImages, Zenon DEF recover
<1>5. \A p \in Pages : Images(wal, n, p) \subseteq 1..n
  BY Zenon DEF Images
<1>6. \A i \in 1..n : wal[i].buf \in Txns
  BY <1>2, Zenon DEF Rec
<1>7. \A p \in Pages : unsynced'[p] = {wal[i].buf : i \in Images(wal, n, p)}
  BY <1>4, Zenon
<1>8. unsynced' \in [Pages -> SUBSET Txns]
  BY <1>4, <1>5, <1>6, Zenon
<1>9. ASSUME NEW p \in Pages
      PROVE  \/ Images(wal, n, p) = {} /\ file'[p] = main[p]
             \/ \E i \in 1..n : LastImage(wal, n, p, i) /\ file'[p] = wal[i].buf
  <2>1. CASE Images(wal, n, p) = {}
    BY <1>4, <2>1, Zenon
  <2>2. CASE Images(wal, n, p) # {}
    <3>1. PICK i \in 1..n : LastImage(wal, n, p, i)
      BY <1>3, <2>2, Zenon DEF Recoverable, Ordered
    <3>2. i \in Images(wal, n, p) /\ \A y \in Images(wal, n, p) : i >= y
      BY <1>2, <1>5, <3>1, Zenon DEF LastImage
    <3>3. Max(Images(wal, n, p)) \in Images(wal, n, p) /\ Max(Images(wal, n, p)) >= i
      BY <3>2, MaxOf, Zenon
    <3>4. Max(Images(wal, n, p)) = i
      BY <1>2, <1>5, <3>2, <3>3
    <3> QED BY <1>4, <2>2, <3>1, <3>4, Zenon
  <2> QED BY <2>1, <2>2, Zenon
<1>10. file' \in [Pages -> Txns]
  <2>1. \A p \in Pages : file'[p] \in Txns
    <3>1. \A p \in Pages : main[p] \in Contents /\ (main[p] = Torn => Images(wal, n, p) # {})
      BY <1>1, <1>2, Zenon DEF PagerTypes, Cached
    <3> QED BY <1>6, <1>9, <3>1, Zenon DEF Contents
  <2> QED BY <1>4, <2>1, Zenon
<1>11. ASSUME NEW p \in Pages, NEW b, Replays(wal, n, p, b, main[p], unsynced[p])
       PROVE  file'[p] = b
  <2>1. \A i, j \in 1..n : LastImage(wal, n, p, i) /\ LastImage(wal, n, p, j) => i = j
    BY <1>2, <1>5 DEF LastImage
  <2>2. \A i : LastImage(wal, n, p, i) => Images(wal, n, p) # {}
    BY Zenon DEF LastImage
  <2> QED BY <1>9, <1>11, <2>1, <2>2, Zenon DEF Replays
<1> QED BY <1>2, <1>3, <1>7, <1>8, <1>9, <1>10, <1>11, Zenon

LEMMA RecoverKeeps ==
  ASSUME PInv, recover
  PROVE  PInv'
<1> DEFINE n == Len(wal)
<1>1. /\ PagerTypes /\ Phases /\ Cached /\ Newer /\ Logs /\ Copied
      /\ pc = "down" /\ pc' = "ckpt" /\ after' = "open" /\ nextLSN' = 0 /\ walFlushedLSN' = 0
      /\ UNCHANGED <<frames, wal, walSynced, walOld, main, txn, hand, backup, attempts, failed>>
  BY Zenon DEF PInv, recover
<1>2. /\ walSynced = n /\ Recoverable(wal, n, main, unsynced, acked, attempts, failed)
      /\ file' \in [Pages -> Txns] /\ unsynced' \in [Pages -> SUBSET Txns]
      /\ \A p \in Pages :
           /\ unsynced'[p] = {wal[i].buf : i \in Images(wal, n, p)}
           /\ \/ Images(wal, n, p) = {} /\ file'[p] = main[p]
              \/ \E i \in 1..n : LastImage(wal, n, p, i) /\ file'[p] = wal[i].buf
      /\ \A p \in Pages : \A b : Replays(wal, n, p, b, main[p], unsynced[p]) => file'[p] = b
  BY RecoverReplays, Zenon
<1>3. acked' = IF file' \in attempts THEN file' ELSE acked
  BY Zenon DEF recover
<1>4. resident = {} /\ resident' = {} /\ hand = Idle /\ ~backup.active
  BY <1>1, Zenon DEF Phases, Copied, resident
<1>5. uncommitted' = {} /\ toFold' = {} /\ \A p : view(p)' = file'[p] /\ ~mutating(p)'
  BY <1>1, <1>4, Zenon DEF uncommitted, toFold, view, mutating, Idle
<1>6. /\ n \in Nat /\ \A i \in 1..n : wal[i].buf \in Nat
      /\ \A p \in Pages : Images(wal, n, p) \subseteq 1..n
      /\ \A p : Images(wal, walSynced, p)' = Images(wal, n, p)
  BY <1>1, <1>2, WalTyped, Zenon DEF Images
<1>7. ASSUME NEW p \in Pages
      PROVE  /\ main[p] <= file'[p] /\ \A b \in unsynced'[p] : b <= file'[p]
             /\ Replays(wal, n, p, file'[p], main[p], unsynced'[p])
             /\ file'[p] <= txn
  <2>1. CASE Images(wal, n, p) = {} /\ file'[p] = main[p]
    <3>1. unsynced'[p] = {}
      BY <1>2, <2>1, Zenon
    <3>2. main[p] \in Int /\ main[p] <= acked[p] /\ acked[p] <= txn /\ acked[p] \in Int /\ txn \in Int
      BY <1>1, PagerAssumption DEF PagerTypes, Newer, Contents, Txns, Torn
    <3> QED BY <2>1, <3>1, <3>2 DEF Replays
  <2>2. CASE \E i \in 1..n : LastImage(wal, n, p, i) /\ file'[p] = wal[i].buf
    <3>1. PICK i \in 1..n : LastImage(wal, n, p, i) /\ file'[p] = wal[i].buf
      BY <2>2, Zenon
    <3>2. main[p] <= file'[p]
      BY <1>2, <3>1, Zenon DEF Recoverable, Covers
    <3>3. \A j \in Images(wal, n, p) : wal[j].buf <= wal[i].buf
      BY <1>2, <1>6, <3>1, Zenon DEF Recoverable, Ordered, LastImage, Images
    <3>4. file'[p] <= txn
      BY <1>1, <3>1, Zenon DEF Newer
    <3> QED BY <1>2, <3>1, <3>2, <3>3, <3>4 DEF Replays
  <2> QED BY <1>2, <2>1, <2>2, Zenon
<1>8. ASSUME NEW p \in Pages, NEW i \in Images(wal, n, p)
      PROVE  wal[i].buf \in unsynced'[p] /\ wal[i].buf <= file'[p]
  BY <1>2, <1>7, Zenon
<1>9. \/ file' \in attempts /\ acked' = file'
      \/ /\ acked' = acked
         /\ \A p \in Pages : \A i \in Images(wal, n, p) : wal[i].buf <= acked[p]
         /\ ~failed => \A p \in Pages : file'[p] = acked[p]
  <2>1. CASE \E v \in attempts : \A p \in Pages : Replays(wal, n, p, v[p], main[p], unsynced[p])
    <3>1. PICK v \in attempts : \A p \in Pages : Replays(wal, n, p, v[p], main[p], unsynced[p])
      BY <2>1, Zenon
    <3>2. \A p \in Pages : file'[p] = v[p]
      BY <1>2, <3>1, Zenon
    <3>3. v \in [Pages -> Txns]
      BY <1>1, ZenonT(30) DEF PagerTypes
    <3>4. file' = v
      BY <1>2, <3>2, <3>3
    <3> QED BY <1>3, <3>4, Zenon
  <2>2. CASE /\ \A p \in Pages : \A i \in Images(wal, n, p) : wal[i].buf <= acked[p]
             /\ ~failed => \A p \in Pages : Replays(wal, n, p, acked[p], main[p], unsynced[p])
    BY <1>2, <1>3, <2>2, Zenon
  <2> QED BY <1>2, <2>1, <2>2, Zenon DEF Recoverable, Sound
<1>10. /\ acked' \in [Pages -> Txns]
       /\ ~failed => \A p \in Pages : file'[p] = acked'[p]
  BY <1>1, <1>2, <1>9, Zenon DEF PagerTypes
<1>11. ASSUME NEW p \in Pages
       PROVE  /\ main[p] <= acked'[p] /\ \A b \in unsynced'[p] : b <= acked'[p]
              /\ acked'[p] <= txn
              /\ \A i \in Images(wal, n, p) : wal[i].buf <= acked'[p]
  <2>1. CASE acked' = file'
    BY <1>7, <1>8, <2>1, ZenonT(30)
  <2>2. CASE acked' = acked /\ \A i \in Images(wal, n, p) : wal[i].buf <= acked[p]
    BY <1>1, <1>2, <2>2 DEF Newer
  <2> QED BY <1>9, <2>1, <2>2, Zenon
<1>12. PagerTypes'
  <2>1. file' \in [Pages -> Contents]
    BY <1>2, Zenon DEF Contents
  <2> QED BY <1>1, <1>2, <1>4, <1>10, <2>1 DEF PagerTypes
<1>13. Phases'
  BY <1>1, <1>4, Zenon DEF Phases, Idle
<1>14. Cached'
  <2>1. ASSUME NEW p \in Pages
        PROVE  /\ unsynced'[p] = {} => file'[p] = main[p]
               /\ file'[p] \in unsynced'[p] \cup {main[p]}
               /\ unsynced'[p] # {} \/ main[p] = Torn => Images(wal, n, p) # {}
               /\ file'[p] # Torn
    <3>1. unsynced'[p] # {} \/ main[p] = Torn => Images(wal, n, p) # {}
      BY <1>1, <1>2, Zenon DEF Cached
    <3>2. file'[p] # Torn
      BY <1>2, PagerAssumption DEF Txns, Torn
    <3>3. \A i : LastImage(wal, n, p, i) => i \in Images(wal, n, p)
      BY Zenon DEF LastImage
    <3> QED BY <1>2, <1>8, <3>1, <3>2, <3>3, Zenon
  <2> QED BY <1>1, <1>4, <1>5, <1>6, <2>1, Zenon DEF Cached
<1>15. Newer'
  BY <1>1, <1>5, <1>6, <1>7, <1>11, Zenon DEF Newer
<1>16. Logs'
  <2>1. Covers(wal, n, main, unsynced')
    <3> SUFFICES ASSUME NEW p \in Pages, NEW i \in 1..n, LastImage(wal, n, p, i),
                        NEW j \in Images(wal, n, p)
                 PROVE  wal[j].buf <= wal[i].buf
      BY <1>2 DEF Covers, Recoverable
    <3> QED BY <1>2, <1>6, ZenonT(30) DEF Recoverable, Ordered, LastImage, Images
  <2>2. Sound(wal, n, main, unsynced', acked', attempts, failed)
    <3>1. CASE file' \in attempts
      BY <1>7, <3>1, Zenon DEF Sound
    <3>2. CASE file' \notin attempts
      BY <1>7, <1>10, <1>11, <3>2, ZenonT(30) DEF Sound
    <3> QED BY <3>1, <3>2, Zenon
  <2>3. \A k \in walSynced..Len(wal) : k = n
    BY <1>2, <1>6
  <2> QED BY <1>1, <1>2, <2>1, <2>2, <2>3, Zenon DEF Logs, Recoverable
<1>17. Syncing' /\ Served'
  BY <1>1, <1>2, <1>5, <1>7, <1>10, Zenon DEF Syncing, Served
<1>18. Copied'
  BY <1>1, <1>4, Zenon DEF Copied
<1> QED BY <1>12, <1>13, <1>14, <1>15, <1>16, <1>17, <1>18, Zenon DEF PInv
-----------------------------------------------------------------------------

LEMMA InitPInv == Init => PInv
<1> SUFFICES ASSUME Init PROVE PInv
  BY Zenon
<1>1. /\ pc = "free" /\ after = "open" /\ frames = NoFrames /\ nextLSN = 0 /\ walFlushedLSN = 0
      /\ wal = << >> /\ walSynced = 0 /\ walOld = << >> /\ file = [p \in Pages |-> 0]
      /\ main = [p \in Pages |-> 0] /\ unsynced = [p \in Pages |-> {}] /\ txn = 0
      /\ hand = Idle /\ backup = NoBackup /\ acked = [p \in Pages |-> 0] /\ attempts = {}
      /\ failed = FALSE
  BY Zenon DEF Init
<1>2. resident = {} /\ uncommitted = {} /\ toFold = {}
  BY <1>1, Zenon DEF resident, NoFrames, uncommitted, toFold
<1>3. \A p : ~mutating(p)
  BY <1>1, Zenon DEF mutating, Idle
<1>4. \A p \in Pages : view(p) = 0 /\ main[p] = 0 /\ file[p] = 0 /\ acked[p] = 0 /\ unsynced[p] = {}
  BY <1>1, <1>2, Zenon DEF view
<1>5. /\ Recoverable(wal, 0, main, unsynced, acked, attempts, failed)
      /\ \A p : Images(wal, walSynced, p) = {}
  BY <1>1, <1>4, RecoverableEmpty, Zenon
<1>6. PagerTypes
  <2>1. 0 \in Txns /\ 0 \in Contents
    BY PagerAssumption DEF Txns, Contents
  <2>2. NoFrames = [p \in {} |-> NoFrames[p]]
    BY Zenon DEF NoFrames
  <2>3. frames = [p \in resident |-> frames[p]]
    BY <1>1, <1>2, <2>2, Zenon
  <2>4. /\ file \in [Pages -> Contents] /\ main \in [Pages -> Contents]
        /\ unsynced \in [Pages -> SUBSET Txns] /\ txn \in Txns
        /\ acked \in [Pages -> Txns] /\ attempts \subseteq [Pages -> Txns]
    BY <1>1, <2>1, Zenon
  <2>5. wal \in Seq(Rec) /\ walOld \in Seq(Rec) /\ walSynced \in 0..Len(wal)
    BY <1>1
  <2> QED BY <1>1, <1>2, <2>3, <2>4, <2>5, HandTyped, ZenonT(30) DEF PagerTypes
<1>7. Phases
  BY <1>1, <1>2, Zenon DEF Phases, Idle
<1>8. Cached
  BY <1>1, <1>2, <1>4 DEF Cached, Torn
<1>9. Newer
  BY <1>1, <1>4, <1>5 DEF Newer
<1>10. Logs
  BY <1>1, <1>4, <1>5 DEF Logs, Ends
<1>11. Syncing /\ Served
  BY <1>1, <1>2, <1>4, <1>5, Zenon DEF Syncing, Served, Replays
<1>12. Copied
  BY <1>1, NoBackupTyped, Zenon DEF Copied, NoBackup
<1> QED BY <1>6, <1>7, <1>8, <1>9, <1>10, <1>11, <1>12, Zenon DEF PInv

LEMMA NextPInv ==
  ASSUME ~Interleaved
  PROVE  PInv /\ [Next]_vars => PInv'
<1> SUFFICES ASSUME PInv, [Next]_vars PROVE PInv'
  BY Zenon
<1>1. CASE \E p \in Pages : \/ Fetch(p) \/ Mutate(p) \/ MarkDirty(p)
                            \/ checkpointWrite(p) \/ backupPage(p)
  BY <1>1, FetchKeeps, MutateKeeps, MarkDirtyKeeps, CheckpointWriteKeeps, BackupPageKeeps, Zenon
<1>2. CASE Apply \/ ApplyFails
  BY <1>2, ApplyKeeps, ApplyFailsKeeps, Zenon
<1>3. CASE commitLocked \/ commitNothing \/ syncWAL
  BY <1>3, CommitKeeps, CommitNothingKeeps, SyncWALKeeps, Zenon
<1>4. CASE Checkpoint \/ Close \/ Backup
  BY <1>4, StartCheckpointKeeps, Zenon DEF Checkpoint, Close, Backup
<1>5. CASE syncMain \/ openFreshWAL \/ syncFreshWAL \/ backupDone
  BY <1>5, SyncMainKeeps, OpenFreshWALKeeps, SyncFreshWALKeeps, BackupDoneKeeps, Zenon
<1>6. CASE Crash \/ recover
  BY <1>6, CrashKeeps, RecoverKeeps, Zenon
<1>7. CASE Finished \/ UNCHANGED vars
  BY <1>7, StutterKeeps, Zenon DEF Finished
<1> QED BY <1>1, <1>2, <1>3, <1>4, <1>5, <1>6, <1>7, Zenon DEF Next

\* The inductive invariant of the pager: what frames, main file, both
\* generations of the log and the backup owe each other in every state, so that
\* whatever a crash leaves behind replays to a commit.
THEOREM PagerInvariant ==
  ASSUME ~Interleaved
  PROVE  Spec => []PInv
BY InitPInv, NextPInv, PTL DEF Spec

\* When no Checkpoint, Backup or Close is called in the middle of a write, the
\* pager serves exactly the last commit between transactions: through evictions,
\* group commits, checkpoints torn by a crash at any I/O step, lost, torn and
\* reordered writes of the main file, and recoveries that crash themselves, for
\* any pages, pool size and number of transactions and crashes.
THEOREM PagerServesLastCommit ==
  ASSUME ~Interleaved
  PROVE  Spec => []ServesLastCommit
<1>1. PInv => ServesLastCommit
  <2> SUFFICES ASSUME PInv, ~failed, pc = "free", hand = Idle
               PROVE  View = acked
    BY Zenon DEF ServesLastCommit
  <2>1. PagerTypes /\ Served
    BY Zenon DEF PInv
  <2>2. \A p : ~mutating(p)
    BY Zenon DEF mutating, Idle
  <2>3. \A p \in Pages : view(p) = acked[p]
    BY <2>1, <2>2, Zenon DEF Served
  <2>4. \A p \in Pages : View[p] = acked[p]
    BY <2>3, Zenon DEF View, view
  <2>5. acked = [p \in Pages |-> acked[p]] /\ View = [p \in Pages |-> View[p]]
    BY <2>1, Zenon DEF PagerTypes, View
  <2> QED BY <2>4, <2>5, Zenon
<1> QED BY <1>1, PagerInvariant, PTL

\* Redo-only logging for every configuration: no eviction, checkpoint or
\* recovery lets the main file hold, on the medium or on its way there, a page
\* newer than the log made durable.
THEOREM PagerNeverSteals ==
  ASSUME ~Interleaved
  PROVE  Spec => []NoUncommittedPageStolen
<1>1. PInv => NoUncommittedPageStolen
  <2> SUFFICES ASSUME PInv, NEW p \in Pages, NEW b \in survivingContents(p)
               PROVE  b <= acked[p]
    BY Zenon DEF NoUncommittedPageStolen
  <2>1. PagerTypes /\ Newer
    BY Zenon DEF PInv
  <2>2. acked[p] \in Nat
    BY <2>1, PagerAssumption DEF PagerTypes, Txns
  <2>3. CASE b = Torn
    BY <2>2, <2>3 DEF Torn
  <2>4. CASE b # Torn
    BY <2>1, <2>4, Zenon DEF Newer, survivingContents
  <2> QED BY <2>3, <2>4, Zenon
<1> QED BY <1>1, PagerInvariant, PTL

\* An online backup copies the state of the commit it started at, however many
\* transactions commit and evict while Backup reads the main file.
THEOREM PagerBackupIsSnapshot ==
  ASSUME ~Interleaved
  PROVE  Spec => []BackupIsSnapshot
<1>1. PInv => BackupIsSnapshot
  BY Zenon DEF PInv, Copied, BackupIsSnapshot
<1> QED BY <1>1, PagerInvariant, PTL
=============================================================================
