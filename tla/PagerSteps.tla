---------------------------- MODULE PagerSteps -----------------------------
(* The inductive invariant of the pager, PInv, and that what the buffer pool, *)
(* the writer, Backup and a checkpoint do keeps it.                           *)
EXTENDS Pager, FiniteSetTheorems, SequenceTheorems, TLAPS

Rec == [page : Pages, buf : Txns, marker : BOOLEAN]

\* The images of page p that a scan of the first n frames of log w redoes.
Images(w, n, p) == {i \in 1..n : w[i].page = p /\ \E k \in i..n : w[k].marker}

LastImage(w, n, p, i) == i \in Images(w, n, p) /\ \A j \in Images(w, n, p) : j <= i

\* Recovery from those frames gives page p the contents b, when the main file
\* holds m on the medium and u on its way there.
Replays(w, n, p, b, m, u) ==
  \/ Images(w, n, p) = {} /\ u = {} /\ m = b
  \/ \E i \in 1..n : LastImage(w, n, p, i) /\ w[i].buf = b

\* The last frame of page p in all of log w, with a marker after it or not,
\* holds b; or there is none and the main file does.
Ends(w, p, b, m, u) ==
  \/ (\A i \in 1..Len(w) : w[i].page # p) /\ u = {} /\ m = b
  \/ \E i \in 1..Len(w) : /\ w[i].page = p /\ w[i].buf = b
                          /\ \A j \in 1..Len(w) : w[j].page = p => j <= i

\* Later images of a page are newer, and there is a last one.
Ordered(w, n) ==
  /\ \A i, j \in 1..n : i <= j /\ w[i].page = w[j].page => w[i].buf <= w[j].buf
  /\ \A p \in Pages : Images(w, n, p) = {} \/ \E i \in 1..n : LastImage(w, n, p, i)

\* Nothing the main file may hold of a page is newer than its last image.
Covers(w, n, m, u) ==
  \A p \in Pages : \A i \in 1..n : LastImage(w, n, p, i) =>
    m[p] <= w[i].buf /\ \A b \in u[p] : b <= w[i].buf

\* What a sync or a crash makes of the main file.
Settles(m, u, m2, u2) ==
  \A p \in Pages : /\ u2[p] = {} /\ m2[p] \in {m[p]} \cup u[p] \cup {Torn}
                   /\ u[p] = {} => m2[p] = m[p]

\* Recovery gives a state some commit tried to reach, or nothing newer than what
\* was acknowledged: exactly that, as long as no transaction failed.
Sound(w, n, m, u, ack, att, bad) ==
  \/ \E v \in att : \A p \in Pages : Replays(w, n, p, v[p], m[p], u[p])
  \/ /\ \A p \in Pages : \A i \in Images(w, n, p) : w[i].buf <= ack[p]
     /\ ~bad => \A p \in Pages : Replays(w, n, p, ack[p], m[p], u[p])

Recoverable(w, n, m, u, ack, att, bad) ==
  Ordered(w, n) /\ Covers(w, n, m, u) /\ Sound(w, n, m, u, ack, att, bad)
-----------------------------------------------------------------------------

mutating(p) == p \in hand.page /\ hand.mutated
view(p) == IF p \in resident THEN frames[p].buf ELSE file[p]

PagerTypes ==
  /\ pc \in {"free", "walSync", "ckpt", "fresh", "freshSync", "down"}
  /\ after \in {"open", "closed", "backup"}
  /\ resident \subseteq Pages
  /\ frames = [p \in resident |-> frames[p]]
  /\ \A p \in resident :
       frames[p] \in [buf : Txns, sealed : BOOLEAN, dirty : BOOLEAN, lsn : 0..nextLSN]
  /\ nextLSN \in Nat /\ walFlushedLSN \in 0..nextLSN
  /\ failed \in BOOLEAN
  /\ wal \in Seq(Rec) /\ walOld \in Seq(Rec)
  /\ walSynced \in 0..Len(wal)
  /\ file \in [Pages -> Contents] /\ main \in [Pages -> Contents]
  /\ unsynced \in [Pages -> SUBSET Txns]
  /\ txn \in Txns
  /\ hand \in [busy : BOOLEAN, page : SUBSET Pages, mutated : BOOLEAN]
  /\ acked \in [Pages -> Txns] /\ attempts \subseteq [Pages -> Txns]

Phases ==
  /\ hand.page = {} => ~hand.mutated
  /\ hand.page # {} => pc = "free" /\ hand.busy
  /\ hand.page \subseteq resident /\ \A p, q \in hand.page : p = q
  /\ pc \in {"ckpt", "fresh", "freshSync", "down"} => hand = Idle
  /\ pc = "walSync" => hand = Applying
  /\ pc = "down" => resident = {} /\ walSynced = Len(wal) /\ unsynced = [p \in Pages |-> {}]
  /\ pc \in {"fresh", "freshSync"} => unsynced = [p \in Pages |-> {}] /\ toFold = {}
  /\ pc = "freshSync" => wal = << >>

\* Frames and the main file.
Cached ==
  /\ \A p \in resident : ~frames[p].dirty /\ ~mutating(p) => frames[p].buf = file[p]
  /\ \A p \in toFold : ~mutating(p) =>
       /\ frames[p].sealed
       /\ \E i \in Images(wal, walSynced, p) : wal[i].buf = frames[p].buf
  /\ \A p \in Pages :
       /\ unsynced[p] = {} => file[p] = main[p]
       /\ file[p] \in unsynced[p] \cup {main[p]}
       /\ unsynced[p] # {} \/ main[p] = Torn => Images(wal, walSynced, p) # {}
       /\ pc # "down" => file[p] # Torn

\* What is newer than what.
Newer ==
  /\ pc # "down" =>
       \A p \in Pages :
         /\ main[p] <= view(p) /\ \A b \in unsynced[p] : b <= view(p)
         /\ view(p) <= txn
         /\ \A i \in Images(wal, walSynced, p) : wal[i].buf <= acked[p]
  /\ \A p \in Pages : /\ main[p] <= acked[p] /\ \A b \in unsynced[p] : b <= acked[p]
                      /\ acked[p] <= txn
  /\ \A i \in 1..Len(wal) : wal[i].buf <= txn
  /\ \A i \in 1..Len(walOld) : walOld[i].buf <= txn
  /\ pc \in {"free", "walSync"} => \A i \in 1..Len(wal) : wal[i].buf <= view(wal[i].page)

Logs ==
  /\ \A n \in walSynced..Len(wal) :
       Recoverable(wal, n, main, unsynced, acked, attempts, failed)
  /\ pc = "freshSync" =>
       Recoverable(walOld, Len(walOld), main, unsynced, acked, attempts, failed)
  /\ pc = "free" =>
       \A p \in Pages \ uncommitted :
         ~mutating(p) => Ends(wal, p, view(p), main[p], unsynced[p])

Syncing ==
  pc = "walSync" =>
    /\ View \in attempts
    /\ Len(wal) > 0 /\ wal[Len(wal)].marker
    /\ \A p \in Pages : Ends(wal, p, view(p), main[p], unsynced[p])
    /\ \E p \in uncommitted : \A q \in uncommitted : frames[q].lsn <= frames[p].lsn
    /\ \A p \in uncommitted : frames[p].sealed /\ \E i \in 1..Len(wal) : wal[i].page = p

\* As long as no transaction failed.
Served ==
  ~failed /\ pc # "down" =>
    /\ \A p \in Pages \ uncommitted : ~mutating(p) => view(p) = acked[p]
    /\ hand = Idle => uncommitted = {}
    /\ \A p \in Pages : Replays(wal, walSynced, p, acked[p], main[p], unsynced[p])

Copied ==
  /\ backup \in [active : BOOLEAN, left : SUBSET Pages, image : [Pages -> Contents],
                 snapshot : [Pages -> Txns], disturbed : BOOLEAN]
  /\ backup.active =>
       /\ pc # "down"
       /\ pc \in {"ckpt", "fresh", "freshSync"} => backup.disturbed /\ after # "closed"
  /\ backup.active /\ ~backup.disturbed /\ ~failed =>
       /\ \A p \in backup.left : file[p] = backup.snapshot[p]
       /\ \A p \in Pages \ backup.left : backup.image[p] = backup.snapshot[p]

PInv == PagerTypes /\ Phases /\ Cached /\ Newer /\ Logs /\ Syncing /\ Served /\ Copied
-----------------------------------------------------------------------------

\* redone, which recover replays, is the images of all pages.
LEMMA RedoneImages ==
  ASSUME NEW w, NEW p
  PROVE  {i \in redone(w) : w[i].page = p} = Images(w, Len(w), p)
BY Zenon DEF redone, Images

\* Only the frames scanned count.
LEMMA ImagesAgree ==
  ASSUME NEW w, NEW x, NEW n \in Nat, \A i \in 1..n : x[i] = w[i], NEW p
  PROVE  Images(x, n, p) = Images(w, n, p)
BY DEF Images

\* A longer scan redoes what a shorter one does.
LEMMA ImagesGrow ==
  ASSUME NEW w, NEW m \in Nat, NEW n \in Nat, m <= n, NEW p
  PROVE  Images(w, m, p) \subseteq Images(w, n, p)
BY DEF Images

\* Frames without a marker after them are not redone.
LEMMA ImagesStop ==
  ASSUME NEW w, NEW m \in Nat, NEW n \in Nat, m <= n,
         \A k \in 1..n : k > m => ~w[k].marker, NEW p
  PROVE  Images(w, n, p) = Images(w, m, p)
<1>1. Images(w, n, p) \subseteq Images(w, m, p)
  BY DEF Images
<1> QED BY <1>1, ImagesGrow, Zenon

\* A log that ends in a marker is redone whole.
LEMMA ImagesWhole ==
  ASSUME NEW w, NEW n \in Nat, n > 0, w[n].marker, NEW p
  PROVE  Images(w, n, p) = {i \in 1..n : w[i].page = p}
BY DEF Images

LEMMA EndsReplays ==
  ASSUME NEW w, Len(w) \in Nat, Len(w) > 0, w[Len(w)].marker,
         NEW p, NEW b, NEW m, NEW u, Ends(w, p, b, m, u)
  PROVE  Replays(w, Len(w), p, b, m, u)
<1>1. Images(w, Len(w), p) = {i \in 1..Len(w) : w[i].page = p}
  BY ImagesWhole
<1>2. CASE (\A i \in 1..Len(w) : w[i].page # p) /\ u = {} /\ m = b
  BY <1>1, <1>2, Zenon DEF Replays
<1>3. CASE \E i \in 1..Len(w) : /\ w[i].page = p /\ w[i].buf = b
                                /\ \A j \in 1..Len(w) : w[j].page = p => j <= i
  BY <1>1, <1>3, Zenon DEF Replays, LastImage
<1> QED BY <1>2, <1>3, Zenon DEF Ends

LEMMA RecoverableAgree ==
  ASSUME NEW w, NEW x, NEW n \in Nat, \A i \in 1..n : x[i] = w[i],
         NEW m, NEW u, NEW ack, NEW att, NEW bad,
         Recoverable(w, n, m, u, ack, att, bad)
  PROVE  Recoverable(x, n, m, u, ack, att, bad)
<1>1. \A p : Images(x, n, p) = Images(w, n, p)
  BY ImagesAgree, Zenon
<1>2. \A p, i : LastImage(x, n, p, i) <=> LastImage(w, n, p, i)
  BY <1>1, Zenon DEF LastImage
<1>3. \A p : Images(w, n, p) \subseteq 1..n
  BY Zenon DEF Images
<1>4. \A p, b, m1, u1 : Replays(w, n, p, b, m1, u1) => Replays(x, n, p, b, m1, u1)
  BY <1>1, <1>2, Zenon DEF Replays
<1>5. Ordered(x, n)
  BY <1>1, <1>2, Zenon DEF Recoverable, Ordered
<1>6. Covers(x, n, m, u)
  BY <1>2, Zenon DEF Recoverable, Covers
<1>7. Sound(x, n, m, u, ack, att, bad)
  BY <1>1, <1>3, <1>4, Zenon DEF Recoverable, Sound
<1> QED BY <1>5, <1>6, <1>7, Zenon DEF Recoverable

\* A commit that is tried, or fails, takes nothing away.
LEMMA RecoverableMore ==
  ASSUME NEW w, NEW n, NEW m, NEW u, NEW ack, NEW att, NEW bad, NEW att2, NEW bad2,
         Recoverable(w, n, m, u, ack, att, bad), att \subseteq att2, bad => bad2
  PROVE  Recoverable(w, n, m, u, ack, att2, bad2)
BY Zenon DEF Recoverable, Sound

\* A write of contents that the log has, too.
LEMMA RecoverableWrite ==
  ASSUME NEW w, NEW n \in Nat, \A i \in 1..n : w[i].buf \in Int,
         NEW m, NEW u, NEW ack, NEW att, NEW bad,
         Recoverable(w, n, m, u, ack, att, bad),
         NEW u2, \A p \in Pages : \/ u2[p] = u[p]
                                  \/ \E i \in Images(w, n, p) : u2[p] = u[p] \cup {w[i].buf}
  PROVE  Recoverable(w, n, m, u2, ack, att, bad)
<1>1. \A p \in Pages : \A b : Replays(w, n, p, b, m[p], u[p]) => Replays(w, n, p, b, m[p], u2[p])
  BY Zenon DEF Replays, LastImage
<1>2. Covers(w, n, m, u2)
  <2> SUFFICES ASSUME NEW p \in Pages, NEW i \in 1..n, LastImage(w, n, p, i), NEW b \in u2[p]
               PROVE  b <= w[i].buf
    BY Zenon DEF Covers, Recoverable
  <2>1. CASE b \in u[p]
    BY <2>1, Zenon DEF Covers, Recoverable
  <2>2. CASE \E j \in Images(w, n, p) : b = w[j].buf
    BY <2>2 DEF Recoverable, Ordered, LastImage, Images
  <2> QED BY <2>1, <2>2, Zenon
<1> QED BY <1>1, <1>2, Zenon DEF Recoverable, Sound

\* What a sync or a crash leaves in the main file.
LEMMA RecoverableSettle ==
  ASSUME NEW w, NEW n \in Nat, \A i \in 1..n : w[i].buf \in Nat,
         NEW m, NEW u, NEW ack, NEW att, NEW bad,
         Recoverable(w, n, m, u, ack, att, bad),
         NEW m2, NEW u2, Settles(m, u, m2, u2)
  PROVE  Recoverable(w, n, m2, u2, ack, att, bad)
<1>1. \A p \in Pages : \A b : Replays(w, n, p, b, m[p], u[p]) => Replays(w, n, p, b, m2[p], u2[p])
  BY Zenon DEF Replays, Settles
<1>2. Covers(w, n, m2, u2)
  BY DEF Covers, Recoverable, Settles, Torn
<1> QED BY <1>1, <1>2, Zenon DEF Recoverable, Sound

\* Frames without a marker after them add nothing to what recovery finds.
LEMMA RecoverableStop ==
  ASSUME NEW w, NEW k \in Nat, NEW n \in Nat, k <= n,
         \A i \in 1..n : i > k => ~w[i].marker,
         \A i, j \in 1..n : i <= j /\ w[i].page = w[j].page => w[i].buf <= w[j].buf,
         NEW m, NEW u, NEW ack, NEW att, NEW bad,
         Recoverable(w, k, m, u, ack, att, bad)
  PROVE  Recoverable(w, n, m, u, ack, att, bad)
<1>1. \A p : Images(w, n, p) = Images(w, k, p)
  BY ImagesStop, Zenon
<1>2. \A p, i : LastImage(w, n, p, i) <=> LastImage(w, k, p, i)
  BY <1>1, Zenon DEF LastImage
<1>3. \A p, i : LastImage(w, k, p, i) => i \in 1..k
  BY Zenon DEF LastImage, Images
<1>4. \A p, b, m1, u1 : Replays(w, k, p, b, m1, u1) => Replays(w, n, p, b, m1, u1)
  BY <1>1, <1>2 DEF Replays
<1>5. Ordered(w, n)
  BY <1>1, <1>2 DEF Recoverable, Ordered
<1>6. Covers(w, n, m, u)
  BY <1>2, <1>3, Zenon DEF Recoverable, Covers
<1>7. Sound(w, n, m, u, ack, att, bad)
  BY <1>1, <1>4, Zenon DEF Recoverable, Sound
<1> QED BY <1>5, <1>6, <1>7, Zenon DEF Recoverable

\* A log whose last frame carries a marker and which ends in v gives v back.
LEMMA RecoverableWhole ==
  ASSUME NEW w, Len(w) \in Nat, Len(w) > 0, w[Len(w)].marker,
         \A i, j \in 1..Len(w) : i <= j /\ w[i].page = w[j].page => w[i].buf <= w[j].buf,
         NEW m, NEW u, NEW v,
         \A p \in Pages : /\ Ends(w, p, v[p], m[p], u[p])
                          /\ m[p] <= v[p] /\ \A b \in u[p] : b <= v[p]
  PROVE  /\ Ordered(w, Len(w)) /\ Covers(w, Len(w), m, u)
         /\ \A p \in Pages : Replays(w, Len(w), p, v[p], m[p], u[p])
<1> DEFINE n == Len(w)
<1>1. \A p : Images(w, n, p) = {i \in 1..n : w[i].page = p}
  BY ImagesWhole
<1>2. \A p \in Pages : Replays(w, n, p, v[p], m[p], u[p])
  BY EndsReplays, Zenon
<1>3. Ordered(w, n)
  BY <1>2, Zenon DEF Ordered, Replays
<1>4. Covers(w, n, m, u)
  <2> SUFFICES ASSUME NEW p \in Pages, NEW i \in 1..n, LastImage(w, n, p, i)
               PROVE  w[i].buf = v[p]
    BY Zenon DEF Covers
  <2>1. PICK j \in 1..n : LastImage(w, n, p, j) /\ w[j].buf = v[p]
    BY <1>2, Zenon DEF Replays, LastImage
  <2>2. i = j
    BY <2>1 DEF LastImage, Images
  <2> QED BY <2>1, <2>2, Zenon
<1> QED BY <1>2, <1>3, <1>4, Zenon
-----------------------------------------------------------------------------

LEMMA LogTyped ==
  ASSUME NEW w \in Seq(Rec)
  PROVE  /\ Len(w) \in Nat
         /\ \A i \in 1..Len(w) : w[i] \in Rec /\ w[i].page \in Pages /\ w[i].buf \in Nat
<1>1. \A i \in 1..Len(w) : w[i] \in Rec
  OBVIOUS
<1>2. \A r \in Rec : r.page \in Pages /\ r.buf \in Nat
  BY PagerAssumption DEF Rec, Txns
<1> QED BY <1>1, <1>2

LEMMA WalTyped ==
  ASSUME PagerTypes
  PROVE  /\ Len(wal) \in Nat /\ walSynced \in Nat
         /\ \A i \in 1..Len(wal) : wal[i] \in Rec /\ wal[i].page \in Pages /\ wal[i].buf \in Nat
         /\ Len(walOld) \in Nat
         /\ \A i \in 1..Len(walOld) : walOld[i] \in Rec /\ walOld[i].buf \in Nat
<1>1. wal \in Seq(Rec) /\ walOld \in Seq(Rec) /\ walSynced \in 0..Len(wal)
  BY Zenon DEF PagerTypes
<1> QED BY <1>1, LogTyped

LEMMA HandTyped ==
  /\ Idle \in [busy : BOOLEAN, page : SUBSET Pages, mutated : BOOLEAN]
  /\ Applying \in [busy : BOOLEAN, page : SUBSET Pages, mutated : BOOLEAN]
BY Zenon DEF Idle, Applying

LEMMA NoBackupTyped ==
  NoBackup \in [active : BOOLEAN, left : SUBSET Pages, image : [Pages -> Contents],
                snapshot : [Pages -> Txns], disturbed : BOOLEAN]
<1>1. 0 \in Txns /\ 0 \in Contents
  BY PagerAssumption DEF Txns, Contents
<1> QED BY <1>1, Zenon DEF NoBackup

\* Writing back pages whose contents the synced log holds, too.
LEMMA WritesKeep ==
  ASSUME PInv, pc # "down", pc # "freshSync",
         UNCHANGED <<pc, wal, walSynced, walOld, main, txn, ghosts>>,
         \A q \in Pages : view(q)' = view(q),
         file' \in [Pages -> Contents], unsynced' \in [Pages -> SUBSET Txns],
         \A q \in Pages :
           \/ file'[q] = file[q] /\ unsynced'[q] = unsynced[q]
           \/ /\ file'[q] = view(q) /\ view(q) \in Txns
              /\ unsynced'[q] = unsynced[q] \cup {view(q)}
              /\ \E i \in Images(wal, walSynced, q) : wal[i].buf = view(q)
  PROVE  /\ \A q \in Pages :
              /\ unsynced'[q] = {} => file'[q] = main'[q]
              /\ file'[q] \in unsynced'[q] \cup {main'[q]}
              /\ unsynced'[q] # {} \/ main'[q] = Torn => Images(wal, walSynced, q)' # {}
              /\ file'[q] # Torn
         /\ Newer'
         /\ \A n \in walSynced'..Len(wal') :
              Recoverable(wal', n, main', unsynced', acked', attempts', failed')
         /\ \A q \in Pages : \A b : Replays(wal, walSynced, q, b, main[q], unsynced[q]) =>
              Replays(wal', walSynced', q, b, main'[q], unsynced'[q])
         /\ \A q \in Pages : \A b : Ends(wal, q, b, main[q], unsynced[q]) =>
              Ends(wal', q, b, main'[q], unsynced'[q])
<1>1. PagerTypes /\ Cached /\ Newer /\ Logs
  BY Zenon DEF PInv
<1>2. /\ pc' = pc /\ wal' = wal /\ walSynced' = walSynced /\ walOld' = walOld /\ main' = main
      /\ txn' = txn /\ acked' = acked /\ attempts' = attempts /\ failed' = failed
  BY Zenon DEF ghosts
<1>3. \A q : Images(wal, walSynced, q)' = Images(wal, walSynced, q)
  BY <1>2, Zenon DEF Images
<1>4. ASSUME NEW q \in Pages
      PROVE  /\ unsynced'[q] = {} => file'[q] = main'[q]
             /\ file'[q] \in unsynced'[q] \cup {main'[q]}
             /\ unsynced'[q] # {} \/ main'[q] = Torn => Images(wal, walSynced, q)' # {}
             /\ file'[q] # Torn
  <2>1. /\ unsynced[q] = {} => file[q] = main[q]
        /\ file[q] \in unsynced[q] \cup {main[q]}
        /\ unsynced[q] # {} \/ main[q] = Torn => Images(wal, walSynced, q) # {}
        /\ file[q] # Torn
    BY <1>1, Zenon DEF Cached
  <2>2. CASE file'[q] = file[q] /\ unsynced'[q] = unsynced[q]
    BY <2>1, <2>2, <1>2, <1>3, Zenon
  <2>3. CASE /\ file'[q] = view(q) /\ view(q) \in Txns
             /\ unsynced'[q] = unsynced[q] \cup {view(q)}
             /\ \E i \in Images(wal, walSynced, q) : wal[i].buf = view(q)
    <3>1. view(q) # Torn
      BY <2>3, PagerAssumption DEF Txns, Torn
    <3> QED BY <3>1, <2>3, <1>2, <1>3, Zenon
  <2> QED BY <2>2, <2>3, Zenon
<1>5. Newer'
  <2>1. ASSUME NEW q \in Pages
        PROVE  /\ \A b \in unsynced'[q] : b <= view(q)
               /\ \A b \in unsynced'[q] : b <= acked[q]
    <3>1. CASE unsynced'[q] = unsynced[q]
      BY <3>1, <1>1, Zenon DEF Newer
    <3>2. CASE /\ view(q) \in Txns /\ unsynced'[q] = unsynced[q] \cup {view(q)}
               /\ \E i \in Images(wal, walSynced, q) : wal[i].buf = view(q)
      BY <3>2, <1>1, PagerAssumption DEF Newer, Txns
    <3> QED BY <3>1, <3>2, Zenon
  <2>2. \A i \in 1..Len(wal) : view(wal[i].page)' = view(wal[i].page)
    BY <1>1, <1>2, WalTyped, Zenon
  <2> QED BY <1>1, <1>2, <1>3, <2>1, <2>2 DEF Newer
<1>6. ASSUME NEW n \in walSynced..Len(wal)
      PROVE  Recoverable(wal, n, main, unsynced', acked, attempts, failed)
  <2>1. Recoverable(wal, n, main, unsynced, acked, attempts, failed)
    BY <1>1, Zenon DEF Logs
  <2>2. n \in Nat /\ \A i \in 1..n : wal[i].buf \in Int
    BY <1>1, WalTyped
  <2>3. \A p \in Pages : Images(wal, walSynced, p) \subseteq Images(wal, n, p)
    BY <1>1, <2>2, WalTyped, ImagesGrow
  <2>4. \A p \in Pages : \/ unsynced'[p] = unsynced[p]
                         \/ \E i \in Images(wal, n, p) : unsynced'[p] = unsynced[p] \cup {wal[i].buf}
    BY <2>3, Zenon
  <2> QED BY <2>1, <2>2, <2>4, RecoverableWrite, Zenon
<1>7. ASSUME NEW q \in Pages, NEW b
      PROVE  /\ Replays(wal, walSynced, q, b, main[q], unsynced[q]) =>
                  Replays(wal, walSynced, q, b, main[q], unsynced'[q])
             /\ Ends(wal, q, b, main[q], unsynced[q]) => Ends(wal, q, b, main[q], unsynced'[q])
  <2>1. unsynced'[q] = unsynced[q] \/ \E i \in Images(wal, walSynced, q) : TRUE
    BY Zenon
  <2>2. CASE unsynced'[q] = unsynced[q]
    BY <2>2, Zenon
  <2>3. CASE \E i \in Images(wal, walSynced, q) : TRUE
    <3>1. PICK i \in 1..Len(wal) : wal[i].page = q
      BY <2>3, <1>1 DEF Images, PagerTypes
    <3> QED BY <2>3, <3>1, Zenon DEF Replays, Ends
  <2> QED BY <2>1, <2>2, <2>3, Zenon
<1> QED BY <1>2, <1>4, <1>5, <1>6, <1>7, Zenon
-----------------------------------------------------------------------------

\* Fetch changes no page's bytes: the frame it loads has the file's, and one it
\* evicts leaves the file with its own, which the synced log holds, too.
LEMMA FetchSteps ==
  ASSUME PInv, NEW p \in Pages, Fetch(p)
  PROVE  /\ p \in resident' /\ resident' \subseteq resident \cup {p}
         /\ frames' = [q \in resident' |-> frames'[q]]
         /\ \A q \in resident' :
              IF q \in resident THEN frames'[q] = frames[q]
                                ELSE frames'[q] = CleanFrame(file[q]) /\ file[q] \in Txns
         /\ \A q \in Pages : view(q)' = view(q)
         /\ \A q \in uncommitted : q \in resident'
         /\ file' \in [Pages -> Contents] /\ unsynced' \in [Pages -> SUBSET Txns]
         /\ \A q \in Pages :
              \/ file'[q] = file[q] /\ unsynced'[q] = unsynced[q]
              \/ /\ ~backup.active /\ q \notin resident'
                 /\ file'[q] = view(q) /\ view(q) \in Txns
                 /\ unsynced'[q] = unsynced[q] \cup {view(q)}
                 /\ \E i \in Images(wal, walSynced, q) : wal[i].buf = view(q)
<1>1. /\ PagerTypes /\ Cached
      /\ hand.page = {}
  BY Zenon DEF PInv, Fetch, Applying
<1>2. /\ resident \subseteq Pages /\ frames = [q \in resident |-> frames[q]]
      /\ file \in [Pages -> Contents] /\ unsynced \in [Pages -> SUBSET Txns]
  BY <1>1, Zenon DEF PagerTypes
<1>3. file[p] \in Contents /\ \A q \in resident : frames[q].buf \in Txns
  BY <1>1, Zenon DEF PagerTypes
<1>4. CASE p \in resident /\ UNCHANGED <<frames, file, unsynced>>
  <2>1. resident' = resident /\ \A q \in Pages : view(q)' = view(q)
    BY <1>4, Zenon DEF resident, view
  <2> QED BY <1>2, <1>4, <2>1, Zenon DEF uncommitted
<1>5. CASE p \notin resident /\ load(p, resident) /\ UNCHANGED <<file, unsynced>>
  <2>1. resident' = resident \cup {p} /\ file[p] \in Txns
    BY <1>3, <1>5, Zenon DEF resident, load, Contents
  <2>2. \A q \in resident' : frames'[q] = IF q = p THEN CleanFrame(file[p]) ELSE frames[q]
    BY <2>1, <1>5, Zenon DEF load
  <2>3. frames' = [q \in resident' |-> frames'[q]]
    BY <1>5, Zenon DEF load, resident
  <2>4. \A q \in Pages : view(q)' = view(q)
    BY <1>5, <2>1, <2>2 DEF view, CleanFrame
  <2> QED BY <1>2, <1>5, <2>1, <2>2, <2>3, <2>4, Zenon DEF uncommitted
<1>6. ASSUME NEW v \in resident, p \notin resident, evictable(v), load(p, resident \ {v}),
             IF frames[v].dirty THEN writeMain(v, image(frames[v]))
                                ELSE UNCHANGED <<file, unsynced>>
      PROVE  /\ p \in resident' /\ resident' \subseteq resident \cup {p}
             /\ frames' = [q \in resident' |-> frames'[q]]
             /\ \A q \in resident' :
                  IF q \in resident THEN frames'[q] = frames[q]
                                    ELSE frames'[q] = CleanFrame(file[q]) /\ file[q] \in Txns
             /\ \A q \in Pages : view(q)' = view(q)
             /\ \A q \in uncommitted : q \in resident'
             /\ file' \in [Pages -> Contents] /\ unsynced' \in [Pages -> SUBSET Txns]
             /\ \A q \in Pages :
                  \/ file'[q] = file[q] /\ unsynced'[q] = unsynced[q]
                  \/ /\ ~backup.active /\ q \notin resident'
                     /\ file'[q] = view(q) /\ view(q) \in Txns
                     /\ unsynced'[q] = unsynced[q] \cup {view(q)}
                     /\ \E i \in Images(wal, walSynced, q) : wal[i].buf = view(q)
  <2>1. /\ resident' = (resident \ {v}) \cup {p} /\ file[p] \in Txns
        /\ v \notin resident' /\ v # p /\ v \in Pages
    BY <1>2, <1>3, <1>6, Zenon DEF resident, load, Contents
  <2>2. \A q \in resident' : frames'[q] = IF q = p THEN CleanFrame(file[p]) ELSE frames[q]
    BY <2>1, <1>6, Zenon DEF load
  <2>3. frames' = [q \in resident' |-> frames'[q]]
    BY <1>6, Zenon DEF load, resident
  <2>4. /\ ~mutating(v) /\ view(v) = frames[v].buf /\ frames[v].buf \in Txns
        /\ v \notin uncommitted
    BY <1>1, <1>3, <1>6 DEF mutating, view, uncommitted, evictable, PagerTypes
  <2>5. CASE ~frames[v].dirty
    <3>1. file' = file /\ unsynced' = unsynced
      BY <1>6, <2>5, Zenon
    <3>2. frames[v].buf = file[v]
      BY <1>1, <2>4, <2>5, Zenon DEF Cached
    <3>3. \A q \in Pages : view(q)' = view(q)
      BY <1>6, <2>1, <2>2, <3>1, <3>2 DEF view, CleanFrame
    <3> QED BY <1>2, <1>6, <2>1, <2>2, <2>3, <2>4, <3>1, <3>3, Zenon DEF uncommitted
  <2>6. CASE frames[v].dirty
    <3>1. v \in toFold /\ ~backup.active
      BY <1>6, <2>6, Zenon DEF toFold, evictable
    <3>2. frames[v].sealed /\ \E i \in Images(wal, walSynced, v) : wal[i].buf = frames[v].buf
      BY <1>1, <2>4, <3>1, Zenon DEF Cached
    <3>3. /\ file' = [file EXCEPT ![v] = frames[v].buf]
          /\ unsynced' = [unsynced EXCEPT ![v] = @ \cup {frames[v].buf}]
      BY <1>6, <2>6, <3>2, Zenon DEF writeMain, image
    <3>4. \A q \in Pages : view(q)' = view(q)
      BY <1>2, <1>6, <2>1, <2>2, <3>3 DEF view, CleanFrame
    <3>5. file' \in [Pages -> Contents] /\ unsynced' \in [Pages -> SUBSET Txns]
      BY <1>2, <2>1, <2>4, <3>3, Zenon DEF Contents
    <3>6. \A q \in Pages : q # v => file'[q] = file[q] /\ unsynced'[q] = unsynced[q]
      BY <1>2, <3>3, Zenon
    <3>7. file'[v] = frames[v].buf /\ unsynced'[v] = unsynced[v] \cup {frames[v].buf}
      BY <1>2, <2>1, <3>3, Zenon
    <3> QED BY <1>6, <2>1, <2>2, <2>3, <2>4, <3>1, <3>2, <3>4, <3>5, <3>6, <3>7, Zenon DEF uncommitted
  <2> QED BY <2>5, <2>6, Zenon
<1>7. \/ p \in resident /\ UNCHANGED <<frames, file, unsynced>>
      \/ p \notin resident /\ load(p, resident) /\ UNCHANGED <<file, unsynced>>
      \/ \E v \in resident :
           /\ p \notin resident /\ evictable(v) /\ load(p, resident \ {v})
           /\ IF frames[v].dirty THEN writeMain(v, image(frames[v]))
                                 ELSE UNCHANGED <<file, unsynced>>
  BY Zenon DEF Fetch
<1> QED BY <1>4, <1>5, <1>6, <1>7, Zenon

LEMMA FetchKeeps ==
  ASSUME PInv, NEW p \in Pages, Fetch(p)
  PROVE  PInv'
<1>1. /\ PagerTypes /\ Phases /\ Cached /\ Newer /\ Logs /\ Served /\ Copied
      /\ pc = "free" /\ pc' = "free" /\ hand = Applying /\ hand' = [Applying EXCEPT !.page = {p}]
  BY Zenon DEF PInv, Fetch
<1>2. /\ UNCHANGED <<pc, after, nextLSN, walFlushedLSN, wal, walSynced, walOld, main, txn, backup>>
      /\ UNCHANGED <<acked, attempts, failed>> /\ UNCHANGED ghosts
  BY Zenon DEF Fetch, walVars, ghosts
<1>3. \A q : ~mutating(q) /\ ~mutating(q)'
  BY <1>1, Zenon DEF mutating, Applying
<1>4. \A q : Images(wal, walSynced, q)' = Images(wal, walSynced, q)
  BY <1>2, Zenon DEF Images
<1>5. /\ resident' \subseteq Pages
      /\ \A q \in resident' : IF q \in resident THEN frames'[q] = frames[q]
                              ELSE frames'[q].buf = file[q] /\ ~frames'[q].dirty
      /\ \A q \in resident' : file'[q] = file[q]
      /\ \A q \in resident' : frames'[q] \in [buf : Txns, sealed : BOOLEAN, dirty : BOOLEAN, lsn : 0..nextLSN]
  <2>1. resident \subseteq Pages /\ nextLSN \in Nat
    BY <1>1, Zenon DEF PagerTypes
  <2>2. resident' \subseteq Pages /\ \A q \in resident' : file'[q] = file[q]
    BY <2>1, FetchSteps
  <2>3. ASSUME NEW q \in resident', q \in resident
        PROVE  /\ frames'[q] = frames[q]
               /\ frames'[q] \in [buf : Txns, sealed : BOOLEAN, dirty : BOOLEAN, lsn : 0..nextLSN]
    BY <1>1, <2>3, FetchSteps, Zenon DEF PagerTypes
  <2>4. ASSUME NEW q \in resident', q \notin resident
        PROVE  /\ frames'[q].buf = file[q] /\ ~frames'[q].dirty
               /\ frames'[q] \in [buf : Txns, sealed : BOOLEAN, dirty : BOOLEAN, lsn : 0..nextLSN]
    <3>1. frames'[q] = CleanFrame(file[q]) /\ file[q] \in Txns
      BY <2>4, FetchSteps, Zenon
    <3> QED BY <2>1, <3>1 DEF CleanFrame
  <2> QED BY <2>2, <2>3, <2>4, Zenon
<1>6. uncommitted' = uncommitted /\ toFold' \subseteq toFold
  BY <1>2, <1>5, FetchSteps, Zenon DEF uncommitted, toFold
<1>7. /\ \A q \in Pages :
           /\ unsynced'[q] = {} => file'[q] = main'[q]
           /\ file'[q] \in unsynced'[q] \cup {main'[q]}
           /\ unsynced'[q] # {} \/ main'[q] = Torn => Images(wal, walSynced, q)' # {}
           /\ file'[q] # Torn
      /\ Newer'
      /\ \A n \in walSynced'..Len(wal') :
           Recoverable(wal', n, main', unsynced', acked', attempts', failed')
      /\ \A q \in Pages : \A b : Replays(wal, walSynced, q, b, main[q], unsynced[q]) =>
           Replays(wal', walSynced', q, b, main'[q], unsynced'[q])
      /\ \A q \in Pages : \A b : Ends(wal, q, b, main[q], unsynced[q]) =>
           Ends(wal', q, b, main'[q], unsynced'[q])
  BY <1>1, <1>2, FetchSteps, WritesKeep, Zenon
<1>8. PagerTypes'
  BY <1>1, <1>2, <1>5, FetchSteps, Zenon DEF PagerTypes, Applying
<1>9. Phases'
  BY <1>1, <1>2, FetchSteps, Zenon DEF Phases, Applying
<1>10. Cached'
  <2>1. \A q \in resident' : ~frames'[q].dirty => frames'[q].buf = file'[q]
    BY <1>1, <1>3, <1>5, Zenon DEF Cached
  <2>2. \A q \in toFold' : /\ frames'[q].sealed
                           /\ \E i \in Images(wal, walSynced, q)' : wal'[i].buf = frames'[q].buf
    BY <1>1, <1>2, <1>3, <1>4, <1>5, <1>6 DEF Cached, toFold
  <2> QED BY <1>7, <2>1, <2>2, Zenon DEF Cached
<1>11. Logs'
  BY <1>1, <1>3, <1>6, <1>7, FetchSteps DEF Logs
<1>12. Syncing'
  BY <1>1, Zenon DEF Syncing
<1>13. Served'
  <2>1. hand' # Idle
    BY <1>1, Zenon DEF Idle, Applying
  <2> QED BY <1>1, <1>2, <1>3, <1>6, <1>7, <2>1, FetchSteps, Zenon DEF Served
<1>14. Copied'
  <2>1. backup.active => file' = file
    BY FetchSteps, <1>1 DEF PagerTypes
  <2> QED BY <1>1, <1>2, <2>1, Zenon DEF Copied
<1> QED BY <1>7, <1>8, <1>9, <1>10, <1>11, <1>12, <1>13, <1>14, Zenon DEF PInv

\* Steps that touch neither frames nor files: the writer begins, gives up or has
\* nothing to commit, and the checkpoint begins.
LEMMA QuietKeeps ==
  ASSUME PInv, pc = "free", hand.page = {}, pc' \in {"free", "ckpt"},
         UNCHANGED <<frames, nextLSN, walFlushedLSN, walVars, diskVars, acked, attempts>>,
         after' \in {"open", "closed", "backup"}, txn' \in Txns, txn <= txn',
         hand' \in {Idle, Applying}, pc' = "ckpt" => hand' = Idle,
         failed' \in BOOLEAN, failed => failed',
         ~failed' /\ hand' = Idle => hand = Idle \/ uncommitted = {}
  PROVE  PagerTypes' /\ Phases' /\ Cached' /\ Newer' /\ Logs' /\ Syncing' /\ Served'
<1>1. PagerTypes /\ Phases /\ Cached /\ Newer /\ Logs /\ Served
  BY Zenon DEF PInv
<1>2. /\ UNCHANGED <<frames, nextLSN, walFlushedLSN, wal, walSynced, walOld>>
      /\ UNCHANGED <<file, main, unsynced, acked, attempts>>
  BY Zenon DEF walVars, diskVars
<1>3. hand'.page = {} /\ ~hand'.mutated
  BY DEF Idle, Applying
<1>4. \A q : ~mutating(q) /\ ~mutating(q)'
  BY <1>3, Zenon DEF mutating
<1>5. resident' = resident /\ uncommitted' = uncommitted /\ toFold' = toFold /\ \A q : view(q)' = view(q)
  BY <1>2, Zenon DEF resident, uncommitted, toFold, view
<1>6. PagerTypes'
  <2>1. hand' \in [busy : BOOLEAN, page : SUBSET Pages, mutated : BOOLEAN]
    BY HandTyped, Zenon
  <2> QED BY <1>1, <1>2, <1>5, <2>1, Zenon DEF PagerTypes
<1>7. Phases'
  BY <1>3, <1>5, Zenon DEF Phases
<1>8. Cached'
  BY <1>1, <1>2, <1>4, <1>5 DEF Cached, Images
<1>9. Newer'
  <2>1. txn \in Nat /\ txn' \in Nat
    BY <1>1, PagerAssumption DEF PagerTypes, Txns
  <2>2. \A p \in Pages : view(p) \in Int /\ acked[p] \in Int
    BY <1>1, PagerAssumption DEF PagerTypes, view, Txns, Contents, Torn
  <2>3. \A p \in Pages : view(p) <= txn' /\ acked[p] <= txn'
    BY <1>1, <2>1, <2>2 DEF Newer
  <2>4. /\ \A i \in 1..Len(wal) : wal[i].buf <= txn'
        /\ \A i \in 1..Len(walOld) : walOld[i].buf <= txn'
    BY <1>1, <2>1, WalTyped DEF Newer
  <2> QED BY <1>1, <1>2, <1>5, <2>3, <2>4, Zenon DEF Newer, Images
<1>10. Logs'
  <2>1. \A n \in walSynced..Len(wal) : Recoverable(wal, n, main, unsynced, acked, attempts, failed')
    BY <1>1, RecoverableMore DEF Logs
  <2> QED BY <1>1, <1>2, <1>4, <1>5, <2>1, Zenon DEF Logs
<1>11. Syncing'
  BY Zenon DEF Syncing
<1>12. Served'
  BY <1>1, <1>2, <1>4, <1>5, Zenon DEF Served
<1> QED BY <1>6, <1>7, <1>8, <1>9, <1>10, <1>11, <1>12, Zenon

LEMMA ApplyKeeps ==
  ASSUME PInv, Apply
  PROVE  PInv'
<1>1. /\ pc = "free" /\ pc' = "free" /\ hand = Idle /\ hand' = Applying
      /\ txn < MaxTxns /\ txn' = txn + 1 /\ after' = after /\ backup' = backup /\ file' = file
      /\ failed' = failed
      /\ UNCHANGED <<frames, nextLSN, walFlushedLSN, walVars, diskVars, acked, attempts>>
  BY Zenon DEF Apply, ghosts, diskVars
<1>2. PagerTypes /\ Copied
  BY Zenon DEF PInv
<1>3. txn' \in Txns /\ txn <= txn'
  BY <1>1, <1>2, PagerAssumption DEF PagerTypes, Txns
<1>4. hand.page = {} /\ hand' # Idle
  BY <1>1, Zenon DEF Idle, Applying
<1>5. PagerTypes' /\ Phases' /\ Cached' /\ Newer' /\ Logs' /\ Syncing' /\ Served'
  BY <1>1, <1>2, <1>3, <1>4, QuietKeeps, Zenon DEF PagerTypes
<1>6. Copied'
  BY <1>1, <1>2, Zenon DEF Copied
<1> QED BY <1>5, <1>6, Zenon DEF PInv

LEMMA ApplyFailsKeeps ==
  ASSUME PInv, ApplyFails
  PROVE  PInv'
<1>1. /\ pc = "free" /\ pc' = "free" /\ hand = Applying /\ hand' = Idle /\ failed' = TRUE
      /\ txn' = txn /\ after' = after /\ backup' = backup /\ file' = file
      /\ UNCHANGED <<frames, nextLSN, walFlushedLSN, walVars, diskVars, acked, attempts>>
  BY Zenon DEF ApplyFails, diskVars
<1>2. PagerTypes /\ Copied
  BY Zenon DEF PInv
<1>3. txn' \in Txns /\ txn <= txn'
  BY <1>1, <1>2, PagerAssumption DEF PagerTypes, Txns
<1>4. hand.page = {}
  BY <1>1, Zenon DEF Applying
<1>5. PagerTypes' /\ Phases' /\ Cached' /\ Newer' /\ Logs' /\ Syncing' /\ Served'
  BY <1>1, <1>2, <1>3, <1>4, QuietKeeps, Zenon DEF PagerTypes
<1>6. Copied'
  BY <1>1, <1>2, Zenon DEF Copied
<1> QED BY <1>5, <1>6, Zenon DEF PInv

LEMMA CommitNothingKeeps ==
  ASSUME PInv, commitNothing
  PROVE  PInv'
<1>1. /\ pc = "free" /\ pc' = "free" /\ hand = Applying /\ hand' = Idle /\ uncommitted = {}
      /\ txn' = txn /\ after' = after /\ backup' = backup /\ file' = file /\ failed' = failed
      /\ UNCHANGED <<frames, nextLSN, walFlushedLSN, walVars, diskVars, acked, attempts>>
  BY Zenon DEF commitNothing, diskVars, ghosts
<1>2. PagerTypes /\ Copied
  BY Zenon DEF PInv
<1>3. txn' \in Txns /\ txn <= txn'
  BY <1>1, <1>2, PagerAssumption DEF PagerTypes, Txns
<1>4. hand.page = {}
  BY <1>1, Zenon DEF Applying
<1>5. PagerTypes' /\ Phases' /\ Cached' /\ Newer' /\ Logs' /\ Syncing' /\ Served'
  BY <1>1, <1>2, <1>3, <1>4, QuietKeeps, Zenon DEF PagerTypes
<1>6. Copied'
  BY <1>1, <1>2, Zenon DEF Copied
<1> QED BY <1>5, <1>6, Zenon DEF PInv

\* Checkpoint, Close and Backup begin between transactions.
LEMMA StartCheckpointKeeps ==
  ASSUME PInv, ~Interleaved, NEW then \in {"open", "closed", "backup"}, startCheckpoint(then),
         then = "closed" => ~backup.active
  PROVE  PInv'
<1>1. /\ pc = "free" /\ pc' = "ckpt" /\ hand = Idle /\ hand' = Idle /\ after' = then
      /\ txn' = txn /\ file' = file /\ failed' = failed
      /\ backup' = [backup EXCEPT !.disturbed = backup.active]
      /\ UNCHANGED <<frames, nextLSN, walFlushedLSN, walVars, diskVars, acked, attempts>>
  BY Zenon DEF startCheckpoint, diskVars, ghosts
<1>2. PagerTypes /\ Copied
  BY Zenon DEF PInv
<1>3. txn' \in Txns /\ txn <= txn'
  BY <1>1, <1>2, PagerAssumption DEF PagerTypes, Txns
<1>4. hand.page = {}
  BY <1>1, Zenon DEF Idle
<1>5. PagerTypes' /\ Phases' /\ Cached' /\ Newer' /\ Logs' /\ Syncing' /\ Served'
  BY <1>1, <1>2, <1>3, <1>4, QuietKeeps, Zenon DEF PagerTypes
<1>6. Copied'
  BY <1>1, <1>2, Zenon DEF Copied
<1> QED BY <1>5, <1>6, Zenon DEF PInv

\* Nothing but the backup is in the state of the other parts.
LEMMA SameKeeps ==
  ASSUME PInv, UNCHANGED <<pc, after, frames, nextLSN, walFlushedLSN, walVars, diskVars,
                           txn, hand, ghosts>>
  PROVE  PagerTypes' /\ Phases' /\ Cached' /\ Newer' /\ Logs' /\ Syncing' /\ Served'
<1>1. PagerTypes /\ Phases /\ Cached /\ Newer /\ Logs /\ Syncing /\ Served
  BY Zenon DEF PInv
<1>2. /\ UNCHANGED <<pc, after, frames, nextLSN, walFlushedLSN, wal, walSynced, walOld>>
      /\ UNCHANGED <<file, main, unsynced, txn, hand, acked, attempts, failed>>
  BY Zenon DEF walVars, diskVars, ghosts
<1>3. /\ resident' = resident /\ uncommitted' = uncommitted /\ toFold' = toFold /\ View' = View
      /\ \A q : view(q)' = view(q) /\ (mutating(q)' <=> mutating(q))
  BY <1>2, Zenon DEF resident, uncommitted, toFold, view, View, mutating
<1>4. PagerTypes'
  BY <1>1, <1>2, <1>3, Zenon DEF PagerTypes
<1>5. Phases'
  BY <1>1, <1>2, <1>3, Zenon DEF Phases
<1>6. Cached'
  BY <1>1, <1>2, <1>3 DEF Cached, Images
<1>7. Newer'
  BY <1>1, <1>2, <1>3, Zenon DEF Newer, Images
<1>8. Logs'
  BY <1>1, <1>2, <1>3, Zenon DEF Logs
<1>9. Syncing'
  BY <1>1, <1>2, <1>3, Zenon DEF Syncing
<1>10. Served'
  BY <1>1, <1>2, <1>3, Zenon DEF Served
<1> QED BY <1>4, <1>5, <1>6, <1>7, <1>8, <1>9, <1>10, Zenon

LEMMA BackupPageKeeps ==
  ASSUME PInv, NEW p \in Pages, backupPage(p)
  PROVE  PInv'
<1>1. /\ backup.active /\ p \in backup.left
      /\ backup' = [backup EXCEPT !.left = @ \ {p}, !.image[p] = file[p]]
      /\ UNCHANGED <<pc, after, failed, file>>
      /\ UNCHANGED <<pc, after, frames, nextLSN, walFlushedLSN, walVars, diskVars, txn, hand, ghosts>>
  BY Zenon DEF backupPage, ghosts, diskVars
<1>2. Copied /\ PagerTypes
  BY Zenon DEF PInv
<1>3. Copied'
  <2>1. /\ backup \in [active : BOOLEAN, left : SUBSET Pages, image : [Pages -> Contents],
                       snapshot : [Pages -> Txns], disturbed : BOOLEAN]
        /\ file[p] \in Contents
    BY <1>2, Zenon DEF Copied, PagerTypes
  <2>2. backup' \in [active : BOOLEAN, left : SUBSET Pages, image : [Pages -> Contents],
                     snapshot : [Pages -> Txns], disturbed : BOOLEAN]
    BY <1>1, <2>1, Zenon
  <2>3. /\ backup'.active = backup.active /\ backup'.disturbed = backup.disturbed
        /\ backup'.left = backup.left \ {p} /\ backup'.snapshot = backup.snapshot
        /\ \A q \in Pages : backup'.image[q] = IF q = p THEN file[p] ELSE backup.image[q]
    BY <1>1, <2>1, Zenon
  <2> QED BY <1>1, <1>2, <2>2, <2>3 DEF Copied
<1>4. PagerTypes' /\ Phases' /\ Cached' /\ Newer' /\ Logs' /\ Syncing' /\ Served'
  BY <1>1, SameKeeps, Zenon
<1> QED BY <1>3, <1>4, Zenon DEF PInv

LEMMA BackupDoneKeeps ==
  ASSUME PInv, backupDone
  PROVE  PInv'
<1>1. /\ backup' = NoBackup
      /\ UNCHANGED <<pc, after, frames, nextLSN, walFlushedLSN, walVars, diskVars, txn, hand, ghosts>>
  BY Zenon DEF backupDone
<1>2. Copied'
  BY <1>1, NoBackupTyped, Zenon DEF Copied, NoBackup
<1>3. PagerTypes' /\ Phases' /\ Cached' /\ Newer' /\ Logs' /\ Syncing' /\ Served'
  BY <1>1, SameKeeps, Zenon
<1> QED BY <1>2, <1>3, Zenon DEF PInv

LEMMA StutterKeeps ==
  ASSUME PInv, UNCHANGED vars
  PROVE  PInv'
<1>1. /\ UNCHANGED <<pc, after, failed, file, backup>>
      /\ UNCHANGED <<pc, after, frames, nextLSN, walFlushedLSN, walVars, diskVars, txn, hand, ghosts>>
  BY Zenon DEF vars, ghosts, diskVars
<1>2. Copied'
  BY <1>1, Zenon DEF Copied, PInv
<1>3. PagerTypes' /\ Phases' /\ Cached' /\ Newer' /\ Logs' /\ Syncing' /\ Served'
  BY <1>1, SameKeeps, Zenon
<1> QED BY <1>2, <1>3, Zenon DEF PInv

\* The writer changes the bytes of the page it holds to the newest there are.
LEMMA MutateKeeps ==
  ASSUME PInv, NEW p \in Pages, Mutate(p)
  PROVE  PInv'
<1>1. /\ PagerTypes /\ Phases /\ Cached /\ Newer /\ Logs /\ Served /\ Copied
      /\ p \in hand.page /\ ~hand.mutated /\ hand' = [hand EXCEPT !.mutated = TRUE]
      /\ frames' = [frames EXCEPT ![p].buf = txn, ![p].sealed = FALSE]
  BY Zenon DEF PInv, Mutate
<1>2. /\ UNCHANGED <<pc, after, nextLSN, walFlushedLSN, wal, walSynced, walOld, backup>>
      /\ UNCHANGED <<file, main, unsynced, txn, acked, attempts, failed>>
  BY Zenon DEF Mutate, walVars, diskVars, ghosts
<1>3. pc = "free" /\ p \in resident /\ hand.busy
  BY <1>1, Zenon DEF Phases
<1>4. /\ hand' \in [busy : BOOLEAN, page : SUBSET Pages, mutated : BOOLEAN]
      /\ hand'.page = hand.page /\ hand'.mutated /\ hand'.busy
  BY <1>1, <1>3, Zenon DEF PagerTypes
<1>5. \A q : ~mutating(q) /\ (mutating(q)' <=> q \in hand.page)
  BY <1>1, <1>4, Zenon DEF mutating
<1>6. /\ resident \subseteq Pages /\ resident' = resident /\ frames' = [q \in resident |-> frames'[q]]
      /\ \A q \in resident : q # p => frames'[q] = frames[q]
      /\ frames'[p] = [frames[p] EXCEPT !.buf = txn, !.sealed = FALSE]
  BY <1>1, <1>3, Zenon DEF PagerTypes, resident
<1>7. /\ frames'[p] \in [buf : Txns, sealed : BOOLEAN, dirty : BOOLEAN, lsn : 0..nextLSN]
      /\ frames'[p].buf = txn
      /\ frames'[p].dirty = frames[p].dirty /\ frames'[p].lsn = frames[p].lsn
  <2>1. frames[p] \in [buf : Txns, sealed : BOOLEAN, dirty : BOOLEAN, lsn : 0..nextLSN] /\ txn \in Txns
    BY <1>1, <1>3, Zenon DEF PagerTypes
  <2> QED BY <1>6, <2>1, Zenon
<1>8. /\ uncommitted' = uncommitted /\ toFold' = toFold
      /\ \A q \in Pages : view(q)' = IF q = p THEN txn ELSE view(q)
  <2>1. \A q \in resident : frames'[q].dirty = frames[q].dirty /\ frames'[q].lsn = frames[q].lsn
    BY <1>6, <1>7, Zenon
  <2>2. uncommitted' = uncommitted /\ toFold' = toFold
    BY <1>2, <1>6, <2>1, Zenon DEF uncommitted, toFold
  <2>3. \A q \in Pages : view(q)' = IF q = p THEN txn ELSE view(q)
    BY <1>2, <1>3, <1>6, <1>7, Zenon DEF view
  <2> QED BY <2>2, <2>3, Zenon
<1>9. PagerTypes'
  BY <1>1, <1>2, <1>4, <1>6, <1>7, Zenon DEF PagerTypes
<1>10. Phases'
  BY <1>1, <1>2, <1>3, <1>4, <1>6, Zenon DEF Phases
<1>11. Cached'
  <2>1. \A q \in resident' : ~frames'[q].dirty /\ ~mutating(q)' => frames'[q].buf = file'[q]
    BY <1>1, <1>2, <1>5, <1>6, Zenon DEF Cached
  <2>2. \A q \in toFold' : ~mutating(q)' =>
          /\ frames'[q].sealed
          /\ \E i \in Images(wal, walSynced, q) : wal[i].buf = frames'[q].buf
    <3>1. toFold \subseteq resident
      BY Zenon DEF toFold
    <3> QED BY <1>1, <1>5, <1>6, <1>8, <3>1, ZenonT(30) DEF Cached
  <2>3. \A q : Images(wal, walSynced, q)' = Images(wal, walSynced, q)
    BY <1>2, Zenon DEF Images
  <2> QED BY <1>1, <1>2, <2>1, <2>2, <2>3, Zenon DEF Cached
<1>12. Newer'
  <2>1. txn \in Nat /\ main[p] \in Int /\ unsynced[p] \subseteq Int /\ view(p) \in Int
    BY <1>1, <1>3, PagerAssumption DEF PagerTypes, Txns, Contents, Torn, view
  <2>2. main[p] <= txn /\ \A b \in unsynced[p] : b <= txn
    BY <1>1, <1>3, <2>1 DEF Newer
  <2>3. \A q \in Pages :
          /\ main[q] <= view(q)' /\ \A b \in unsynced[q] : b <= view(q)'
          /\ view(q)' <= txn
    BY <1>1, <1>3, <1>8, <2>1, <2>2 DEF Newer
  <2>4. \A i \in 1..Len(wal) : wal[i].buf <= view(wal[i].page)'
    <3> SUFFICES ASSUME NEW i \in 1..Len(wal)
                 PROVE  wal[i].buf <= view(wal[i].page)'
      BY Zenon
    <3>1. wal[i].page \in Pages /\ wal[i].buf <= txn /\ wal[i].buf <= view(wal[i].page)
      BY <1>1, <1>3, WalTyped, Zenon DEF Newer
    <3>2. view(wal[i].page)' = IF wal[i].page = p THEN txn ELSE view(wal[i].page)
      BY <1>2, <1>8, <3>1, Zenon
    <3> QED BY <3>1, <3>2, Zenon
  <2>5. \A i \in 1..Len(wal) : wal'[i].buf <= view(wal[i].page)'
    BY <2>4, <1>2, Zenon
  <2> QED BY <1>1, <1>2, <2>3, <2>5, Zenon DEF Newer, Images
<1>13. Logs'
  BY <1>1, <1>2, <1>3, <1>5, <1>8, Zenon DEF Logs
<1>14. Syncing'
  BY <1>2, <1>3, Zenon DEF Syncing
<1>15. Served'
  <2>1. hand' # Idle
    BY <1>4 DEF Idle
  <2> QED BY <1>1, <1>2, <1>3, <1>5, <1>8, <2>1, Zenon DEF Served
<1>16. Copied'
  BY <1>1, <1>2, Zenon DEF Copied
<1> QED BY <1>9, <1>10, <1>11, <1>12, <1>13, <1>14, <1>15, <1>16, Zenon DEF PInv

LEMMA MarkDirtyKeeps ==
  ASSUME PInv, NEW p \in Pages, MarkDirty(p)
  PROVE  PInv'
<1>1. /\ PagerTypes /\ Phases /\ Cached /\ Newer /\ Logs /\ Served /\ Copied
      /\ pc = "free" /\ p \in hand.page /\ hand.mutated /\ hand' = Applying
      /\ nextLSN' = nextLSN + 1
      /\ frames' = [frames EXCEPT ![p].dirty = TRUE, ![p].lsn = nextLSN + 1]
  BY Zenon DEF PInv, MarkDirty
<1>2. /\ UNCHANGED <<pc, after, walFlushedLSN, wal, walSynced, walOld, backup>>
      /\ UNCHANGED <<file, main, unsynced, txn, acked, attempts, failed>>
  BY Zenon DEF MarkDirty, walVars, diskVars, ghosts
<1>3. p \in resident /\ nextLSN \in Nat /\ walFlushedLSN \in 0..nextLSN
  BY <1>1, Zenon DEF Phases, PagerTypes
<1>4. hand'.page = {} /\ ~hand'.mutated /\ hand' # Idle
  BY <1>1, Zenon DEF Applying, Idle
<1>5. \A q : (mutating(q) <=> q = p) /\ ~mutating(q)'
  BY <1>1, <1>4, Zenon DEF mutating, Phases
<1>6. /\ resident \subseteq Pages /\ resident' = resident /\ frames' = [q \in resident |-> frames'[q]]
      /\ \A q \in resident : q # p => frames'[q] = frames[q]
      /\ frames'[p] = [frames[p] EXCEPT !.dirty = TRUE, !.lsn = nextLSN + 1]
  BY <1>1, <1>3, Zenon DEF PagerTypes, resident
<1>7. /\ frames'[p] \in [buf : Txns, sealed : BOOLEAN, dirty : BOOLEAN, lsn : 0..nextLSN']
      /\ frames'[p].buf = frames[p].buf /\ frames'[p].dirty /\ frames'[p].lsn = nextLSN + 1
  <2>1. frames[p] \in [buf : Txns, sealed : BOOLEAN, dirty : BOOLEAN, lsn : 0..nextLSN]
    BY <1>1, <1>3, Zenon DEF PagerTypes
  <2>2. nextLSN + 1 \in 0..nextLSN'
    BY <1>1, <1>3
  <2> QED BY <1>6, <2>1, <2>2, Zenon
<1>8. \A q \in Pages : view(q)' = view(q)
  BY <1>2, <1>3, <1>6, <1>7, Zenon DEF view
<1>9. uncommitted' = uncommitted \cup {p} /\ toFold' = toFold \ {p}
  <2>1. ASSUME NEW q \in resident, q # p
        PROVE  (q \in uncommitted' <=> q \in uncommitted) /\ (q \in toFold' <=> q \in toFold)
    BY <1>2, <1>6, <2>1, Zenon DEF uncommitted, toFold
  <2>2. p \in uncommitted' /\ p \notin toFold'
    <3>1. frames'[p].lsn > walFlushedLSN' /\ ~(frames'[p].lsn <= walFlushedLSN')
      BY <1>2, <1>3, <1>7
    <3> QED BY <1>3, <1>6, <1>7, <3>1, Zenon DEF uncommitted, toFold
  <2>3. uncommitted \subseteq resident /\ uncommitted' \subseteq resident
        /\ toFold \subseteq resident /\ toFold' \subseteq resident
    BY <1>6, Zenon DEF uncommitted, toFold
  <2> QED BY <1>3, <2>1, <2>2, <2>3, Zenon
<1>10. PagerTypes'
  <2>1. \A q \in resident : frames'[q] \in [buf : Txns, sealed : BOOLEAN, dirty : BOOLEAN, lsn : 0..nextLSN']
    <3>1. 0..nextLSN \subseteq 0..nextLSN'
      BY <1>1, <1>3
    <3>2. \A q \in resident : q # p =>
            frames[q] \in [buf : Txns, sealed : BOOLEAN, dirty : BOOLEAN, lsn : 0..nextLSN']
      BY <1>1, <3>1, Zenon DEF PagerTypes
    <3> QED BY <1>6, <1>7, <3>2, Zenon
  <2>2. nextLSN' \in Nat /\ walFlushedLSN' \in 0..nextLSN'
    BY <1>1, <1>2, <1>3
  <2> QED BY <1>1, <1>2, <1>6, <2>1, <2>2, HandTyped, Zenon DEF PagerTypes
<1>11. Phases'
  BY <1>1, <1>2, <1>4, Zenon DEF Phases
<1>12. Cached'
  <2>1. \A q \in resident' : ~frames'[q].dirty => frames'[q].buf = file'[q]
    BY <1>1, <1>2, <1>5, <1>6, <1>7, Zenon DEF Cached
  <2>2. \A q \in toFold' : /\ frames'[q].sealed
                           /\ \E i \in Images(wal, walSynced, q) : wal[i].buf = frames'[q].buf
    <3>1. toFold \subseteq resident
      BY Zenon DEF toFold
    <3> QED BY <1>1, <1>5, <1>6, <1>9, <3>1, ZenonT(30) DEF Cached
  <2>3. \A q : Images(wal, walSynced, q)' = Images(wal, walSynced, q)
    BY <1>2, Zenon DEF Images
  <2> QED BY <1>1, <1>2, <2>1, <2>2, <2>3, Zenon DEF Cached
<1>13. Newer'
  <2>1. \A i \in 1..Len(wal) : view(wal[i].page)' = view(wal[i].page)
    BY <1>1, <1>2, <1>8, WalTyped, Zenon
  <2> QED BY <1>1, <1>2, <1>8, <2>1, Zenon DEF Newer, Images
<1>14. Logs'
  BY <1>1, <1>2, <1>5, <1>8, <1>9, Zenon DEF Logs
<1>15. Syncing'
  BY <1>1, <1>2, Zenon DEF Syncing
<1>16. Served'
  BY <1>1, <1>2, <1>4, <1>5, <1>8, <1>9, Zenon DEF Served
<1>17. Copied'
  BY <1>1, <1>2, Zenon DEF Copied
<1> QED BY <1>10, <1>11, <1>12, <1>13, <1>14, <1>15, <1>16, <1>17, Zenon DEF PInv
-----------------------------------------------------------------------------

LEMMA CheckpointWriteKeeps ==
  ASSUME PInv, NEW p \in Pages, checkpointWrite(p)
  PROVE  PInv'
<1>1. /\ PagerTypes /\ Phases /\ Cached /\ Newer /\ Logs /\ Served /\ Copied
      /\ pc = "ckpt" /\ p \in toFold /\ writeMain(p, image(frames[p]))
      /\ frames' = [frames EXCEPT ![p].dirty = FALSE]
  BY Zenon DEF PInv, checkpointWrite
<1>2. /\ UNCHANGED <<pc, after, nextLSN, walFlushedLSN, wal, walSynced, walOld, main, txn, hand, backup>>
      /\ UNCHANGED <<acked, attempts, failed>> /\ UNCHANGED ghosts
  BY Zenon DEF checkpointWrite, walVars, ghosts
<1>3. hand = Idle
  BY <1>1, Zenon DEF Phases
<1>4. \A q : ~mutating(q) /\ ~mutating(q)'
  BY <1>2, <1>3, Zenon DEF mutating, Idle
<1>5. /\ p \in resident /\ frames[p].sealed
      /\ \E i \in Images(wal, walSynced, p) : wal[i].buf = frames[p].buf
  BY <1>1, <1>4, Zenon DEF Cached, toFold
<1>6. /\ resident \subseteq Pages /\ resident' = resident /\ frames' = [q \in resident |-> frames'[q]]
      /\ \A q \in resident : q # p => frames'[q] = frames[q]
      /\ frames'[p] = [frames[p] EXCEPT !.dirty = FALSE]
  BY <1>1, <1>5, Zenon DEF PagerTypes, resident
<1>7. /\ frames'[p] \in [buf : Txns, sealed : BOOLEAN, dirty : BOOLEAN, lsn : 0..nextLSN]
      /\ frames'[p].buf = frames[p].buf /\ ~frames'[p].dirty /\ frames[p].buf \in Txns
  <2>1. frames[p] \in [buf : Txns, sealed : BOOLEAN, dirty : BOOLEAN, lsn : 0..nextLSN]
    BY <1>1, <1>5, Zenon DEF PagerTypes
  <2> QED BY <1>6, <2>1, Zenon
<1>8. /\ file \in [Pages -> Contents] /\ unsynced \in [Pages -> SUBSET Txns]
      /\ file' = [file EXCEPT ![p] = frames[p].buf]
      /\ unsynced' = [unsynced EXCEPT ![p] = @ \cup {frames[p].buf}]
  BY <1>1, <1>5, Zenon DEF PagerTypes, writeMain, image
<1>9. /\ file' \in [Pages -> Contents] /\ unsynced' \in [Pages -> SUBSET Txns]
      /\ \A q \in Pages : q # p => file'[q] = file[q] /\ unsynced'[q] = unsynced[q]
      /\ file'[p] = frames[p].buf /\ unsynced'[p] = unsynced[p] \cup {frames[p].buf}
  BY <1>7, <1>8, Zenon DEF Contents
<1>10. view(p) = frames[p].buf /\ \A q \in Pages : view(q)' = view(q)
  BY <1>5, <1>6, <1>7, <1>9, Zenon DEF view
<1>11. /\ \A q \in Pages :
            /\ unsynced'[q] = {} => file'[q] = main'[q]
            /\ file'[q] \in unsynced'[q] \cup {main'[q]}
            /\ unsynced'[q] # {} \/ main'[q] = Torn => Images(wal, walSynced, q)' # {}
            /\ file'[q] # Torn
       /\ Newer'
       /\ \A n \in walSynced'..Len(wal') :
            Recoverable(wal', n, main', unsynced', acked', attempts', failed')
       /\ \A q \in Pages : \A b : Replays(wal, walSynced, q, b, main[q], unsynced[q]) =>
            Replays(wal', walSynced', q, b, main'[q], unsynced'[q])
  <2>1. \A q \in Pages :
          \/ file'[q] = file[q] /\ unsynced'[q] = unsynced[q]
          \/ /\ file'[q] = view(q) /\ view(q) \in Txns
             /\ unsynced'[q] = unsynced[q] \cup {view(q)}
             /\ \E i \in Images(wal, walSynced, q) : wal[i].buf = view(q)
    BY <1>5, <1>7, <1>9, <1>10, Zenon
  <2> QED BY <1>1, <1>2, <1>9, <1>10, <2>1, WritesKeep, Zenon
<1>12. uncommitted' = uncommitted /\ toFold' = toFold \ {p}
  <2>1. ASSUME NEW q \in resident, q # p
        PROVE  (q \in uncommitted' <=> q \in uncommitted) /\ (q \in toFold' <=> q \in toFold)
    BY <1>2, <1>6, <2>1, Zenon DEF uncommitted, toFold
  <2>2. p \notin uncommitted' /\ p \notin toFold'
    BY <1>7, Zenon DEF uncommitted, toFold
  <2>3. p \notin uncommitted
    <3>1. frames[p].lsn \in Nat /\ walFlushedLSN \in Nat
      BY <1>1, <1>5 DEF PagerTypes
    <3>2. frames[p].lsn <= walFlushedLSN
      BY <1>1, Zenon DEF toFold
    <3>3. ~(frames[p].lsn > walFlushedLSN)
      BY <3>1, <3>2
    <3> QED BY <3>3, Zenon DEF uncommitted
  <2>4. /\ uncommitted \subseteq resident /\ uncommitted' \subseteq resident
        /\ toFold \subseteq resident /\ toFold' \subseteq resident
    BY <1>6, Zenon DEF uncommitted, toFold
  <2> QED BY <2>1, <2>2, <2>3, <2>4
<1>13. PagerTypes'
  BY <1>1, <1>2, <1>6, <1>7, <1>9, Zenon DEF PagerTypes
<1>14. Phases'
  BY <1>1, <1>2, <1>3, Zenon DEF Phases, Idle
<1>15. Cached'
  <2>1. \A q \in resident' : ~frames'[q].dirty => frames'[q].buf = file'[q]
    BY <1>1, <1>4, <1>6, <1>7, <1>9 DEF Cached
  <2>2. \A q \in toFold' : /\ frames'[q].sealed
                           /\ \E i \in Images(wal, walSynced, q) : wal[i].buf = frames'[q].buf
    <3>1. toFold \subseteq resident
      BY Zenon DEF toFold
    <3> QED BY <1>1, <1>4, <1>6, <1>12, <3>1, Zenon DEF Cached
  <2>3. \A q : Images(wal, walSynced, q)' = Images(wal, walSynced, q)
    BY <1>2, Zenon DEF Images
  <2> QED BY <1>2, <1>11, <2>1, <2>2, <2>3, Zenon DEF Cached
<1>16. Logs' /\ Syncing'
  BY <1>1, <1>2, <1>11, Zenon DEF Logs, Syncing
<1>17. Served'
  BY <1>1, <1>2, <1>4, <1>10, <1>11, <1>12, Zenon DEF Served
<1>18. Copied'
  BY <1>1, <1>2, Zenon DEF Copied
<1> QED BY <1>11, <1>13, <1>14, <1>15, <1>16, <1>17, <1>18, Zenon DEF PInv

LEMMA SyncMainKeeps ==
  ASSUME PInv, syncMain
  PROVE  PInv'
<1>1. /\ PagerTypes /\ Phases /\ Cached /\ Newer /\ Logs /\ Served /\ Copied
      /\ pc = "ckpt" /\ pc' = "fresh" /\ toFold = {} /\ main' = file
      /\ unsynced' = [p \in Pages |-> {}]
  BY Zenon DEF PInv, syncMain
<1>2. /\ UNCHANGED <<file, after, frames, nextLSN, walFlushedLSN, wal, walSynced, walOld>>
      /\ UNCHANGED <<txn, hand, backup, acked, attempts, failed>>
  BY Zenon DEF syncMain, walVars, ghosts
<1>3. hand = Idle
  BY <1>1, Zenon DEF Phases
<1>4. \A q : ~mutating(q) /\ ~mutating(q)'
  BY <1>2, <1>3, Zenon DEF mutating, Idle
<1>5. resident' = resident /\ uncommitted' = uncommitted /\ toFold' = toFold /\ \A q : view(q)' = view(q)
  BY <1>2, Zenon DEF resident, uncommitted, toFold, view
<1>6. \A q \in Pages : /\ unsynced[q] = {} => file[q] = main[q]
                       /\ file[q] \in {main[q]} \cup unsynced[q] /\ file[q] # Torn
                       /\ unsynced'[q] = {}
  BY <1>1, Zenon DEF Cached
<1>7. PagerTypes'
  BY <1>1, <1>2, <1>5, Zenon DEF PagerTypes
<1>8. Phases'
  BY <1>1, <1>2, <1>3, <1>5, Zenon DEF Phases, Idle
<1>9. Cached'
  BY <1>1, <1>2, <1>4, <1>5, <1>6, Zenon DEF Cached, Images
<1>10. Newer'
  <2>1. \A q \in Pages : file[q] <= view(q) /\ file[q] <= acked[q]
    BY <1>1, <1>6, Zenon DEF Newer
  <2> QED BY <1>1, <1>2, <1>5, <1>6, <2>1, Zenon DEF Newer, Images
<1>11. Logs'
  <2>1. ASSUME NEW n \in walSynced..Len(wal)
        PROVE  Recoverable(wal, n, main', unsynced', acked, attempts, failed)
    <3>1. n \in Nat /\ \A i \in 1..n : wal[i].buf \in Nat
      BY <1>1, WalTyped
    <3>2. Recoverable(wal, n, main, unsynced, acked, attempts, failed)
      BY <1>1, Zenon DEF Logs
    <3>3. Settles(main, unsynced, main', unsynced')
      BY <1>1, <1>6, Zenon DEF Settles
    <3> QED BY <3>1, <3>2, <3>3, RecoverableSettle, Zenon
  <2> QED BY <1>1, <1>2, <2>1, Zenon DEF Logs
<1>12. Served'
  <2>1. \A q \in Pages : Replays(wal, walSynced, q, acked[q], main[q], unsynced[q]) =>
          Replays(wal, walSynced, q, acked[q], main'[q], unsynced'[q])
    BY <1>1, <1>6, Zenon DEF Replays
  <2> QED BY <1>1, <1>2, <1>4, <1>5, <2>1, Zenon DEF Served
<1>13. Syncing' /\ Copied'
  BY <1>1, <1>2, Zenon DEF Syncing, Copied
<1> QED BY <1>7, <1>8, <1>9, <1>10, <1>11, <1>12, <1>13, Zenon DEF PInv

LEMMA PrefixTyped ==
  ASSUME NEW w \in Seq(Rec), NEW n \in 0..Len(w)
  PROVE  /\ SubSeq(w, 1, n) \in Seq(Rec) /\ Len(SubSeq(w, 1, n)) = n
         /\ \A i \in 1..n : SubSeq(w, 1, n)[i] = w[i]
<1>1. n \in Nat /\ \A i \in 1..n : w[i] \in Rec
  OBVIOUS
<1> QED BY <1>1, SubSeqProperties

\* Recovery from an empty log gives what the main file holds.
LEMMA RecoverableEmpty ==
  ASSUME NEW m, NEW u, NEW ack, NEW att, NEW bad,
         ~bad => \A p \in Pages : u[p] = {} /\ m[p] = ack[p]
  PROVE  /\ Recoverable(<< >>, 0, m, u, ack, att, bad)
         /\ \A p : Images(<< >>, 0, p) = {}
<1>1. \A p : Images(<< >>, 0, p) = {}
  BY DEF Images
<1> QED BY <1>1 DEF Recoverable, Ordered, Covers, Sound, Replays

\* Once every committed frame is written back, only failed transactions keep
\* the main file from holding what is served.
LEMMA Folded ==
  ASSUME PInv, pc \in {"fresh", "freshSync"}
  PROVE  /\ hand = Idle /\ \A p : ~mutating(p)
         /\ \A p \in Pages : unsynced[p] = {} /\ main[p] = file[p] /\ file[p] # Torn
         /\ \A p \in Pages \ uncommitted : view(p) = file[p]
         /\ ~failed => \A p \in Pages : view(p) = acked[p] /\ main[p] = acked[p]
<1>1. PagerTypes /\ Phases /\ Cached /\ Served
  BY Zenon DEF PInv
<1>2. hand = Idle /\ toFold = {} /\ unsynced = [p \in Pages |-> {}]
  BY <1>1, Zenon DEF Phases
<1>3. \A p : ~mutating(p)
  BY <1>2, Zenon DEF mutating, Idle
<1>4. \A p \in Pages : unsynced[p] = {} /\ main[p] = file[p] /\ file[p] # Torn
  BY <1>1, <1>2, Zenon DEF Cached
<1>5. ASSUME NEW p \in Pages \ uncommitted
      PROVE  view(p) = file[p]
  <2>1. CASE p \notin resident
    BY <2>1, Zenon DEF view
  <2>2. CASE p \in resident
    <3>1. frames[p].lsn \in Nat /\ walFlushedLSN \in Nat
      BY <1>1, <2>2 DEF PagerTypes
    <3>2. frames[p].lsn > walFlushedLSN \/ frames[p].lsn <= walFlushedLSN
      BY <3>1
    <3>3. ~frames[p].dirty
      BY <1>2, <2>2, <3>2, Zenon DEF uncommitted, toFold
    <3> QED BY <1>1, <1>3, <2>2, <3>3, Zenon DEF Cached, view
  <2> QED BY <2>1, <2>2, Zenon
<1>6. ~failed => \A p \in Pages : view(p) = acked[p] /\ main[p] = acked[p]
  BY <1>1, <1>2, <1>3, <1>4, <1>5, Zenon DEF Served
<1> QED BY <1>2, <1>3, <1>4, <1>5, <1>6, Zenon

LEMMA OpenFreshWALKeeps ==
  ASSUME PInv, openFreshWAL
  PROVE  PInv'
<1>1. /\ PagerTypes /\ Phases /\ Cached /\ Newer /\ Logs /\ Served /\ Copied
      /\ pc = "fresh" /\ pc' = "freshSync" /\ wal' = << >> /\ walSynced' = 0
  BY Zenon DEF PInv, openFreshWAL
<1>2. /\ UNCHANGED <<after, frames, nextLSN, walFlushedLSN, file, main, unsynced>>
      /\ UNCHANGED <<txn, hand, backup, acked, attempts, failed>>
  BY Zenon DEF openFreshWAL, diskVars, ghosts
<1>3. PICK n \in walSynced..Len(wal) : walOld' = SubSeq(wal, 1, n)
  BY Zenon DEF openFreshWAL
<1>4. /\ n \in Nat /\ n \in 0..Len(wal) /\ walOld' \in Seq(Rec) /\ Len(walOld') = n
      /\ \A i \in 1..n : walOld'[i] = wal[i]
  BY <1>1, <1>3, PrefixTyped DEF PagerTypes
<1>5. /\ hand = Idle /\ \A p : ~mutating(p) /\ ~mutating(p)'
      /\ \A p \in Pages : unsynced[p] = {} /\ main[p] = file[p] /\ file[p] # Torn
      /\ ~failed => \A p \in Pages : view(p) = acked[p] /\ main[p] = acked[p]
  BY <1>1, <1>2, Folded, Zenon DEF mutating
<1>6. resident' = resident /\ uncommitted' = uncommitted /\ toFold' = toFold /\ \A q : view(q)' = view(q)
  BY <1>2, Zenon DEF resident, uncommitted, toFold, view
<1>7. /\ Recoverable(<< >>, 0, main, unsynced, acked, attempts, failed)
      /\ \A p : Images(<< >>, 0, p) = {}
  BY <1>5, RecoverableEmpty, Zenon
<1>8. Len(wal') = 0 /\ \A p : Images(wal, walSynced, p)' = {}
  BY <1>1, <1>7, Zenon
<1>9. PagerTypes'
  BY <1>1, <1>2, <1>4, <1>6, <1>8 DEF PagerTypes
<1>10. Phases'
  BY <1>1, <1>2, <1>6, Zenon DEF Phases
<1>11. Cached'
  BY <1>1, <1>2, <1>5, <1>6, Zenon DEF Cached, Phases
<1>12. Newer'
  BY <1>1, <1>2, <1>4, <1>6, <1>8 DEF Newer
<1>13. Logs'
  <2>1. Recoverable(wal, n, main, unsynced, acked, attempts, failed)
    BY <1>1, <1>3, Zenon DEF Logs
  <2>2. Recoverable(walOld', n, main, unsynced, acked, attempts, failed)
    BY <1>4, <2>1, RecoverableAgree, Zenon
  <2> QED BY <1>1, <1>2, <1>4, <1>7, <1>8, <2>2 DEF Logs
<1>14. Served'
  BY <1>1, <1>2, <1>5, <1>6, <1>8, Zenon DEF Served, Replays
<1>15. Syncing' /\ Copied'
  BY <1>1, <1>2, Zenon DEF Syncing, Copied
<1> QED BY <1>9, <1>10, <1>11, <1>12, <1>13, <1>14, <1>15, Zenon DEF PInv

LEMMA SyncFreshWALKeeps ==
  ASSUME PInv, syncFreshWAL
  PROVE  PInv'
<1>1. /\ PagerTypes /\ Phases /\ Cached /\ Newer /\ Logs /\ Served /\ Copied
      /\ pc = "freshSync" /\ walOld' = << >>
      /\ wal = << >> /\ unsynced = [p \in Pages |-> {}] /\ toFold = {}
  BY Zenon DEF PInv, syncFreshWAL, Phases
<1>2. /\ UNCHANGED <<after, nextLSN, walFlushedLSN, wal, walSynced, file, main, unsynced>>
      /\ UNCHANGED <<txn, acked, attempts, failed>>
  BY Zenon DEF syncFreshWAL, diskVars, ghosts
<1>3. /\ hand = Idle /\ hand' = Idle /\ \A p : ~mutating(p) /\ ~mutating(p)'
      /\ \A p \in Pages : unsynced[p] = {} /\ main[p] = file[p] /\ file[p] # Torn
      /\ \A p \in Pages \ uncommitted : view(p) = file[p]
      /\ ~failed => \A p \in Pages : view(p) = acked[p] /\ main[p] = acked[p]
  <2>1. hand' = Idle
    BY <1>1, Folded, Zenon DEF syncFreshWAL
  <2> QED BY <1>1, <2>1, Folded, Zenon DEF mutating, Idle
<1>4. Len(wal) = 0 /\ walSynced = 0 /\ Len(walOld') = 0
  BY <1>1 DEF PagerTypes
<1>5. /\ \A p : Images(wal, walSynced, p) = {} /\ Images(wal, walSynced, p)' = {}
      /\ \A n \in walSynced'..Len(wal') :
           Recoverable(wal', n, main', unsynced', acked', attempts', failed')
  BY <1>1, <1>2, <1>4 DEF Images, Logs
<1>6. CASE after = "closed"
  <2>1. pc' = "down" /\ frames' = NoFrames /\ backup' = backup
    BY <1>6, Zenon DEF syncFreshWAL
  <2>2. resident' = {} /\ toFold' = {} /\ uncommitted' = {}
    BY <2>1, Zenon DEF resident, NoFrames, toFold, uncommitted
  <2>3. PagerTypes'
    <3>1. NoFrames = [p \in {} |-> NoFrames[p]]
      BY Zenon DEF NoFrames
    <3>2. frames' = [p \in resident' |-> frames'[p]]
      BY <2>1, <2>2, <3>1, Zenon
    <3> QED BY <1>1, <1>2, <1>3, <1>4, <2>1, <2>2, <3>2, HandTyped, Zenon DEF PagerTypes
  <2>4. Phases'
    BY <1>1, <1>2, <1>3, <1>4, <2>1, <2>2, Zenon DEF Phases, Idle
  <2>5. Cached'
    BY <1>1, <1>2, <1>3, <1>5, <2>1, <2>2, Zenon DEF Cached
  <2>6. Newer'
    BY <1>1, <1>2, <1>4, <2>1, Zenon DEF Newer
  <2>7. Logs' /\ Syncing' /\ Served'
    BY <1>5, <2>1, Zenon DEF Logs, Syncing, Served
  <2>8. Copied'
    BY <1>1, <1>2, <1>6, <2>1, Zenon DEF Copied
  <2> QED BY <2>3, <2>4, <2>5, <2>6, <2>7, <2>8, Zenon DEF PInv
<1>7. CASE after # "closed"
  <2>1. pc' = "free" /\ frames' = frames
    BY <1>7, Zenon DEF syncFreshWAL
  <2>2. /\ resident' = resident /\ uncommitted' = uncommitted /\ toFold' = toFold
        /\ \A q : view(q)' = view(q)
    BY <1>2, <2>1, Zenon DEF resident, uncommitted, toFold, view
  <2>3. PagerTypes'
    BY <1>1, <1>2, <1>3, <1>4, <2>1, <2>2, HandTyped, Zenon DEF PagerTypes
  <2>4. Phases'
    BY <1>1, <1>2, <1>3, <2>1, <2>2, Zenon DEF Phases, Idle
  <2>5. Cached'
    BY <1>1, <1>2, <1>3, <1>5, <2>1, <2>2, ZenonT(30) DEF Cached
  <2>6. Newer'
    BY <1>1, <1>2, <1>4, <1>5, <2>1, <2>2 DEF Newer
  <2>7. Logs'
    <3>1. \A p \in Pages \ uncommitted : Ends(wal, p, view(p), main[p], unsynced[p])
      BY <1>3, <1>4 DEF Ends
    <3> QED BY <1>2, <1>5, <2>1, <2>2, <3>1, Zenon DEF Logs
  <2>8. Syncing' /\ Served'
    BY <1>1, <1>2, <1>3, <1>5, <2>1, <2>2, Zenon DEF Syncing, Served
  <2>9. Copied'
    <3>1. CASE after # "backup"
      <4>1. backup' = backup
        BY <3>1, Zenon DEF syncFreshWAL
      <4> QED BY <1>1, <1>2, <2>1, <4>1, Zenon DEF Copied
    <3>2. CASE after = "backup"
      <4>1. backup' = [NoBackup EXCEPT !.active = TRUE, !.left = Pages, !.snapshot = acked]
        BY <3>2, Zenon DEF syncFreshWAL
      <4>2. acked \in [Pages -> Txns]
        BY <1>1, Zenon DEF PagerTypes
      <4>3. /\ backup' \in [active : BOOLEAN, left : SUBSET Pages, image : [Pages -> Contents],
                            snapshot : [Pages -> Txns], disturbed : BOOLEAN]
            /\ backup'.left = Pages /\ backup'.snapshot = acked
        BY <4>1, <4>2, NoBackupTyped, Zenon
      <4> QED BY <1>1, <1>2, <1>3, <2>1, <4>3, Zenon DEF Copied
    <3> QED BY <3>1, <3>2, Zenon
  <2> QED BY <2>3, <2>4, <2>5, <2>6, <2>7, <2>8, <2>9, Zenon DEF PInv
<1> QED BY <1>6, <1>7, Zenon
=============================================================================
