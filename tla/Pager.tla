------------------------------- MODULE Pager -------------------------------
(***************************************************************************)
(* The pager (pager/pager.go, backup.go) over its write-ahead log (wal/):  *)
(* buffer-pool frames, group commit of full-page images, checkpoints,      *)
(* online backup, crash and recovery.                                      *)
(*                                                                         *)
(* A page's bytes are abstracted to the number of the transaction that     *)
(* last wrote it; Torn stands for bytes whose page checksum does not       *)
(* verify.  Page 0, the page count and the freelist are left out: the set  *)
(* of pages is fixed.  Every method runs under p.mu, which pc models: it   *)
(* is "free" when the mutex is, and otherwise names the next I/O step of   *)
(* its holder, so a crash can fall between any two of them.  Two things    *)
(* happen outside p.mu, as in the code: the writer changes the bytes of a  *)
(* frame it holds pinned, and Backup reads the main file.                  *)
(***************************************************************************)
EXTENDS Integers, Sequences, FiniteSetsExt, Functions

CONSTANTS
  Pages,          \* content pages
  PoolPages,      \* frames of the buffer pool
  CkptFrames,     \* automatic checkpoint threshold
  MaxTxns,        \* bound: write transactions
  MaxLSN,         \* bound: page LSNs handed out between two openings
  MaxGen,         \* bound: WAL generations
  MaxCrashes,     \* bound: crashes
  Interleaved,    \* BOOLEAN: Checkpoint, Backup and Close may be called while
                  \*   a transaction is applying its writes
  OnlineBackup,   \* BOOLEAN: Backup is called
  Failures        \* BOOLEAN: applying, appending and fsync may fail

ASSUME PagerAssumption ==
  /\ IsFiniteSet(Pages)
  /\ PoolPages \in Nat \ {0} /\ CkptFrames \in Nat
  /\ MaxTxns \in Nat /\ MaxLSN \in Nat /\ MaxGen \in Nat /\ MaxCrashes \in Nat
  /\ Interleaved \in BOOLEAN /\ OnlineBackup \in BOOLEAN
  /\ Failures \in BOOLEAN

VARIABLES
  pc,            \* who holds p.mu and what it does next
  after,         \* what follows a checkpoint: open, closed, backup
  frames,        \* resident page -> frame
  nextLSN, walFlushedLSN,
  checkpointSeq, \* WAL generation
  wal,           \* frames of the current generation
  walSynced,     \* how many of them are on the medium
  walOld,        \* what the medium may still hold while a truncation is unsynced
  file,          \* page -> contents a read of the main file returns
  main,          \* page -> contents of the main file on the medium
  unsynced,      \* page -> contents written since the last sync of the main file
  txn,           \* number of the current or last write transaction
  hand,          \* what the writer does: idle, applying, or a page it holds
  backup,        \* Backup in progress: active, pages left, image; ghosts: the
                 \*   pages it should copy, and whether a checkpoint disturbed it
  crashes,
  acked,         \* ghost: page -> contents after the last successful Commit
  attempts,      \* ghost: contents after the commits appended since then
  failed         \* ghost: a transaction or a commit has failed

diskVars == <<file, main, unsynced>>
walVars == <<checkpointSeq, wal, walSynced, walOld>>
ghosts == <<acked, attempts, failed>>
vars == <<pc, after, frames, nextLSN, walFlushedLSN, walVars, diskVars, txn,
          hand, backup, crashes, ghosts>>

Txns == 0..MaxTxns
Torn == -1
Contents == Txns \cup {Torn}

Idle == [busy |-> FALSE, page |-> {}, mutated |-> FALSE]
Applying == [busy |-> TRUE, page |-> {}, mutated |-> FALSE]
NoBackup == [active |-> FALSE, left |-> {}, image |-> [p \in Pages |-> 0],
             snapshot |-> [p \in Pages |-> 0], disturbed |-> FALSE]

NoFrames == [p \in {} |-> 0]
CleanFrame(b) == [buf |-> b, sealed |-> TRUE, dirty |-> FALSE, lsn |-> 0]

\* What a write of the frame puts on the file: the page checksum is the one
\* commitLocked last computed, so bytes changed since then do not verify.
image(f) == IF f.sealed THEN f.buf ELSE Torn

writeMain(p, b) ==
  /\ file' = [file EXCEPT ![p] = b]
  /\ unsynced' = [unsynced EXCEPT ![p] = @ \cup {b}]

(***************************************************************************)
(* Fetch and eviction.  The 2Q order among evictable frames is left open.  *)
(***************************************************************************)

\* Mutant: uncommitted frames may be stolen.
evictable_uncommitted(p) == p \notin hand.page

evictable(p) ==
  /\ p \notin hand.page
  /\ frames[p].dirty => ~backup.active /\ frames[p].lsn <= walFlushedLSN

resident == DOMAIN frames

load(p, kept) ==
  /\ file[p] # Torn
  /\ frames' = [q \in kept \cup {p} |->
                  IF q = p THEN CleanFrame(file[p]) ELSE frames[q]]

Fetch(p) ==
  /\ pc = "free" /\ hand = Applying /\ nextLSN < MaxLSN
  /\ hand' = [Applying EXCEPT !.page = {p}]
  /\ \/ /\ p \in resident
        /\ UNCHANGED <<frames, file, unsynced>>
     \/ /\ p \notin resident
        /\ Cardinality(resident) < PoolPages
        /\ load(p, resident)
        /\ UNCHANGED <<file, unsynced>>
     \/ /\ p \notin resident
        /\ Cardinality(resident) >= PoolPages
        /\ \E v \in resident :
             /\ evictable(v)
             /\ IF frames[v].dirty THEN writeMain(v, image(frames[v]))
                                   ELSE UNCHANGED <<file, unsynced>>
             /\ load(p, resident \ {v})
  /\ UNCHANGED <<pc, after, nextLSN, walFlushedLSN, walVars, main, txn, backup,
                 crashes, ghosts>>

(***************************************************************************)
(* The writer: durable() of a transaction, one at a time under the oracle  *)
(* lock.  It changes the bytes of a pinned frame, then calls MarkDirty.    *)
(***************************************************************************)

Apply ==
  /\ pc = "free" /\ hand = Idle /\ txn < MaxTxns
  /\ txn' = txn + 1
  /\ hand' = Applying
  /\ UNCHANGED <<pc, after, frames, nextLSN, walFlushedLSN, walVars, diskVars,
                 backup, crashes, ghosts>>

Mutate(p) ==
  /\ p \in hand.page /\ ~hand.mutated
  /\ frames' = [frames EXCEPT ![p].buf = txn, ![p].sealed = FALSE]
  /\ hand' = [hand EXCEPT !.mutated = TRUE]
  /\ UNCHANGED <<pc, after, nextLSN, walFlushedLSN, walVars, diskVars, txn,
                 backup, crashes, ghosts>>

\* MarkDirty, then Unpin.
MarkDirty(p) ==
  /\ pc = "free" /\ p \in hand.page /\ hand.mutated
  /\ nextLSN' = nextLSN + 1
  /\ frames' = [frames EXCEPT ![p].dirty = TRUE, ![p].lsn = nextLSN + 1]
  /\ hand' = Applying
  /\ UNCHANGED <<pc, after, walFlushedLSN, walVars, diskVars, txn, backup,
                 crashes, ghosts>>

\* An error while applying: the dirty frames are not undone.
ApplyFails ==
  /\ Failures
  /\ pc = "free" /\ hand = Applying
  /\ hand' = Idle /\ failed' = TRUE
  /\ UNCHANGED <<pc, after, frames, nextLSN, walFlushedLSN, walVars, diskVars,
                 txn, backup, crashes, acked, attempts>>

(***************************************************************************)
(* Commit.                                                                 *)
(***************************************************************************)

uncommitted == {p \in resident : frames[p].dirty /\ frames[p].lsn > walFlushedLSN}

\* The uncommitted pages in the order of their LSNs.
lsnOrders ==
  {order \in Bijection(1..Cardinality(uncommitted), uncommitted) :
     \A i, j \in DOMAIN order : i < j => frames[order[i]].lsn < frames[order[j]].lsn}

\* The images of one commit, the last one carrying the marker.
batch(order) ==
  [i \in 1..Cardinality(uncommitted) |->
     [page |-> order[i], buf |-> frames[order[i]].buf, marker |-> i = Cardinality(uncommitted)]]

View == [p \in Pages |-> IF p \in resident THEN frames[p].buf ELSE file[p]]

commitLocked ==
  /\ pc = "free" /\ hand = Applying /\ uncommitted # {}
  /\ frames' = [p \in resident |-> [frames[p] EXCEPT !.sealed = @ \/ p \in uncommitted]]
  /\ attempts' = attempts \cup {View}
  /\ \E order \in lsnOrders :
       \/ /\ wal' = wal \o batch(order)
          /\ pc' = "walSync"
          /\ UNCHANGED <<hand, failed>>
       \/ \* a write of the log fails part-way
          /\ Failures
          /\ \E n \in 0..Len(batch(order)) - 1 : wal' = wal \o SubSeq(batch(order), 1, n)
          /\ hand' = Idle /\ failed' = TRUE
          /\ pc' = pc
  /\ UNCHANGED <<after, nextLSN, walFlushedLSN, checkpointSeq, walSynced, walOld,
                 diskVars, txn, backup, crashes, acked>>

\* A commit with no dirty page is a no-op.
commitNothing ==
  /\ pc = "free" /\ hand = Applying /\ uncommitted = {}
  /\ hand' = Idle
  /\ UNCHANGED <<pc, after, frames, nextLSN, walFlushedLSN, walVars, diskVars,
                 txn, backup, crashes, ghosts>>

\* Mutant: a backup does not hold the automatic checkpoint off.
autoCheckpoint_always == Len(wal) >= CkptFrames

autoCheckpoint == Len(wal) >= CkptFrames /\ ~backup.active

syncWAL ==
  /\ pc = "walSync"
  /\ hand' = Idle
  /\ \/ /\ walSynced' = Len(wal)
        /\ walFlushedLSN' = Max({frames[p].lsn : p \in uncommitted})
        /\ acked' = View /\ attempts' = {}
        /\ pc' = IF autoCheckpoint THEN "ckpt" ELSE "free"
        /\ after' = "open"
        /\ UNCHANGED failed
     \/ /\ Failures
        /\ pc' = "free" /\ failed' = TRUE
        /\ UNCHANGED <<walSynced, walFlushedLSN, acked, attempts, after>>
  /\ UNCHANGED <<frames, nextLSN, checkpointSeq, wal, walOld, diskVars, txn,
                 backup, crashes>>

(***************************************************************************)
(* Checkpoint, and the calls that start with one.                          *)
(***************************************************************************)

startCheckpoint(then) ==
  /\ pc = "free"
  /\ Interleaved \/ hand = Idle
  /\ checkpointSeq < MaxGen
  /\ pc' = "ckpt"
  /\ after' = then
  /\ backup' = [backup EXCEPT !.disturbed = backup.active]
  /\ UNCHANGED <<frames, nextLSN, walFlushedLSN, walVars, diskVars, txn, hand,
                 crashes, ghosts>>

Checkpoint == startCheckpoint("open")

\* A Close during a Backup, which would fail its reads, is left out.
Close == ~backup.active /\ startCheckpoint("closed")
Backup == OnlineBackup /\ ~backup.active /\ startCheckpoint("backup")

toFold == {p \in resident : frames[p].dirty /\ frames[p].lsn <= walFlushedLSN}

\* writeBack of the committed dirty frame with the smallest LSN.
checkpointWrite(p) ==
  /\ pc = "ckpt" /\ p \in toFold
  /\ \A q \in toFold : frames[p].lsn <= frames[q].lsn
  /\ writeMain(p, image(frames[p]))
  /\ frames' = [frames EXCEPT ![p].dirty = FALSE]
  /\ UNCHANGED <<pc, after, nextLSN, walFlushedLSN, walVars, main, txn, hand,
                 backup, crashes, ghosts>>

\* Mutant: the log is discarded before the main file is synced.
syncMain_skipped ==
  /\ pc = "ckpt" /\ toFold = {}
  /\ pc' = "fresh"
  /\ UNCHANGED <<after, frames, nextLSN, walFlushedLSN, walVars, diskVars, txn,
                 hand, backup, crashes, ghosts>>

\* Every write so far reaches the medium.
syncMain ==
  /\ pc = "ckpt" /\ toFold = {}
  /\ main' = file
  /\ unsynced' = [p \in Pages |-> {}]
  /\ pc' = "fresh"
  /\ UNCHANGED <<file, after, frames, nextLSN, walFlushedLSN, walVars, txn, hand,
                 backup, crashes, ghosts>>

\* The log is truncated and headed with the next generation, then synced.
openFreshWAL ==
  /\ pc = "fresh"
  /\ checkpointSeq' = checkpointSeq + 1
  /\ \E n \in walSynced..Len(wal) : walOld' = SubSeq(wal, 1, n)
  /\ wal' = << >>
  /\ walSynced' = 0
  /\ pc' = "freshSync"
  /\ UNCHANGED <<after, frames, nextLSN, walFlushedLSN, diskVars, txn, hand,
                 backup, crashes, ghosts>>

syncFreshWAL ==
  /\ pc = "freshSync"
  /\ walOld' = << >>
  /\ pc' = IF after = "closed" THEN "down" ELSE "free"
  /\ frames' = IF after = "closed" THEN NoFrames ELSE frames
  /\ hand' = IF after = "closed" THEN Idle ELSE hand
  /\ backup' = IF after = "backup"
               THEN [NoBackup EXCEPT !.active = TRUE, !.left = Pages, !.snapshot = acked]
               ELSE backup
  /\ UNCHANGED <<after, nextLSN, walFlushedLSN, checkpointSeq, wal, walSynced,
                 diskVars, txn, crashes, ghosts>>

\* The copy loop reads the main file in page order without p.mu; the pages
\* are interchangeable here, so any order stands for it.
backupPage(p) ==
  /\ backup.active /\ p \in backup.left
  /\ backup' = [backup EXCEPT !.left = @ \ {p}, !.image[p] = file[p]]
  /\ UNCHANGED <<pc, after, frames, nextLSN, walFlushedLSN, walVars, diskVars,
                 txn, hand, crashes, ghosts>>

backupDone ==
  /\ backup.active /\ backup.left = {} /\ pc = "free"
  /\ backup' = NoBackup
  /\ UNCHANGED <<pc, after, frames, nextLSN, walFlushedLSN, walVars, diskVars,
                 txn, hand, crashes, ghosts>>

(***************************************************************************)
(* Crash and recovery.                                                     *)
(***************************************************************************)

\* The log on the medium: the synced frames, any prefix of the rest (the
\* checksum chain cuts the log at the first frame that did not arrive), or
\* the old generation if its truncation was not synced yet.
survivingLogs ==
  {[log |-> SubSeq(wal, 1, n), gen |-> checkpointSeq] : n \in walSynced..Len(wal)}
    \cup (IF pc = "freshSync" THEN {[log |-> walOld, gen |-> checkpointSeq - 1]} ELSE {})

\* A page of the main file: as last synced, or any later write, or torn.
survivingContents(p) ==
  {main[p]} \cup unsynced[p] \cup (IF unsynced[p] = {} THEN {} ELSE {Torn})

Crash ==
  /\ pc # "down" /\ crashes < MaxCrashes
  /\ crashes' = crashes + 1
  /\ \E sv \in survivingLogs :
       wal' = sv.log /\ walSynced' = Len(sv.log) /\ checkpointSeq' = sv.gen
  /\ \E m \in [Pages -> Contents] :
       (\A p \in Pages : m[p] \in survivingContents(p)) /\ main' = m /\ file' = m
  /\ unsynced' = [p \in Pages |-> {}]
  /\ walOld' = << >>
  /\ frames' = NoFrames
  /\ pc' = "down"
  /\ hand' = Idle
  /\ backup' = NoBackup
  /\ UNCHANGED <<after, nextLSN, walFlushedLSN, txn, ghosts>>

\* wal.Scan: the frames up to the last one with a commit marker.
redone(log) == {i \in 1..Len(log) : \E k \in i..Len(log) : log[k].marker}

\* recover: redo them.  Without any the scanned generation counts as zero.
recover ==
  LET images(p) == {i \in redone(wal) : wal[i].page = p}
      replayed == [p \in Pages |-> IF images(p) = {} THEN main[p] ELSE wal[Max(images(p))].buf]
  IN  /\ pc = "down"
      /\ file' = replayed
      /\ unsynced' = [p \in Pages |-> {wal[i].buf : i \in images(p)}]
      /\ checkpointSeq' = IF redone(wal) = {} THEN 0 ELSE checkpointSeq
      /\ pc' = "ckpt"
      /\ after' = "open"
      /\ nextLSN' = 0 /\ walFlushedLSN' = 0
      /\ acked' = IF replayed \in attempts THEN replayed ELSE acked
      /\ UNCHANGED <<frames, wal, walSynced, walOld, main, txn, hand, backup,
                     crashes, attempts, failed>>

Init ==
  /\ pc = "free" /\ after = "open"
  /\ frames = NoFrames
  /\ nextLSN = 0 /\ walFlushedLSN = 0
  /\ checkpointSeq = 1 /\ wal = << >> /\ walSynced = 0 /\ walOld = << >>
  /\ file = [p \in Pages |-> 0] /\ main = [p \in Pages |-> 0]
  /\ unsynced = [p \in Pages |-> {}]
  /\ txn = 0 /\ hand = Idle /\ backup = NoBackup /\ crashes = 0
  /\ acked = [p \in Pages |-> 0] /\ attempts = {} /\ failed = FALSE

\* The bounded run is over.
Finished ==
  /\ txn = MaxTxns /\ pc = "free" /\ hand = Idle
  /\ UNCHANGED vars

Next ==
  \/ \E p \in Pages : \/ Fetch(p) \/ Mutate(p) \/ MarkDirty(p)
                      \/ checkpointWrite(p) \/ backupPage(p)
  \/ Apply \/ ApplyFails
  \/ commitLocked \/ commitNothing \/ syncWAL
  \/ Checkpoint \/ Close \/ Backup
  \/ syncMain \/ openFreshWAL \/ syncFreshWAL \/ backupDone
  \/ Crash \/ recover
  \/ Finished

Spec == Init /\ [][Next]_vars
-----------------------------------------------------------------------------

TypeOK ==
  /\ pc \in {"free", "walSync", "ckpt", "fresh", "freshSync", "down"}
  /\ after \in {"open", "closed", "backup"}
  /\ resident \subseteq Pages /\ Cardinality(resident) <= PoolPages
  /\ \A p \in resident :
       frames[p] \in [buf : Txns, sealed : BOOLEAN, dirty : BOOLEAN, lsn : 0..nextLSN]
  /\ nextLSN \in Nat /\ walFlushedLSN \in 0..nextLSN
  /\ checkpointSeq \in Nat /\ failed \in BOOLEAN
  /\ wal \in Seq([page : Pages, buf : Txns, marker : BOOLEAN])
  /\ walOld \in Seq([page : Pages, buf : Txns, marker : BOOLEAN])
  /\ walSynced \in 0..Len(wal)
  /\ file \in [Pages -> Contents] /\ main \in [Pages -> Contents]
  /\ unsynced \in [Pages -> SUBSET Contents]
  /\ txn \in Txns /\ crashes \in 0..MaxCrashes
  /\ hand \in [busy : BOOLEAN, page : SUBSET Pages, mutated : BOOLEAN]
  /\ backup \in [active : BOOLEAN, left : SUBSET Pages,
                  image : [Pages -> Contents], snapshot : [Pages -> Txns],
                  disturbed : BOOLEAN]
  /\ acked \in [Pages -> Txns] /\ attempts \subseteq [Pages -> Txns]

\* Between transactions the pager serves exactly the pages of the last commit
\* that succeeded, or that recovery found whole in the log: whatever was
\* evicted, checkpointed, backed up, torn or replayed on the way, nothing of a
\* commit is missing and nothing of an unfinished one shows, as long as no
\* transaction has failed half way.
ServesLastCommit == ~failed /\ pc = "free" /\ hand = Idle => View = acked

\* A page a Commit reported durable never goes back to an older image nor
\* becomes unreadable.
NoCommittedWriteLost ==
  pc = "free" => \A p \in Pages : View[p] >= acked[p]

\* Redo-only logging: the main file never holds, on the medium or in flight to
\* it, bytes of a transaction that is not durable in the log.
NoUncommittedPageStolen ==
  \A p \in Pages : \A b \in survivingContents(p) : b <= acked[p]

\* The image of an online backup is the database as of the checkpoint it
\* started with, whatever commits and is evicted while the pages are copied, as
\* long as no explicit Checkpoint rewrites the main file meanwhile and no failed
\* transaction had left its frames behind.
BackupIsSnapshot ==
  backup.active /\ ~backup.disturbed /\ ~failed =>
    \A p \in Pages \ backup.left : backup.image[p] = backup.snapshot[p]
=============================================================================
