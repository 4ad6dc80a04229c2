-------------------------------- MODULE Ssi --------------------------------
(***************************************************************************)
(* Serializable transactions (mvcc/ssi.go as driven by collection/ops.go). *)
(*                                                                         *)
(* A transaction is known by its identity (txnID) and runs once.  Its data *)
(* reads always answer from the snapshot at startVer, so what it read is   *)
(* the set of keys seen there; a point read of _id goes through findMatch, *)
(* which calls RecordRead first, while Find, Distinct, UpdateMany and      *)
(* DeleteMany scan without recording.  All transactions here asked for     *)
(* Serializable.                                                           *)
(***************************************************************************)
EXTENDS Oracle, FiniteSets

CONSTANTS
  Txns,          \* transaction identities
  Keys,          \* documents
  MaxKeysRead,   \* bound: keys one transaction reads by _id
  MaxKeysWritten, \* bound: keys one transaction writes
  Scans          \* BOOLEAN: transactions also read through Find

ASSUME SsiAssumption ==
  /\ IsFiniteSet(Txns)
  /\ MaxKeysRead \in Nat /\ MaxKeysWritten \in Nat
  /\ Scans \in BOOLEAN

VARIABLES
  phase,      \* idle, begun, active, releasing, committed, aborted
  startVer,
  committedV, \* commit version, 0 until a write commit succeeds
  writes,     \* buffered write set
  seen,       \* keys whose snapshot state the transaction has observed
  scanned,    \* ghost: transactions that read through Find
  ssiLive,    \* txnID -> ssiTxn, as a function on the registered ones
  ssiRecent   \* committed serializable transactions, ascending

txnVars == <<phase, startVer, committedV, writes, seen, scanned>>
ssiVars == <<ssiLive, ssiRecent>>
vars == <<oracleVars, txnVars, ssiVars>>

FreshSsiTxn == [reads |-> {}, inConflict |-> FALSE, outConflict |-> FALSE, doomed |-> FALSE]

without(f, t) == [u \in DOMAIN f \ {t} |-> f[u]]

(***************************************************************************)
(* Begin: Acquire, then RegisterSSI in a second critical section.          *)
(***************************************************************************)

BeginTx(t) ==
  /\ phase[t] = "idle"
  /\ Acquire
  /\ phase' = [phase EXCEPT ![t] = "begun"]
  /\ startVer' = [startVer EXCEPT ![t] = commitVer]
  /\ UNCHANGED <<committedV, writes, seen, scanned, ssiVars>>

RegisterSSI(t) ==
  /\ phase[t] = "begun"
  /\ phase' = [phase EXCEPT ![t] = "active"]
  /\ ssiLive' = [u \in DOMAIN ssiLive \cup {t} |->
                   IF u = t THEN FreshSsiTxn ELSE ssiLive[u]]
  /\ UNCHANGED <<oracleVars, startVer, committedV, writes, seen, scanned, ssiRecent>>

(***************************************************************************)
(* Reads.                                                                  *)
(***************************************************************************)

\* Entries of the window that t may form an edge with: committed after its
\* snapshot.
Concurrent(t) == {i \in 1..Len(ssiRecent) : ssiRecent[i].commitVer > startVer[t]}

RecordRead(t, key) ==
  LET hit == {i \in Concurrent(t) : key \in ssiRecent[i].writes}
      self == ssiLive[t]
  IN  /\ ssiLive' = [ssiLive EXCEPT ![t] =
           [reads |-> self.reads \cup {key},
            inConflict |-> self.inConflict,
            outConflict |-> self.outConflict \/ hit # {},
            doomed |-> self.doomed \/ \E i \in hit : ssiRecent[i].outConflict]]
      /\ ssiRecent' = [i \in 1..Len(ssiRecent) |->
           [ssiRecent[i] EXCEPT !.inConflict = @ \/ i \in hit]]

\* A key the transaction has written answers from its own buffer.
observe(t, ks) == seen' = [seen EXCEPT ![t] = @ \cup (ks \ writes[t])]

FindOne(t, key) ==
  /\ phase[t] = "active"
  /\ key \notin ssiLive[t].reads
  /\ Cardinality(ssiLive[t].reads) < MaxKeysRead
  /\ RecordRead(t, key)
  /\ observe(t, {key})
  /\ UNCHANGED <<oracleVars, phase, startVer, committedV, writes, scanned>>

\* Find scans every document and records nothing.
Find(t) ==
  /\ Scans
  /\ phase[t] = "active" /\ t \notin scanned
  /\ observe(t, Keys)
  /\ scanned' = scanned \cup {t}
  /\ UNCHANGED <<oracleVars, phase, startVer, committedV, writes, ssiVars>>

\* Writing by _id: insertBuffered, which records no read, buffers the key.
\* An update or delete is FindOne followed by this.
Write(t, key) ==
  /\ phase[t] = "active" /\ key \notin writes[t]
  /\ Cardinality(writes[t]) < MaxKeysWritten
  /\ writes' = [writes EXCEPT ![t] = @ \cup {key}]
  /\ UNCHANGED <<oracleVars, phase, startVer, committedV, seen, scanned, ssiVars>>

(***************************************************************************)
(* CommitSerializable.  It writes conflict flags into the entries of its   *)
(* neighbours before it decides, and those stay even if it then aborts.    *)
(***************************************************************************)

\* Mutant: prunes up to the newest commit instead of the watermark.
pruneSSILocked_head(rec) ==
  ssiRecent' = SubSeq(rec, prunable(rec, commitVer) + 1, Len(rec))

pruneSSILocked(rec) ==
  ssiRecent' = SubSeq(rec, prunable(rec, minLive') + 1, Len(rec))

abortSSILocked(t, livE, rec) ==
  /\ ssiLive' = without(livE, t)
  /\ Release(startVer[t])
  /\ pruneSSILocked(rec)
  /\ phase' = [phase EXCEPT ![t] = "aborted"]
  /\ UNCHANGED <<startVer, committedV, writes, seen, scanned>>

\* First-committer-wins failed.
CommitConflict(t) ==
  /\ phase[t] = "active" /\ writes[t] # {}
  /\ conflicts(startVer[t], writes[t])
  /\ abortSSILocked(t, ssiLive, ssiRecent)

readersOf(t) ==
  {u \in DOMAIN ssiLive \ {t} : ssiLive[u].reads \cap writes[t] # {}}

incoming(t) == {i \in Concurrent(t) : ssiRecent[i].reads \cap writes[t] # {}}
outgoing(t) == {i \in Concurrent(t) : ssiRecent[i].writes \cap ssiLive[t].reads # {}}

inConflict(t) == ssiLive[t].inConflict \/ readersOf(t) # {} \/ incoming(t) # {}
outConflict(t) == ssiLive[t].outConflict \/ outgoing(t) # {}

doomed(t) ==
  \/ ssiLive[t].doomed
  \/ \E u \in readersOf(t) : ssiLive[u].inConflict
  \/ \E i \in incoming(t) : ssiRecent[i].inConflict
  \/ \E i \in outgoing(t) : ssiRecent[i].outConflict \/ i \in incoming(t)

flaggedLive(t) ==
  [u \in DOMAIN ssiLive |->
     [ssiLive[u] EXCEPT !.outConflict = @ \/ u \in readersOf(t)]]

flaggedRecent(t) ==
  [i \in 1..Len(ssiRecent) |->
     [ssiRecent[i] EXCEPT !.outConflict = @ \/ i \in incoming(t),
                          !.inConflict = @ \/ i \in outgoing(t)]]

\* Mutant: only the transaction's own two flags are looked at.
pivot_ownFlags(t) == inConflict(t) /\ outConflict(t)

pivot(t) == doomed(t) \/ (inConflict(t) /\ outConflict(t))

\* The pivot of a dangerous structure, or durable returned an error.
CommitAbort(t) ==
  /\ phase[t] = "active" /\ writes[t] # {}
  /\ ~conflicts(startVer[t], writes[t])
  /\ abortSSILocked(t, flaggedLive(t), flaggedRecent(t))

CommitSerializable(t) ==
  /\ phase[t] = "active" /\ writes[t] # {}
  /\ ~conflicts(startVer[t], writes[t])
  /\ ~pivot(t)
  /\ install(startVer[t], writes[t])
  /\ ssiLive' = without(flaggedLive(t), t)
  /\ pruneSSILocked(Append(flaggedRecent(t),
       [commitVer |-> commitVer + 1, reads |-> ssiLive[t].reads, writes |-> writes[t],
        inConflict |-> inConflict(t), outConflict |-> outConflict(t)]))
  /\ committedV' = [committedV EXCEPT ![t] = commitVer + 1]
  /\ phase' = [phase EXCEPT ![t] = "committed"]
  /\ UNCHANGED <<startVer, writes, seen, scanned>>

(***************************************************************************)
(* A commit without writes, or a rollback: ReleaseSSI, then Release.       *)
(***************************************************************************)

ReleaseSSI(t) ==
  /\ phase[t] = "active"
  /\ phase' = [phase EXCEPT ![t] = "releasing"]
  /\ ssiLive' = without(ssiLive, t)
  /\ UNCHANGED <<oracleVars, startVer, committedV, writes, seen, scanned, ssiRecent>>

EndRelease(t) ==
  /\ phase[t] = "releasing"
  /\ Release(startVer[t])
  /\ \/ phase' = [phase EXCEPT ![t] = "aborted"]
     \/ /\ writes[t] = {}
        /\ phase' = [phase EXCEPT ![t] = "committed"]
  /\ UNCHANGED <<startVer, committedV, writes, seen, scanned, ssiVars>>

Init ==
  /\ NewOracle(0)
  /\ phase = [t \in Txns |-> "idle"]
  /\ startVer = [t \in Txns |-> 0]
  /\ committedV = [t \in Txns |-> 0]
  /\ writes = [t \in Txns |-> {}]
  /\ seen = [t \in Txns |-> {}]
  /\ scanned = {}
  /\ ssiLive = [t \in {} |-> FreshSsiTxn]
  /\ ssiRecent = << >>

\* Every transaction is over.
Finished ==
  /\ \A t \in Txns : phase[t] \in {"committed", "aborted"}
  /\ UNCHANGED vars

Next ==
  \/ \E t \in Txns :
       \/ BeginTx(t) \/ RegisterSSI(t)
       \/ \E key \in Keys : FindOne(t, key) \/ Write(t, key)
       \/ Find(t)
       \/ CommitConflict(t) \/ CommitAbort(t) \/ CommitSerializable(t)
       \/ ReleaseSSI(t) \/ EndRelease(t)
  \/ Finished

Spec == Init /\ [][Next]_vars
-----------------------------------------------------------------------------

SsiEntries ==
  [commitVer : Nat \ {0}, reads : SUBSET Keys, writes : SUBSET Keys,
   inConflict : BOOLEAN, outConflict : BOOLEAN]

TypeOK ==
  /\ commitVer \in Nat /\ minLive \in Nat
  /\ DOMAIN live \subseteq 0..commitVer
  /\ live \in [DOMAIN live -> Nat \ {0}]
  /\ recent \in Seq([commitVer : Nat, writeSet : SUBSET Keys])
  /\ phase \in [Txns -> {"idle", "begun", "active", "releasing", "committed", "aborted"}]
  /\ startVer \in [Txns -> Nat] /\ committedV \in [Txns -> Nat]
  /\ writes \in [Txns -> SUBSET Keys] /\ seen \in [Txns -> SUBSET Keys]
  /\ scanned \subseteq Txns
  /\ DOMAIN ssiLive = {t \in Txns : phase[t] = "active"}
  /\ \A t \in DOMAIN ssiLive : ssiLive[t] \in
       [reads : SUBSET Keys, inConflict : BOOLEAN, outConflict : BOOLEAN, doomed : BOOLEAN]
  /\ ssiRecent \in Seq(SsiEntries)

\* The window never forgets a transaction that a live one is concurrent with
\* (pruneSSILocked): every commit after a live snapshot is still in it.
WindowCoversConcurrent ==
  \A t, u \in Txns :
    phase[t] \in {"begun", "active"} /\ committedV[u] > startVer[t] =>
      \E i \in 1..Len(ssiRecent) :
        ssiRecent[i].commitVer = committedV[u] /\ ssiRecent[i].writes = writes[u]

Committed == {t \in Txns : phase[t] = "committed"}

\* Direct serialization graph: t must come before u in any serial order.
Before(t, u) ==
  \/ \* t installed a version that u overwrote
     /\ committedV[t] # 0 /\ committedV[t] < committedV[u]
     /\ writes[t] \cap writes[u] # {}
  \/ \* u observed what t installed
     /\ committedV[t] # 0 /\ committedV[t] <= startVer[u]
     /\ writes[t] \cap seen[u] # {}
  \/ \* u overwrote what t observed
     /\ committedV[u] > startVer[t]
     /\ seen[t] \cap writes[u] # {}

\* Every nonempty set of the transactions has a member with no successor in
\* it: the serialization graph has no cycle.
Acyclic(T) ==
  \A S \in (SUBSET T) \ {{}} : \E t \in S : \A u \in S \ {t} : ~Before(t, u)

\* The committed transactions that wrote, and read by _id only, are
\* serializable among themselves: CommitSerializable aborts the last transaction
\* of any cycle of their antidependencies, whatever aborts, prunes, scans and
\* read-only transactions came between.
UpdatesSerializable == Acyclic({t \in Committed \ scanned : committedV[t] # 0})

\* First-committer-wins holds under Serializable too, scans or not: of two
\* committed writers of one document, one started from the other's version.
NoLostUpdate ==
  \A t, u \in {v \in Committed : committedV[v] # 0} :
    t # u /\ writes[t] \cap writes[u] # {} =>
      committedV[t] <= startVer[u] \/ committedV[u] <= startVer[t]
=============================================================================
