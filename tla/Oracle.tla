------------------------------- MODULE Oracle -------------------------------
(***************************************************************************)
(* The version oracle of mvcc/oracle.go: it hands out snapshots and commit *)
(* versions, keeps the count of live snapshots with the cached watermark   *)
(* minLive, and the committed-since index "recent" against which           *)
(* first-committer-wins is decided.                                        *)
(*                                                                         *)
(* Every method of Oracle runs under o.mu, so each is one atomic piece of  *)
(* an action of the module that uses the oracle.  Conflict keys (64-bit    *)
(* hashes in the code) are members of an arbitrary set; a write set is a   *)
(* set of keys.  nextTxn, which only mints transaction identities, is      *)
(* left out: modules name transactions by themselves.                      *)
(***************************************************************************)
EXTENDS Integers, Sequences, FiniteSetsExt

VARIABLES
  commitVer,   \* latest assigned commit version
  live,        \* start version -> number of live snapshots at it (absent = 0)
  minLive,     \* cached watermark
  recent       \* committed-since index, ascending by commit version

oracleVars == <<commitVer, live, minLive, recent>>

NewOracle(startCommitVer) ==
  /\ commitVer = startCommitVer
  /\ live = [v \in {} |-> 0]
  /\ minLive = startCommitVer
  /\ recent = << >>

\* live[v]++ and live[v]-- of the Go map: an absent key counts zero, and a
\* count that drops to zero (or below) is deleted.

incremented(v) ==
  [s \in DOMAIN live \cup {v} |->
     (IF s \in DOMAIN live THEN live[s] ELSE 0) + (IF s = v THEN 1 ELSE 0)]

\* Mutant: a count that reaches zero stays in the map.
decremented_keepsZero(v) ==
  IF v \in DOMAIN live THEN [live EXCEPT ![v] = live[v] - 1] ELSE live

decremented(v) ==
  IF v \in DOMAIN live /\ live[v] > 1
  THEN [live EXCEPT ![v] = live[v] - 1]
  ELSE [s \in DOMAIN live \ {v} |-> live[s]]

Acquire ==
  /\ minLive' = IF DOMAIN live = {} THEN commitVer ELSE minLive
  /\ live' = incremented(commitVer)
  /\ UNCHANGED <<commitVer, recent>>

\* releaseLocked reads commitVer and recent as the caller left them (cv, rec);
\* pruneLocked, which every caller runs right after it, drops the longest
\* prefix of the index at or below the new watermark.
releaseLocked(startVer, cv) ==
  /\ live' = decremented(startVer)
  /\ minLive' = IF startVer # minLive THEN minLive
                ELSE IF DOMAIN live' = {} THEN cv
                ELSE Min(DOMAIN live')

\* Mutant: stops one entry short of the watermark.
prunable_short(rec, wm) ==
  CHOOSE n \in 0..Len(rec) :
    /\ \A i \in 1..n : rec[i].commitVer < wm
    /\ n < Len(rec) => rec[n + 1].commitVer >= wm

prunable(rec, wm) ==
  CHOOSE n \in 0..Len(rec) :
    /\ \A i \in 1..n : rec[i].commitVer <= wm
    /\ n < Len(rec) => rec[n + 1].commitVer > wm

pruneLocked(rec) ==
  recent' = SubSeq(rec, prunable(rec, minLive') + 1, Len(rec))

Release(startVer) ==
  /\ releaseLocked(startVer, commitVer)
  /\ pruneLocked(recent)
  /\ UNCHANGED commitVer

\* Mutant: the scan stops one entry too early.
conflicts_short(startVer, writeSet) ==
  \E i \in 1..Len(recent) :
    /\ \A j \in i..Len(recent) : recent[j].commitVer > startVer + 1
    /\ recent[i].writeSet \cap writeSet # {}

\* The newest-to-oldest scan of the index stops at the first entry committed
\* at or before the snapshot.
conflicts(startVer, writeSet) ==
  \E i \in 1..Len(recent) :
    /\ \A j \in i..Len(recent) : recent[j].commitVer > startVer
    /\ recent[i].writeSet \cap writeSet # {}

\* The successful end of Commit.  The aborting ends (a conflict, or durable
\* returning an error) do what Release does.
install(startVer, writeSet) ==
  /\ commitVer' = commitVer + 1
  /\ releaseLocked(startVer, commitVer + 1)
  /\ pruneLocked(Append(recent, [commitVer |-> commitVer + 1, writeSet |-> writeSet]))

\* Mutant: the watermark ignores the live snapshots.
Watermark_head == commitVer

Watermark == minLive
=============================================================================
