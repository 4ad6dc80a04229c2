-------------------------- MODULE SnapshotIsolation --------------------------
(***************************************************************************)
(* What the transactions of a collection promise, without versions, chains *)
(* or garbage collection: a transaction reads one frozen copy of the       *)
(* committed documents plus its own writes; a commit installs all its      *)
(* writes in one step; and of two concurrent transactions that write the   *)
(* same document only the first to commit succeeds.                        *)
(***************************************************************************)
CONSTANTS Clients, Keys, Docs, NoDoc

VARIABLES
  db,       \* the committed documents
  running,  \* clients inside a transaction
  snap,     \* per client: the committed documents when it began
  view,     \* per client: what it reads now
  writes,   \* per client: keys it will install
  stale     \* per client: keys others have installed since it began

vars == <<db, running, snap, view, writes, stale>>

Values == Docs \cup {NoDoc}
Nothing == [k \in Keys |-> NoDoc]

Init ==
  /\ db \in [Keys -> Values]
  /\ running = {}
  /\ snap = [c \in Clients |-> Nothing]
  /\ view = [c \in Clients |-> Nothing]
  /\ writes = [c \in Clients |-> {}]
  /\ stale = [c \in Clients |-> {}]

Begin(c) ==
  /\ c \notin running
  /\ running' = running \cup {c}
  /\ snap' = [snap EXCEPT ![c] = db]
  /\ view' = [view EXCEPT ![c] = db]
  /\ UNCHANGED <<db, writes, stale>>

Write(c, k, v) ==
  /\ c \in running
  /\ UNCHANGED running
  /\ writes' = [writes EXCEPT ![c] = @ \cup {k}]
  /\ view' = [view EXCEPT ![c][k] = v]
  /\ UNCHANGED <<db, snap, stale>>

\* Deleting a document the transaction itself created leaves no write.
Undo(c, k) ==
  /\ c \in running
  /\ UNCHANGED running
  /\ snap[c][k] = NoDoc
  /\ writes' = [writes EXCEPT ![c] = @ \ {k}]
  /\ view' = [view EXCEPT ![c][k] = NoDoc]
  /\ UNCHANGED <<db, snap, stale>>

end(c, otherStale) ==
  /\ running' = running \ {c}
  /\ snap' = [snap EXCEPT ![c] = Nothing]
  /\ view' = [view EXCEPT ![c] = Nothing]
  /\ writes' = [writes EXCEPT ![c] = {}]
  /\ stale' = [b \in Clients |-> IF b \in running \ {c} THEN otherStale[b] ELSE {}]

Abort(c) ==
  /\ c \in running
  /\ end(c, stale)
  /\ UNCHANGED db

Commit(c) ==
  /\ c \in running
  /\ end(c, [b \in Clients |-> stale[b] \cup writes[c]])
  /\ writes[c] \cap stale[c] = {}
  /\ db' = [k \in Keys |-> IF k \in writes[c] THEN view[c][k] ELSE db[k]]

Next ==
  \E c \in Clients :
    \/ Begin(c)
    \/ \E k \in Keys, v \in Values : Write(c, k, v)
    \/ \E k \in Keys : Undo(c, k)
    \/ Abort(c)
    \/ Commit(c)

Spec == Init /\ [][Next]_vars
=============================================================================
