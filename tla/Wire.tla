-------------------------------- MODULE Wire --------------------------------
(***************************************************************************)
(* The wire protocol server: accepting and draining connections            *)
(* (wire/server.go), the request loop of a connection (wire/conn.go), its  *)
(* logical sessions and transactions (wire/session.go over session.go) and *)
(* the cursors that outlive a command (wire/cursor.go, wire/data.go).      *)
(*                                                                         *)
(* A command runs in its connection's goroutine, and what it touches is    *)
(* its connection's or under the lock of the cursor store: a handler is    *)
(* one step.  A transaction of the engine is a number (module Collection   *)
(* says what is in it); whether its commit conflicts is a free choice.  A  *)
(* result set is the number of its documents.  Authentication, framing and *)
(* compression are left out.                                               *)
(***************************************************************************)
EXTENDS Integers, FiniteSets

CONSTANTS
  ConnLimits,    \* values of Options.MaxConns
  Lsids,         \* logical session ids a client uses
  TxnNums,       \* transaction numbers a client uses
  Results,       \* sizes of result sets
  MaxAccepts,    \* bound: connections accepted or rejected
  MaxRequests,   \* bound: those and the commands received, together
  MaxTxns,       \* bound: transactions begun
  MaxCursors     \* bound: cursors connected

ASSUME WireAssumption ==
  /\ ConnLimits \subseteq Nat \ {0} /\ MaxAccepts \in Nat /\ MaxRequests \in Nat
  /\ MaxTxns \in Nat /\ MaxCursors \in Nat /\ Results \subseteq Nat

VARIABLES
  server,    \* the accept loop, the watcher goroutine and their shared state
  conns,     \* connection id -> its conn and the goroutine that serves it
  cursors,   \* the cursor store: the last id given out, the open cursors
  wg         \* ghost: transactions by what became of them, cursors by what
             \*   was delivered, and the bounds' counters

wvars == <<server, conns, cursors, wg>>

ConnIDs == 1..MaxAccepts

NoConn == [at |-> "none", deadline |-> "none", closed |-> FALSE, sessions |-> << >>]

drop(f, S) == [x \in DOMAIN f \ S |-> f[x]]
with(f, x, v) == [y \in DOMAIN f \cup {x} |-> IF y = x THEN v ELSE f[y]]

connected == {c \in ConnIDs : conns[c].at \notin {"none", "uncount", "done"}}

(***************************************************************************)
(* Serve: the accept loop and the watcher that drains the server.          *)
(***************************************************************************)

Accept ==
  /\ server.loop = "accept" /\ server.listening /\ wg.accepts < MaxAccepts
  /\ wg.accepts + wg.commands < MaxRequests
  /\ server' = [server EXCEPT !.loop = "accepted"]
  /\ wg' = [wg EXCEPT !.accepts = @ + 1]
  /\ UNCHANGED <<conns, cursors>>

\* Over the limit the connection is closed at once and the count taken back.
Count ==
  /\ server.loop = "accepted"
  /\ server' = IF server.count + 1 > server.maxConns
               THEN [server EXCEPT !.loop = "accept"]
               ELSE [server EXCEPT !.count = @ + 1, !.loop = "counted"]
  /\ UNCHANGED <<conns, cursors, wg>>

newConn ==
  /\ server.loop = "counted"
  /\ server' = [server EXCEPT !.loop = "accept"]
  /\ conns' = [conns EXCEPT ![wg.accepts] = [NoConn EXCEPT !.at = "top"]]
  /\ UNCHANGED <<cursors, wg>>

\* Accept fails because the watcher closed the listener, or for good.
AcceptFails ==
  /\ server.loop = "accept"
  /\ server' = [server EXCEPT !.loop = "waiting"]
  /\ UNCHANGED <<conns, cursors, wg>>

Cancel ==
  /\ ~server.cancelled
  /\ server' = [server EXCEPT !.cancelled = TRUE]
  /\ UNCHANGED <<conns, cursors, wg>>

StopListening ==
  /\ server.watcher = "watching"
  /\ server.cancelled \/ server.loop = "waiting"
  /\ server' = [server EXCEPT !.listening = FALSE, !.watcher = "draining"]
  /\ UNCHANGED <<conns, cursors, wg>>

\* Mutant: only the reads that have a deadline are interrupted.
interruptReads_armed ==
  /\ server.watcher = "draining" /\ server.count > 0
  /\ conns' = [c \in ConnIDs |->
                 IF c \in connected /\ conns[c].deadline # "none" THEN [conns[c] EXCEPT !.deadline = "past"] ELSE conns[c]]
  /\ UNCHANGED <<server, cursors, wg>>

\* drain, every 5 ms while connections are counted.
interruptReads ==
  /\ server.watcher = "draining" /\ server.count > 0
  /\ conns' = [c \in ConnIDs |->
                 IF c \in connected THEN [conns[c] EXCEPT !.deadline = "past"] ELSE conns[c]]
  /\ UNCHANGED <<server, cursors, wg>>

\* No connection is left, or DrainTimeout has passed.
closeAllConns ==
  /\ server.watcher = "draining"
  /\ conns' = [c \in ConnIDs |->
                 IF c \in connected THEN [conns[c] EXCEPT !.closed = TRUE] ELSE conns[c]]
  /\ server' = [server EXCEPT !.watcher = "over"]
  /\ UNCHANGED <<cursors, wg>>

\* wg.Wait: the watcher and every connection's goroutine have returned.
ServeReturn ==
  /\ server.loop = "waiting" /\ server.watcher = "over"
  /\ \A c \in ConnIDs : conns[c].at \in {"none", "done"}
  /\ server' = [server EXCEPT !.loop = "returned"]
  /\ UNCHANGED <<conns, cursors, wg>>

\* Serve has returned.
ServeOver ==
  /\ server.loop = "returned"
  /\ UNCHANGED wvars

(***************************************************************************)
(* serve: the request loop of connection c.                                *)
(***************************************************************************)

go(c, at) == conns' = [conns EXCEPT ![c].at = at]

hasOpenTxn(c) ==
  \E k \in DOMAIN conns[c].sessions : conns[c].sessions[k].state = "txnInProgress"

checkContext(c) ==
  /\ conns[c].at = "top"
  /\ go(c, IF server.cancelled THEN "leave" ELSE "arm")
  /\ UNCHANGED <<server, cursors, wg>>

armIdleDeadline(c) ==
  /\ conns[c].at = "arm"
  /\ conns' = [conns EXCEPT ![c].at = "read",
                            ![c].deadline = IF hasOpenTxn(c) THEN "none" ELSE "idle"]
  /\ UNCHANGED <<server, cursors, wg>>

\* The peer has closed the connection, or sent what is no message: the read
\* or the write returns an error.
PeerCloses(c) ==
  /\ conns[c].at \in {"read", "write", "stuck"}
  /\ go(c, "leave")
  /\ UNCHANGED <<server, cursors, wg>>

\* A read fails: the drain has closed the connection, or a deadline has passed.
readFails(c) ==
  /\ conns[c].at = "read"
  /\ conns[c].closed \/ conns[c].deadline \in {"idle", "past"}
  /\ go(c, "leave")
  /\ UNCHANGED <<server, cursors, wg>>

\* removeConn: off the table of connections, its cursors closed.
removeConn(c) ==
  /\ conns' = [conns EXCEPT ![c] = [NoConn EXCEPT !.at = "uncount", !.closed = TRUE]]
  /\ cursors' = [cursors EXCEPT !.open = drop(@, {id \in DOMAIN @ : @[id].conn = c})]

\* Mutant: the sessions are dropped with their transactions open.
endAllSessions_drops(c) ==
  /\ conns[c].at = "leave"
  /\ removeConn(c)
  /\ UNCHANGED <<server, wg>>

multis(c) == {conns[c].sessions[k].multi : k \in DOMAIN conns[c].sessions}

\* The deferred calls of serve.
endAllSessions(c) ==
  /\ conns[c].at = "leave"
  /\ wg' = [wg EXCEPT !.live = @ \ multis(c)]
  /\ removeConn(c)
  /\ UNCHANGED server

uncount(c) ==
  /\ conns[c].at = "uncount"
  /\ go(c, "done")
  /\ server' = [server EXCEPT !.count = @ - 1]
  /\ UNCHANGED <<cursors, wg>>

writeReply(c) ==
  /\ conns[c].at = "write"
  /\ go(c, IF conns[c].closed THEN "leave" ELSE "top")
  /\ UNCHANGED <<server, cursors, wg>>

\* The peer stops reading: the write has no deadline.
PeerStalls(c) ==
  /\ conns[c].at = "write" /\ ~conns[c].closed
  /\ go(c, "stuck")
  /\ UNCHANGED <<server, cursors, wg>>

\* The drain has closed the connection that the write is blocked on.
writeFails(c) ==
  /\ conns[c].at = "stuck" /\ conns[c].closed
  /\ go(c, "leave")
  /\ UNCHANGED <<server, cursors, wg>>

(***************************************************************************)
(* Commands.  A reply is written unless the client asked for none.  expired *)
(* is the end of the command's context: maxTimeMS, or the shutdown.        *)
(***************************************************************************)

command(c, sessions) ==
  /\ conns[c].at = "read" /\ ~conns[c].closed
  /\ wg.accepts + wg.commands < MaxRequests
  /\ \E at \in {"write", "top"} :
       conns' = [conns EXCEPT ![c].at = at, ![c].sessions = sessions]
  /\ UNCHANGED server

NoSession == [state |-> "txnNone", txnNum |-> 0, multi |-> 0]

session(c, k) ==
  IF k \in DOMAIN conns[c].sessions THEN conns[c].sessions[k] ELSE NoSession

put(c, k, ws) == command(c, with(conns[c].sessions, k, ws))

\* txnContext, for a command with startTransaction: an open transaction is
\* aborted first.  The session refuses when it still has one after that.
startTransaction(c, k, n) ==
  LET ws == session(c, k)
      left == IF ws.state = "txnInProgress" THEN 0 ELSE ws.multi
      tid == wg.txns + 1
  IN  /\ wg.txns < MaxTxns
      /\ IF left # 0
         THEN /\ put(c, k, ws)
              /\ wg' = [wg EXCEPT !.commands = @ + 1]
         ELSE /\ put(c, k, [state |-> "txnInProgress", txnNum |-> n, multi |-> tid])
              /\ wg' = [wg EXCEPT !.commands = @ + 1, !.txns = tid,
                                  !.live = (@ \ {ws.multi}) \cup {tid},
                                  !.begun = with(@, <<c, k, n>>, tid)]
      /\ UNCHANGED cursors

\* txnContext, for a command of a transaction begun before: it runs on that
\* transaction or is refused.  The session exists from then on.
continueTransaction(c, k) ==
  /\ put(c, k, session(c, k))
  /\ wg' = [wg EXCEPT !.commands = @ + 1]
  /\ UNCHANGED cursors

\* Mutant: the number of the transaction is not compared.
txnTarget_anyNumber(c, k, n) == session(c, k).state # "txnNone"

txnTarget(c, k, n) == session(c, k).state # "txnNone" /\ session(c, k).txnNum = n

\* The transaction a client means by a number.
meant(c, k, n) == IF <<c, k, n>> \in DOMAIN wg.begun THEN {wg.begun[<<c, k, n>>]} ELSE {}

\* A transaction that has ended is acknowledged again.  One in progress is
\* committed, or conflicts and is gone; with the context expired the session
\* does nothing, and the connection takes the transaction for ended.
handleCommitTransaction(c, k, n) ==
  LET ws == session(c, k)
      done == [ws EXCEPT !.state = "txnDone", !.multi = 0]
      ended == [wg EXCEPT !.commands = @ + 1, !.live = @ \ {ws.multi}]
  IN  /\ \/ /\ ~txnTarget(c, k, n)
            /\ command(c, conns[c].sessions)
            /\ wg' = [wg EXCEPT !.commands = @ + 1]
         \/ /\ txnTarget(c, k, n) /\ ws.state = "txnDone"
            /\ command(c, conns[c].sessions)
            /\ wg' = [wg EXCEPT !.commands = @ + 1, !.acked = @ \cup meant(c, k, n)]
         \/ /\ txnTarget(c, k, n) /\ ws.state = "txnInProgress"
            /\ \/ /\ ~server.cancelled /\ put(c, k, done)
                  /\ wg' = [ended EXCEPT !.applied = @ \cup {ws.multi},
                                         !.acked = @ \cup meant(c, k, n)]
               \/ /\ ~server.cancelled /\ put(c, k, done)
                  /\ wg' = [ended EXCEPT !.failed = @ \cup meant(c, k, n)]
               \/ /\ put(c, k, [ws EXCEPT !.state = "txnDone"])
                  /\ wg' = [wg EXCEPT !.commands = @ + 1, !.failed = @ \cup meant(c, k, n),
                                      !.expired = @ \cup {ws.multi}]
      /\ UNCHANGED cursors

handleAbortTransaction(c, k, n) ==
  LET ws == session(c, k)
  IN  /\ IF txnTarget(c, k, n) /\ ws.state = "txnInProgress"
         THEN /\ put(c, k, [ws EXCEPT !.state = "txnDone", !.multi = 0])
              /\ wg' = [wg EXCEPT !.commands = @ + 1, !.live = @ \ {ws.multi},
                                  !.failed = @ \cup meant(c, k, n)]
         ELSE /\ command(c, conns[c].sessions)
              /\ wg' = [wg EXCEPT !.commands = @ + 1]
      /\ UNCHANGED cursors

handleEndSessions(c, k) ==
  /\ k \in DOMAIN conns[c].sessions
  /\ command(c, drop(conns[c].sessions, {k}))
  /\ wg' = [wg EXCEPT !.commands = @ + 1, !.live = @ \ {session(c, k).multi}]
  /\ UNCHANGED cursors

-----------------------------------------------------------------------------

hasMore(total, pos) == total > pos

\* collectBatch: some documents of those left.  The byte cap may end a batch
\* before its size does, but not before the first document.
collectBatch(left, size) ==
  IF left = 0 THEN {0} ELSE 1..(IF size = 0 \/ size > left THEN left ELSE size)

\* handleFind and handleAggregate; the cursor is closed again when nothing is
\* left, after an error, and for a single batch.
firstBatch(c, total, size) ==
  LET id == cursors.seq + 1
  IN  /\ id <= MaxCursors
      /\ command(c, conns[c].sessions)
      /\ \/ \E n \in collectBatch(total, size) :
              /\ ~server.cancelled
              /\ IF hasMore(total, n)
                 THEN /\ cursors' = [seq |-> id, open |-> with(cursors.open, id,
                                       [conn |-> c, pos |-> n, total |-> total])]
                      /\ wg' = [wg EXCEPT !.commands = @ + 1, !.got = with(@, id,
                                  [conn |-> c, n |-> n, total |-> total, told |-> "more"])]
                 ELSE /\ UNCHANGED cursors
                      /\ wg' = [wg EXCEPT !.commands = @ + 1, !.got = with(@, 0,
                                  [conn |-> c, n |-> n, total |-> total, told |-> "end"])]
         \/ /\ UNCHANGED cursors
            /\ wg' = [wg EXCEPT !.commands = @ + 1]

\* Mutant: a cursor answers every connection.
get_any(c, id) == id \in DOMAIN cursors.open

get(c, id) == id \in DOMAIN cursors.open /\ cursors.open[id].conn = c

dropCursor(id) == cursors' = [cursors EXCEPT !.open = drop(@, {id})]

\* What the owner of the cursor has seen of it.
seen(c, id, n, told) ==
  IF wg.got[id].conn = c THEN [wg.got EXCEPT ![id].n = @ + n, ![id].told = told] ELSE wg.got

handleGetMore(c, id, size) ==
  LET cur == cursors.open[id]
  IN  /\ get(c, id)
      /\ command(c, conns[c].sessions)
      /\ \/ \E n \in collectBatch(cur.total - cur.pos, size) :
              /\ ~server.cancelled
              /\ IF hasMore(cur.total, cur.pos + n)
                 THEN /\ cursors' = [cursors EXCEPT !.open[id].pos = @ + n]
                      /\ wg' = [wg EXCEPT !.commands = @ + 1, !.got = seen(c, id, n, "more")]
                 ELSE /\ dropCursor(id)
                      /\ wg' = [wg EXCEPT !.commands = @ + 1, !.got = seen(c, id, n, "end")]
         \/ /\ dropCursor(id)
            /\ wg' = [wg EXCEPT !.commands = @ + 1, !.got = seen(c, id, 0, "error")]

\* getMore and killCursors of a cursor that is not there, or another's.
cursorNotFound(c, id) ==
  /\ id \in 1..cursors.seq /\ ~get(c, id)
  /\ command(c, conns[c].sessions)
  /\ wg' = [wg EXCEPT !.commands = @ + 1]
  /\ UNCHANGED cursors

handleKillCursors(c, id) ==
  /\ get(c, id)
  /\ command(c, conns[c].sessions)
  /\ dropCursor(id)
  /\ wg' = [wg EXCEPT !.commands = @ + 1, !.got = seen(c, id, 0, "killed")]

-----------------------------------------------------------------------------
WireInit ==
  /\ \E max \in ConnLimits :
       server = [loop |-> "accept", listening |-> TRUE, cancelled |-> FALSE,
                 watcher |-> "watching", count |-> 0, maxConns |-> max]
  /\ conns = [c \in ConnIDs |-> NoConn]
  /\ cursors = [seq |-> 0, open |-> << >>]
  /\ wg = [accepts |-> 0, commands |-> 0, txns |-> 0, begun |-> << >>, live |-> {},
           applied |-> {}, acked |-> {}, failed |-> {}, expired |-> {}, got |-> << >>]

WireNext ==
  \/ Accept \/ Count \/ newConn \/ AcceptFails \/ Cancel \/ StopListening
  \/ interruptReads \/ closeAllConns \/ ServeReturn \/ ServeOver
  \/ \E c \in ConnIDs :
       \/ checkContext(c) \/ armIdleDeadline(c) \/ writeReply(c) \/ PeerCloses(c) \/ readFails(c)
       \/ PeerStalls(c) \/ writeFails(c) \/ endAllSessions(c) \/ uncount(c)
       \/ \E k \in Lsids :
            \/ continueTransaction(c, k) \/ handleEndSessions(c, k)
            \/ \E n \in TxnNums : \/ startTransaction(c, k, n)
                                  \/ handleCommitTransaction(c, k, n)
                                  \/ handleAbortTransaction(c, k, n)
       \/ \E total \in Results, size \in 0..2 : firstBatch(c, total, size)
       \/ \E id \in 1..MaxCursors :
            \/ \E size \in 0..2 : handleGetMore(c, id, size)
            \/ cursorNotFound(c, id) \/ handleKillCursors(c, id)

\* Goroutines run: the accept loop, the watcher, and one for each connection.
\* Accept on a closed listener, a read past its deadline and a read or a write
\* on a closed connection return; a write returns unless the client has stopped
\* reading.  The drain goes on interrupting reads and ends when no connection is
\* counted; DrainTimeout is relied on for a client that has stopped reading, and
\* for nothing else.  No command runs for ever.  Nothing is assumed of the idle
\* timeout, and a client may stop sending, stop reading or go at any moment.
WireFairness ==
  /\ WF_wvars(Count \/ newConn \/ ServeReturn \/ (AcceptFails /\ ~server.listening))
  /\ WF_wvars(StopListening \/ interruptReads \/ (closeAllConns /\ server.count = 0))
  /\ WF_wvars(closeAllConns /\ \E c \in ConnIDs : conns[c].at = "stuck")
  /\ \A c \in ConnIDs :
       WF_wvars(\/ checkContext(c) \/ armIdleDeadline(c) \/ writeReply(c) \/ writeFails(c)
                \/ endAllSessions(c) \/ uncount(c)
                \/ (readFails(c) /\ (conns[c].closed \/ conns[c].deadline = "past")))

WireSpec == WireInit /\ [][WireNext]_wvars /\ WireFairness
-----------------------------------------------------------------------------

\* Nothing is lost track of, on whichever path a connection ends: the count that
\* MaxConns and drain go by is that of the goroutines serving a connection, and
\* a cursor is open only while its connection's goroutine has still to close it.
ServerAccounts ==
  /\ server.count = Cardinality({c \in ConnIDs : conns[c].at \notin {"none", "done"}})
                      + (IF server.loop = "counted" THEN 1 ELSE 0)
  /\ server.count <= server.maxConns
  /\ \A id \in DOMAIN cursors.open : conns[cursors.open[id].conn].at \notin {"none", "uncount", "done"}

\* A client that drops mid-transaction leaves nothing pinned: an engine
\* transaction is open only in a session of a connection still served, and that
\* session has it in progress unless the context of its commit had expired.
TransactionsAreHeld ==
  \A tid \in wg.live :
    \E c \in connected : \E k \in DOMAIN conns[c].sessions :
      /\ conns[c].sessions[k].multi = tid
      /\ conns[c].sessions[k].state = "txnInProgress" \/ tid \in wg.expired

\* Whichever way a connection ends (its peer, a deadline, the drain), its count,
\* its cursors and its transactions go with it and no others do.
NothingLeaks == ServerAccounts /\ TransactionsAreHeld

\* The reply to commitTransaction is true of the transaction that the client
\* means by its number: refused, it is not committed; acknowledged, it is,
\* unless an earlier commitTransaction was refused or it had been aborted.
CommitRepliesTrue ==
  /\ wg.failed \cap wg.applied = {}
  /\ wg.acked \subseteq wg.applied \cup wg.failed

\* "A commit on an already-committed transaction is idempotent and returns ok; a
\* stale or unknown transaction returns NoSuchTransaction": what is acknowledged
\* is committed.
AcknowledgedIsCommitted == wg.acked \subseteq wg.applied

\* The batches of a cursor that its owner receives are its result set from the
\* start without a gap, whatever other connections ask for; it is told of the
\* end exactly when it has everything, and until then the cursor is there.
CursorDeliversAll ==
  \A id \in DOMAIN wg.got :
    LET g == wg.got[id]
    IN  /\ g.told = "end" => g.n = g.total
        /\ id \in DOMAIN cursors.open => g.n = cursors.open[id].pos
        /\ g.told = "more" /\ g.conn \in connected => id \in DOMAIN cursors.open

\* Graceful shutdown ends: once the context is cancelled, Serve returns, however
\* a connection's arming of its idle deadline races with the drain's interrupt,
\* and although a client that has stopped reading holds the write of its reply
\* until the drain closes the connection.
ServeReturns == server.cancelled ~> server.loop = "returned"
=============================================================================
