----------------------------- MODULE WireProofs -----------------------------
(***************************************************************************)
(* Theorems about Wire for any number of connections, sessions,            *)
(* transactions and cursors, and any size of result sets.                  *)
(***************************************************************************)
EXTENDS Wire, FiniteSetTheorems, TLAPS

\* Functions from a part of K.
Maps(K, V) == UNION {[S -> V] : S \in SUBSET K}

Sessions == [state : {"txnNone", "txnInProgress", "txnDone"}, txnNum : TxnNums \cup {0},
             multi : 0..MaxTxns]

Conns == [at : {"none", "top", "arm", "read", "write", "stuck", "leave", "uncount", "done"},
          deadline : {"none", "idle", "past"}, closed : BOOLEAN,
          sessions : Maps(Lsids, Sessions)]

Cursors == [conn : ConnIDs, pos : Nat, total : Nat]

Deliveries == [conn : ConnIDs, n : Nat, total : Nat,
               told : {"more", "end", "error", "killed"}]

Servers == [loop : {"accept", "accepted", "counted", "waiting", "returned"},
            listening : BOOLEAN, cancelled : BOOLEAN,
            watcher : {"watching", "draining", "over"},
            count : Nat, maxConns : ConnLimits]

Ghosts == [accepts : 0..MaxAccepts, commands : 0..MaxRequests, txns : 0..MaxTxns,
           begun : Maps(ConnIDs \X Lsids \X TxnNums, 1..MaxTxns),
           live : SUBSET (1..MaxTxns), applied : SUBSET (1..MaxTxns),
           acked : SUBSET (1..MaxTxns), failed : SUBSET (1..MaxTxns),
           expired : SUBSET (1..MaxTxns),
           got : Maps(0..MaxCursors, Deliveries)]

WireTypeOK ==
  /\ server \in Servers
  /\ conns \in [ConnIDs -> Conns]
  /\ cursors \in [seq : 0..MaxCursors, open : Maps(1..MaxCursors, Cursors)]
  /\ wg \in Ghosts

served == {c \in ConnIDs : conns[c].at \notin {"none", "done"}}

\* The part of ServerAccounts that is about the count.
CountOK ==
  /\ server.count = Cardinality(served) + (IF server.loop = "counted" THEN 1 ELSE 0)
  /\ server.count <= server.maxConns

\* The connection that Accept has numbered is new, and so are those to come.
AcceptOK ==
  /\ \A c \in ConnIDs : c > wg.accepts => conns[c].at = "none"
  /\ server.loop \in {"accepted", "counted"} =>
       wg.accepts \in ConnIDs /\ conns[wg.accepts].at = "none"

\* The transaction meant by x = <<connection, session, number>>.
Meant(b, x) == IF x \in DOMAIN b THEN {b[x]} ELSE {}

\* A session's transaction is the one its number means; it is in no other
\* session; while in progress nothing has become of it, and once ended the
\* client can have been told.
SessionsOK ==
  \A c \in ConnIDs : \A k \in DOMAIN conns[c].sessions :
    LET ws == conns[c].sessions[k]
    IN  /\ ws.multi <= wg.txns
        /\ ws.state = "txnInProgress" =>
             /\ ws.multi # 0 /\ ws.multi \notin wg.applied \cup wg.failed
             /\ Meant(wg.begun, <<c, k, ws.txnNum>>) = {ws.multi}
        /\ ws.state = "txnDone" => Meant(wg.begun, <<c, k, ws.txnNum>>) \subseteq wg.applied \cup wg.failed
        /\ ws.multi # 0 =>
             \A d \in ConnIDs : \A j \in DOMAIN conns[d].sessions :
               conns[d].sessions[j].multi = ws.multi => d = c /\ j = k

\* Nothing has become of transactions to come.
TxnsOK == \A t \in wg.applied \cup wg.failed : t <= wg.txns

\* What the owner has seen of an open cursor.
Agrees(g, cur) ==
  g.conn = cur.conn /\ g.n = cur.pos /\ g.total = cur.total /\ g.told = "more"

\* What the owner has seen of a cursor agrees with the store.
CursorsOK ==
  /\ \A id \in DOMAIN cursors.open :
       /\ id <= cursors.seq /\ id \in DOMAIN wg.got
       /\ cursors.open[id].conn \in connected
       /\ cursors.open[id].pos < cursors.open[id].total
       /\ Agrees(wg.got[id], cursors.open[id])
  /\ \A id \in DOMAIN wg.got :
       /\ id <= cursors.seq
       /\ conns[wg.got[id].conn].at # "none"
       /\ wg.got[id].told = "end" => wg.got[id].n = wg.got[id].total
       /\ wg.got[id].told = "more" /\ wg.got[id].conn \in connected
            => id \in DOMAIN cursors.open

\* The inductive invariant.
WInv == /\ WireTypeOK /\ AcceptOK /\ CountOK
        /\ TransactionsAreHeld /\ SessionsOK /\ TxnsOK /\ CommitRepliesTrue
        /\ CursorsOK

LEMMA MapsDef ==
  ASSUME NEW K, NEW V, NEW f
  PROVE  f \in Maps(K, V) <=> f \in [DOMAIN f -> V] /\ DOMAIN f \subseteq K
BY Zenon DEF Maps

LEMMA WithMap ==
  ASSUME NEW K, NEW V, NEW f \in Maps(K, V), NEW x \in K, NEW v \in V
  PROVE  with(f, x, v) \in Maps(K, V)
<1>1. f \in [DOMAIN f -> V] /\ DOMAIN f \subseteq K
  BY MapsDef, Zenon
<1>2. with(f, x, v) \in [DOMAIN f \cup {x} -> V]
  BY <1>1, Zenon DEF with
<1> QED BY <1>1, <1>2, Zenon DEF Maps

LEMMA DropMap ==
  ASSUME NEW K, NEW V, NEW f \in Maps(K, V), NEW S
  PROVE  drop(f, S) \in Maps(K, V)
<1>1. f \in [DOMAIN f -> V] /\ DOMAIN f \subseteq K
  BY MapsDef, Zenon
<1>2. drop(f, S) \in [DOMAIN f \ S -> V]
  BY <1>1, Zenon DEF drop
<1> QED BY <1>1, <1>2, Zenon DEF Maps

LEMMA EmptyMap ==
  ASSUME NEW K, NEW V
  PROVE  << >> \in Maps(K, V) /\ DOMAIN << >> = {}
<1>1. << >> \in [{} -> V] /\ DOMAIN << >> = {}
  OBVIOUS
<1> QED BY <1>1, Zenon DEF Maps

\* What the types say of the entries of the maps.
LEMMA Entries ==
  ASSUME WireTypeOK
  PROVE  /\ \A c \in ConnIDs : \A k \in DOMAIN conns[c].sessions :
              k \in Lsids /\ conns[c].sessions[k] \in Sessions
         /\ \A id \in DOMAIN cursors.open : id \in 1..MaxCursors /\ cursors.open[id] \in Cursors
         /\ \A id \in DOMAIN wg.got : id \in 0..MaxCursors /\ wg.got[id] \in Deliveries
         /\ \A x \in DOMAIN wg.begun :
              x \in ConnIDs \X Lsids \X TxnNums /\ wg.begun[x] \in 1..MaxTxns
<1>1. \A c \in ConnIDs : conns[c].sessions \in Maps(Lsids, Sessions)
  BY Zenon DEF WireTypeOK, Ghosts, Conns
<1>2. /\ cursors.open \in Maps(1..MaxCursors, Cursors)
      /\ wg.got \in Maps(0..MaxCursors, Deliveries)
      /\ wg.begun \in Maps(ConnIDs \X Lsids \X TxnNums, 1..MaxTxns)
  BY Zenon DEF WireTypeOK, Ghosts
<1>3. \A c \in ConnIDs : \A k \in DOMAIN conns[c].sessions :
        k \in Lsids /\ conns[c].sessions[k] \in Sessions
  BY <1>1 DEF Maps
<1>4. \A id \in DOMAIN cursors.open : id \in 1..MaxCursors /\ cursors.open[id] \in Cursors
  BY <1>2 DEF Maps
<1>5. \A id \in DOMAIN wg.got : id \in 0..MaxCursors /\ wg.got[id] \in Deliveries
  BY <1>2 DEF Maps
<1>6. \A x \in DOMAIN wg.begun :
        x \in ConnIDs \X Lsids \X TxnNums /\ wg.begun[x] \in 1..MaxTxns
  BY <1>2 DEF Maps
<1> QED BY <1>3, <1>4, <1>5, <1>6, Zenon

\* The fields of wg that are about transactions.
txnFields == <<wg.txns, wg.begun, wg.live, wg.applied, wg.acked, wg.failed, wg.expired>>

\* No connection comes or goes.
SameConns ==
  /\ connected' = connected /\ served' = served
  /\ \A d \in ConnIDs : conns'[d].at = "none" <=> conns[d].at = "none"

LEMMA ServedFinite ==
  /\ IsFiniteSet(served) /\ Cardinality(served) \in Nat
<1>1. IsFiniteSet(ConnIDs)
  BY WireAssumption, FS_Interval DEF ConnIDs
<1> QED BY <1>1, FS_Subset, FS_CardinalityType, Zenon DEF served

\* What a step keeps when it leaves the connections, the sessions and their
\* transactions, or the cursors alone.
LEMMA CountFrame ==
  ASSUME AcceptOK, CountOK, SameConns, wg'.accepts = wg.accepts,
         UNCHANGED <<server.count, server.loop, server.maxConns>>
  PROVE  AcceptOK' /\ CountOK'
BY Zenon DEF AcceptOK, CountOK, SameConns

LEMMA TxnFrame ==
  ASSUME TransactionsAreHeld, SessionsOK, TxnsOK, CommitRepliesTrue,
         connected \subseteq connected', UNCHANGED txnFields,
         \A d \in ConnIDs : \/ conns'[d].sessions = conns[d].sessions
                            \/ d \notin connected /\ DOMAIN conns'[d].sessions = {}
  PROVE  TransactionsAreHeld' /\ SessionsOK' /\ TxnsOK' /\ CommitRepliesTrue'
<1> USE DEF txnFields
<1>1. TxnsOK' /\ CommitRepliesTrue'
  BY Zenon DEF TxnsOK, CommitRepliesTrue
<1>2. \A d \in connected : d \in ConnIDs /\ conns'[d].sessions = conns[d].sessions
  BY Zenon DEF connected
<1>3. TransactionsAreHeld'
  BY <1>2, SMTT(30) DEF TransactionsAreHeld
<1>4. SessionsOK'
  <2> SUFFICES ASSUME NEW c \in ConnIDs, NEW k \in DOMAIN conns'[c].sessions
               PROVE  LET ws == conns'[c].sessions[k]
    IN  /\ ws.multi <= wg.txns
        /\ ws.state = "txnInProgress" =>
             /\ ws.multi # 0 /\ ws.multi \notin wg.applied \cup wg.failed
             /\ Meant(wg.begun, <<c, k, ws.txnNum>>) = {ws.multi}
        /\ ws.state = "txnDone" => Meant(wg.begun, <<c, k, ws.txnNum>>) \subseteq wg.applied \cup wg.failed
        /\ ws.multi # 0 =>
             \A d \in ConnIDs : \A j \in DOMAIN conns'[d].sessions :
               conns'[d].sessions[j].multi = ws.multi => d = c /\ j = k
    BY DEF SessionsOK
  <2>1. conns'[c].sessions = conns[c].sessions
    BY Zenon
  <2>2. \A d \in ConnIDs : \A j \in DOMAIN conns'[d].sessions :
          j \in DOMAIN conns[d].sessions /\ conns'[d].sessions[j] = conns[d].sessions[j]
    BY Zenon
  <2> QED BY <2>1, <2>2, SMTT(30) DEF SessionsOK
<1> QED BY <1>1, <1>3, <1>4, Zenon

LEMMA CursorFrame ==
  ASSUME WireTypeOK, CursorsOK, SameConns, cursors' = cursors, wg'.got = wg.got
  PROVE  CursorsOK'
<1>1. \A id \in DOMAIN wg.got : wg.got[id].conn \in ConnIDs
  BY Entries, Zenon DEF Deliveries
<1>2. \A id \in DOMAIN wg.got : conns'[wg.got[id].conn].at # "none"
  BY <1>1, Zenon DEF SameConns, CursorsOK
<1>3. connected' = connected
  BY Zenon DEF SameConns
<1> QED BY <1>2, <1>3, Zenon DEF CursorsOK

\* A step of a connection's goroutine between two commands.
LEMMA GoShape ==
  ASSUME WireTypeOK, NEW c \in ConnIDs, NEW cn \in Conns,
         conns' = [conns EXCEPT ![c] = cn],
         cn.sessions = conns[c].sessions,
         cn.at \notin {"none", "uncount", "done"},
         conns[c].at \notin {"none", "uncount", "done"}
  PROVE  /\ conns' \in [ConnIDs -> Conns] /\ SameConns
         /\ \A d \in ConnIDs : conns'[d].sessions = conns[d].sessions
<1>1. /\ conns' \in [ConnIDs -> Conns]
      /\ \A d \in ConnIDs : conns'[d] = IF d = c THEN cn ELSE conns[d]
  BY Zenon DEF WireTypeOK, Ghosts
<1>2. SameConns
  BY <1>1, Zenon DEF SameConns, connected, served
<1> QED BY <1>1, <1>2, Zenon

LEMMA GoInv ==
  ASSUME WInv, NEW c \in ConnIDs,
         \/ checkContext(c) \/ armIdleDeadline(c) \/ writeReply(c)
         \/ PeerCloses(c) \/ readFails(c) \/ PeerStalls(c) \/ writeFails(c)
  PROVE  WInv'
<1> USE DEF WInv
<1>1. UNCHANGED <<server, cursors, wg>>
  BY Zenon DEF checkContext, armIdleDeadline, writeReply, PeerCloses, readFails,
               PeerStalls, writeFails
<1>2. \E cn \in Conns : /\ conns' = [conns EXCEPT ![c] = cn]
                        /\ cn.sessions = conns[c].sessions
                        /\ cn.at \notin {"none", "uncount", "done"}
                        /\ conns[c].at \notin {"none", "uncount", "done"}
  <2>0. conns[c] \in Conns /\ conns \in [ConnIDs -> Conns]
    BY Zenon DEF WireTypeOK, Ghosts
  <2>1. CASE armIdleDeadline(c)
    <3> DEFINE cn == [conns[c] EXCEPT !.at = "read",
                        !.deadline = IF hasOpenTxn(c) THEN "none" ELSE "idle"]
    <3>1. conns' = [conns EXCEPT ![c] = cn]
      BY <2>0, <2>1, Zenon DEF armIdleDeadline
    <3>2. cn \in Conns /\ cn.sessions = conns[c].sessions /\ cn.at = "read"
      BY <2>0, Zenon DEF Conns
    <3> HIDE DEF cn
    <3> QED BY <2>1, <3>1, <3>2, Zenon DEF armIdleDeadline
  <2>2. ASSUME NEW at \in {"arm", "leave", "top", "stuck"}, go(c, at),
               conns[c].at \in {"top", "write", "read", "stuck"}
        PROVE  \E cn \in Conns : /\ conns' = [conns EXCEPT ![c] = cn]
                        /\ cn.sessions = conns[c].sessions
                        /\ cn.at \notin {"none", "uncount", "done"}
                        /\ conns[c].at \notin {"none", "uncount", "done"}
    <3> DEFINE cn == [conns[c] EXCEPT !.at = at]
    <3>1. conns' = [conns EXCEPT ![c] = cn]
      BY <2>0, <2>2, Zenon DEF go
    <3>2. cn \in Conns /\ cn.sessions = conns[c].sessions /\ cn.at = at
      BY <2>0, Zenon DEF Conns
    <3> HIDE DEF cn
    <3> QED BY <2>2, <3>1, <3>2, Zenon
  <2>3. CASE checkContext(c)
    BY <2>2, <2>3, Zenon DEF checkContext
  <2>4. CASE writeReply(c)
    BY <2>2, <2>4, Zenon DEF writeReply
  <2>5. CASE PeerCloses(c) \/ readFails(c)
    BY <2>2, <2>5, Zenon DEF PeerCloses, readFails
  <2>6. CASE PeerStalls(c) \/ writeFails(c)
    BY <2>2, <2>6, Zenon DEF PeerStalls, writeFails
  <2> QED BY <2>1, <2>3, <2>4, <2>5, <2>6, Zenon
<1>3. /\ conns' \in [ConnIDs -> Conns] /\ SameConns
      /\ \A d \in ConnIDs : conns'[d].sessions = conns[d].sessions
  BY <1>2, GoShape, Zenon
<1>4. WireTypeOK'
  BY <1>1, <1>3, Zenon DEF WireTypeOK, Ghosts
<1>5. AcceptOK' /\ CountOK'
  BY <1>1, <1>3, CountFrame, Zenon
<1>6. TransactionsAreHeld' /\ SessionsOK' /\ TxnsOK' /\ CommitRepliesTrue'
  BY <1>1, <1>3, TxnFrame, Zenon DEF txnFields, SameConns
<1>7. CursorsOK'
  BY <1>1, <1>3, CursorFrame, Zenon
<1> QED BY <1>4, <1>5, <1>6, <1>7, Zenon

\* The updates of the server's state stay within its type.
LEMMA ServerUpdates ==
  ASSUME NEW s \in Servers
  PROVE  /\ [s EXCEPT !.loop = "accept"] \in Servers
         /\ [s EXCEPT !.loop = "accepted"] \in Servers
         /\ [s EXCEPT !.loop = "waiting"] \in Servers
         /\ [s EXCEPT !.loop = "returned"] \in Servers
         /\ [s EXCEPT !.cancelled = TRUE] \in Servers
         /\ [s EXCEPT !.listening = FALSE, !.watcher = "draining"] \in Servers
         /\ [s EXCEPT !.watcher = "over"] \in Servers
         /\ \A n \in Nat : /\ [s EXCEPT !.count = n] \in Servers
                           /\ [s EXCEPT !.count = n, !.loop = "counted"] \in Servers
BY Zenon DEF Servers

\* Steps of the accept loop and of the watcher that touch no connection's
\* state but its deadline and its closing.
LEMMA ServerInv ==
  ASSUME WInv, \/ Accept \/ Count \/ AcceptFails \/ Cancel \/ StopListening
               \/ interruptReads \/ closeAllConns \/ ServeReturn \/ ServeOver
  PROVE  WInv'
<1> USE DEF WInv
<1>1. /\ conns' \in [ConnIDs -> Conns]
      /\ \A d \in ConnIDs : /\ conns'[d].sessions = conns[d].sessions
                            /\ conns'[d].at = conns[d].at
  <2>1. CASE interruptReads
    BY <2>1 DEF interruptReads, WireTypeOK, Ghosts, Conns
  <2>2. CASE closeAllConns
    <3>1. \A cn \in Conns : /\ [cn EXCEPT !.closed = TRUE] \in Conns
                            /\ [cn EXCEPT !.closed = TRUE].sessions = cn.sessions
                            /\ [cn EXCEPT !.closed = TRUE].at = cn.at
      BY ZenonT(60) DEF Conns
    <3>2. \A d \in ConnIDs : conns[d] \in Conns
      BY Zenon DEF WireTypeOK, Ghosts
    <3>3. conns' = [d \in ConnIDs |->
                      IF d \in connected THEN [conns[d] EXCEPT !.closed = TRUE] ELSE conns[d]]
      BY <2>2, Zenon DEF closeAllConns
    <3> QED BY <3>1, <3>2, <3>3, Zenon
  <2>3. CASE UNCHANGED conns
    BY <2>3, Zenon DEF WireTypeOK, Ghosts
  <2> QED BY <2>1, <2>2, <2>3, Zenon
          DEF Accept, Count, AcceptFails, Cancel, StopListening, ServeReturn, ServeOver, wvars
<1>2. SameConns
  BY <1>1, Zenon DEF SameConns, connected, served
<1>3. /\ UNCHANGED <<cursors, txnFields>> /\ wg'.got = wg.got
  BY Zenon DEF Accept, Count, AcceptFails, Cancel, StopListening, interruptReads, closeAllConns,
         ServeReturn, ServeOver, wvars, WireTypeOK, Ghosts, txnFields
<1>4. TransactionsAreHeld' /\ SessionsOK' /\ TxnsOK' /\ CommitRepliesTrue'
  BY <1>1, <1>2, <1>3, TxnFrame, Zenon DEF SameConns
<1>5. CursorsOK'
  BY <1>2, <1>3, CursorFrame, Zenon
<1>6. CASE Accept
  <2>1. /\ wg'.accepts = wg.accepts + 1 /\ wg'.accepts \in ConnIDs
        /\ wg.accepts \in Nat
        /\ server' = [server EXCEPT !.loop = "accepted"] /\ server.loop = "accept"
    BY <1>6, WireAssumption DEF Accept, WireTypeOK, Ghosts, Servers, ConnIDs
  <2>2. WireTypeOK'
    <3>1. server' \in Servers
      BY <2>1, ServerUpdates, Zenon DEF WireTypeOK, Ghosts
    <3>2. wg' = [wg EXCEPT !.accepts = wg.accepts + 1] /\ wg.accepts + 1 \in 0..MaxAccepts
      BY <1>6, <2>1, WireAssumption DEF Accept, ConnIDs
    <3> QED BY <1>1, <1>3, <3>1, <3>2, Zenon DEF WireTypeOK, Ghosts
  <2>3. AcceptOK'
    <3>1. \A c \in ConnIDs : c \in Nat /\ (c > wg'.accepts \/ c = wg'.accepts => c > wg.accepts)
      BY <2>1 DEF ConnIDs
    <3> QED BY <1>1, <2>1, <3>1, Zenon DEF AcceptOK
  <2>4. CountOK'
    BY <1>2, <2>1, Zenon DEF CountOK, SameConns, WireTypeOK, Ghosts, Servers
  <2> QED BY <1>4, <1>5, <2>2, <2>3, <2>4, Zenon
<1>7. CASE Count
  <2>1. wg' = wg /\ server.loop = "accepted" /\ server.count \in Nat /\ server.maxConns \in Nat
    BY <1>7, WireAssumption, Zenon DEF Count, WireTypeOK, Ghosts, Servers
  <2>2. CASE server.count + 1 > server.maxConns
    <3>1. server' = [server EXCEPT !.loop = "accept"]
      BY <1>7, <2>2, Zenon DEF Count
    <3> QED BY <1>1, <1>2, <1>3, <1>4, <1>5, <2>1, <3>1, Zenon
            DEF WireTypeOK, Ghosts, Servers, AcceptOK, CountOK, SameConns
  <2>3. CASE ~(server.count + 1 > server.maxConns)
    <3>1. server' = [server EXCEPT !.count = server.count + 1, !.loop = "counted"]
      BY <1>7, <2>3, Zenon DEF Count
    <3>2. server' \in Servers
      <4>1. server.count + 1 \in Nat /\ server \in Servers
        BY <2>1 DEF WireTypeOK, Ghosts
      <4> QED BY <3>1, <4>1, ServerUpdates, Zenon
    <3>3. WireTypeOK'
      BY <1>1, <1>3, <2>1, <3>2, Zenon DEF WireTypeOK, Ghosts
    <3>4. AcceptOK'
      BY <1>1, <2>1, <3>1, Zenon DEF WireTypeOK, Ghosts, Servers, AcceptOK
    <3>5. CountOK'
      <4>1. /\ server'.count = server.count + 1 /\ server'.loop = "counted"
            /\ server'.maxConns = server.maxConns
        BY <3>1, Zenon DEF WireTypeOK, Ghosts, Servers
      <4>2. server.count = Cardinality(served) + 0 /\ served' = served
        BY <1>2, <2>1, Zenon DEF CountOK, SameConns
      <4>3. Cardinality(served) \in Nat
        BY ServedFinite, Zenon
      <4> QED BY <2>1, <2>3, <4>1, <4>2, <4>3 DEF CountOK
    <3> QED BY <1>4, <1>5, <3>3, <3>4, <3>5, Zenon
  <2> QED BY <2>2, <2>3, Zenon
<1>8. CASE ~Accept /\ ~Count
  <2>0. server' \in Servers
    BY <1>8, ServerUpdates, Zenon DEF AcceptFails, Cancel, StopListening, interruptReads,
       closeAllConns, ServeReturn, ServeOver, wvars, WireTypeOK, Ghosts
  <2>1. /\ wg' = wg /\ UNCHANGED <<server.count, server.maxConns>>
        /\ server'.loop # server.loop => server'.loop \notin {"accepted", "counted"}
        /\ server.loop = "counted" => server'.loop = "counted"
    BY <1>8, ZenonT(60) DEF AcceptFails, Cancel, StopListening, interruptReads, closeAllConns,
         ServeReturn, ServeOver, wvars, WireTypeOK, Ghosts, Servers
  <2>2. WireTypeOK'
    BY <1>1, <1>3, <2>0, <2>1, Zenon DEF WireTypeOK, Ghosts
  <2>3. AcceptOK' /\ CountOK'
    BY <1>1, <1>2, <2>1, Zenon DEF AcceptOK, CountOK, SameConns
  <2> QED BY <1>4, <1>5, <2>2, <2>3, Zenon
<1> QED BY <1>6, <1>7, <1>8, Zenon

\* A connection counted gets its goroutine.
LEMMA NewConnInv ==
  ASSUME WInv, newConn
  PROVE  WInv'
<1> USE DEF WInv
<1> DEFINE c == wg.accepts
           cn == [NoConn EXCEPT !.at = "top"]
<1>1. /\ server.loop = "counted" /\ server' = [server EXCEPT !.loop = "accept"]
      /\ conns' = [conns EXCEPT ![c] = cn] /\ UNCHANGED <<cursors, wg>>
  BY Zenon DEF newConn
<1>2. c \in ConnIDs /\ conns[c].at = "none"
  BY <1>1, Zenon DEF AcceptOK
<1>3. cn \in Conns /\ cn.at = "top" /\ DOMAIN cn.sessions = {}
  BY EmptyMap, Zenon DEF NoConn, Conns
<1> HIDE DEF c, cn
<1>4. \A d \in ConnIDs : conns'[d] = IF d = c THEN cn ELSE conns[d]
  BY <1>1, <1>2, Zenon DEF WireTypeOK, Ghosts
<1>5. WireTypeOK'
  <2>1. server' \in Servers
    BY <1>1, ServerUpdates, Zenon DEF WireTypeOK, Ghosts
  <2>2. conns' \in [ConnIDs -> Conns]
    BY <1>1, <1>3, Zenon DEF WireTypeOK, Ghosts
  <2> QED BY <1>1, <2>1, <2>2, Zenon DEF WireTypeOK, Ghosts
<1>6. served' = served \cup {c} /\ c \notin served /\ connected' = connected \cup {c}
      /\ c \notin connected
  BY <1>2, <1>3, <1>4, Zenon DEF served, connected
<1>7. server'.loop = "accept" /\ UNCHANGED <<server.count, server.maxConns>>
  BY <1>1, Zenon DEF WireTypeOK, Ghosts, Servers
<1>8. CountOK'
  <2>1. Cardinality(served') = Cardinality(served) + 1
    BY <1>6, ServedFinite, FS_AddElement, Zenon
  <2> QED BY <1>1, <1>7, <2>1, ServedFinite DEF CountOK
<1>9. AcceptOK'
  <2>1. c \in Nat /\ wg'.accepts = c
    BY <1>1, <1>2 DEF ConnIDs, c
  <2>2. \A d \in ConnIDs : d \in Nat
    BY DEF ConnIDs
  <2>3. \A d \in ConnIDs : d > c => conns'[d].at = "none"
    BY <1>4, <2>1, <2>2 DEF AcceptOK, c
  <2> QED BY <1>7, <2>1, <2>3, Zenon DEF AcceptOK
<1>10. TransactionsAreHeld' /\ SessionsOK' /\ TxnsOK' /\ CommitRepliesTrue'
  <2>1. \A d \in ConnIDs : \/ conns'[d].sessions = conns[d].sessions
                           \/ d \notin connected /\ DOMAIN conns'[d].sessions = {}
    BY <1>3, <1>4, <1>6, Zenon
  <2> QED BY <1>1, <1>6, <2>1, TxnFrame, Zenon DEF txnFields
<1>11. CursorsOK'
  <2>1. \A id \in DOMAIN wg.got : wg.got[id].conn \in ConnIDs /\ wg.got[id].conn # c
    BY <1>2, Entries, Zenon DEF CursorsOK, Deliveries
  <2>2. \A id \in DOMAIN wg.got : conns'[wg.got[id].conn].at # "none"
    BY <1>4, <2>1, Zenon DEF CursorsOK
  <2> QED BY <1>1, <1>6, <2>1, <2>2, Zenon DEF CursorsOK
<1> QED BY <1>5, <1>8, <1>9, <1>10, <1>11, Zenon

\* The last step of a connection's goroutine.
LEMMA UncountInv ==
  ASSUME WInv, NEW c \in ConnIDs, uncount(c)
  PROVE  WInv'
<1> USE DEF WInv
<1> DEFINE cn == [conns[c] EXCEPT !.at = "done"]
<1>1. /\ conns[c].at = "uncount" /\ conns' = [conns EXCEPT ![c] = cn]
      /\ server' = [server EXCEPT !.count = server.count - 1]
      /\ UNCHANGED <<cursors, wg>>
  BY Zenon DEF uncount, go, WireTypeOK, Ghosts
<1>2. cn \in Conns /\ cn.at = "done" /\ cn.sessions = conns[c].sessions
  BY DEF WireTypeOK, Ghosts, Conns
<1> HIDE DEF cn
<1>3. \A d \in ConnIDs : conns'[d] = IF d = c THEN cn ELSE conns[d]
  BY <1>1, Zenon DEF WireTypeOK, Ghosts
<1>4. connected' = connected /\ served' = served \ {c} /\ c \in served
  BY <1>1, <1>2, <1>3, Zenon DEF served, connected
<1>5. Cardinality(served') = Cardinality(served) - 1 /\ Cardinality(served') \in Nat
  BY <1>4, ServedFinite, FS_RemoveElement, FS_CardinalityType, Zenon
<1>6. server.count \in Nat /\ server.count - 1 \in Nat
  BY <1>5, ServedFinite DEF CountOK, WireTypeOK, Ghosts, Servers
<1>7. WireTypeOK'
  <2>1. server' \in Servers
    <3> DEFINE n == server.count - 1
    <3>1. n \in Nat /\ server' = [server EXCEPT !.count = n] /\ server \in Servers
      BY <1>1, <1>6, Zenon DEF WireTypeOK, Ghosts
    <3> HIDE DEF n
    <3> QED BY <3>1, ServerUpdates, Zenon
  <2>2. conns' \in [ConnIDs -> Conns]
    BY <1>1, <1>2, Zenon DEF WireTypeOK, Ghosts
  <2> QED BY <1>1, <2>1, <2>2, Zenon DEF WireTypeOK, Ghosts
<1>8. /\ server'.count = server.count - 1
      /\ UNCHANGED <<server.loop, server.maxConns>>
  BY <1>1, Zenon DEF WireTypeOK, Ghosts, Servers
<1>9. CountOK'
  <2>1. server.maxConns \in Nat
    BY WireAssumption, Zenon DEF WireTypeOK, Ghosts, Servers
  <2> QED BY <1>5, <1>6, <1>8, <2>1, ServedFinite DEF CountOK
<1>10. \A d \in ConnIDs : conns'[d].at = "none" <=> conns[d].at = "none"
  BY <1>1, <1>2, <1>3, Zenon
<1>11. AcceptOK'
  BY <1>1, <1>8, <1>10, Zenon DEF AcceptOK
<1>12. TransactionsAreHeld' /\ SessionsOK' /\ TxnsOK' /\ CommitRepliesTrue'
  <2>1. \A d \in ConnIDs : conns'[d].sessions = conns[d].sessions
    BY <1>2, <1>3, Zenon
  <2> QED BY <1>1, <1>4, <2>1, TxnFrame, Zenon DEF txnFields
<1>13. CursorsOK'
  <2>1. \A id \in DOMAIN wg.got : wg.got[id].conn \in ConnIDs
    BY Entries, Zenon DEF Deliveries
  <2>2. \A id \in DOMAIN wg.got : conns'[wg.got[id].conn].at # "none"
    BY <1>10, <2>1, Zenon DEF CursorsOK
  <2> QED BY <1>1, <1>4, <2>2, Zenon DEF CursorsOK
<1> QED BY <1>7, <1>9, <1>11, <1>12, <1>13, Zenon

\* A command received: its connection is served before and after, and only
\* its sessions change.
LEMMA CommandShape ==
  ASSUME WireTypeOK, NEW c \in ConnIDs, NEW s \in Maps(Lsids, Sessions), command(c, s)
  PROVE  /\ conns' \in [ConnIDs -> Conns] /\ SameConns /\ server' = server
         /\ c \in connected /\ conns[c].at # "none"
         /\ \A d \in ConnIDs :
              conns'[d].sessions = IF d = c THEN s ELSE conns[d].sessions
         /\ wg.commands + 1 \in 0..MaxRequests
<1>1. PICK at \in {"write", "top"} :
        conns' = [conns EXCEPT ![c].at = at, ![c].sessions = s]
  BY Zenon DEF command
<1> DEFINE cn == [conns[c] EXCEPT !.at = at, !.sessions = s]
<1>2. conns[c] \in Conns /\ conns \in [ConnIDs -> Conns]
  BY Zenon DEF WireTypeOK, Ghosts
<1>3. conns' = [conns EXCEPT ![c] = cn]
  BY <1>1, <1>2, Zenon
<1>4. cn \in Conns /\ cn.at = at /\ cn.sessions = s
  BY <1>2, Zenon DEF Conns
<1> HIDE DEF cn
<1>5. /\ conns' \in [ConnIDs -> Conns]
      /\ \A d \in ConnIDs : conns'[d] = IF d = c THEN cn ELSE conns[d]
  BY <1>2, <1>3, <1>4, Zenon
<1>6. conns[c].at = "read" /\ server' = server /\ wg.accepts + wg.commands < MaxRequests
  BY Zenon DEF command
<1>7. SameConns /\ c \in connected
  BY <1>4, <1>5, <1>6, Zenon DEF SameConns, connected, served
<1>8. wg.commands + 1 \in 0..MaxRequests
  BY <1>6, WireAssumption DEF WireTypeOK, Ghosts
<1> QED BY <1>4, <1>5, <1>6, <1>7, <1>8, Zenon

\* The deferred calls of serve end the connection's transactions, close its
\* cursors and take it off the table.
LEMMA EndAllSessionsInv ==
  ASSUME WInv, NEW c \in ConnIDs, endAllSessions(c)
  PROVE  WInv'
<1> USE DEF WInv
<1> DEFINE cn == [NoConn EXCEPT !.at = "uncount", !.closed = TRUE]
           gone == {id \in DOMAIN cursors.open : cursors.open[id].conn = c}
<1>1. /\ conns[c].at = "leave" /\ conns' = [conns EXCEPT ![c] = cn]
      /\ cursors' = [cursors EXCEPT !.open = drop(cursors.open, gone)]
      /\ wg' = [wg EXCEPT !.live = wg.live \ multis(c)] /\ server' = server
  BY Zenon DEF endAllSessions, removeConn, WireTypeOK, Ghosts
<1>2. cn \in Conns /\ cn.at = "uncount" /\ DOMAIN cn.sessions = {}
  BY EmptyMap, Zenon DEF NoConn, Conns
<1> HIDE DEF cn
<1>3. \A d \in ConnIDs : conns'[d] = IF d = c THEN cn ELSE conns[d]
  BY <1>1, Zenon DEF WireTypeOK, Ghosts
<1>4. /\ connected' = connected \ {c} /\ served' = served
      /\ \A d \in ConnIDs : conns'[d].at = "none" <=> conns[d].at = "none"
  BY <1>1, <1>2, <1>3, Zenon DEF served, connected
<1>5. /\ cursors'.seq = cursors.seq /\ cursors'.open = drop(cursors.open, gone)
      /\ wg'.live = wg.live \ multis(c)
      /\ wg'.accepts = wg.accepts /\ wg'.got = wg.got
      /\ UNCHANGED <<wg.txns, wg.begun, wg.applied, wg.acked, wg.failed, wg.expired>>
  BY <1>1, Zenon DEF WireTypeOK, Ghosts
<1>6. WireTypeOK'
  <2>1. conns' \in [ConnIDs -> Conns]
    BY <1>1, <1>2, Zenon DEF WireTypeOK, Ghosts
  <2>2. drop(cursors.open, gone) \in Maps(1..MaxCursors, Cursors)
    <3>1. cursors.open \in Maps(1..MaxCursors, Cursors)
      BY Zenon DEF WireTypeOK, Ghosts
    <3> HIDE DEF gone
    <3> QED BY <3>1, DropMap, Zenon
  <2>3. cursors' \in [seq : 0..MaxCursors, open : Maps(1..MaxCursors, Cursors)]
    BY <1>1, <2>2, Zenon DEF WireTypeOK, Ghosts
  <2> QED BY <1>1, <2>1, <2>3, Zenon DEF WireTypeOK, Ghosts
<1>7. AcceptOK' /\ CountOK'
  BY <1>1, <1>4, <1>5, Zenon DEF AcceptOK, CountOK
<1>8. TransactionsAreHeld'
  <2> SUFFICES ASSUME NEW tid \in wg.live \ multis(c)
               PROVE  \E d \in connected' : \E k \in DOMAIN conns'[d].sessions :
                        /\ conns'[d].sessions[k].multi = tid
                        /\ conns'[d].sessions[k].state = "txnInProgress" \/ tid \in wg.expired
    BY <1>5 DEF TransactionsAreHeld
  <2>1. PICK d \in connected : \E k \in DOMAIN conns[d].sessions :
                        /\ conns[d].sessions[k].multi = tid
                        /\ conns[d].sessions[k].state = "txnInProgress" \/ tid \in wg.expired
    BY Zenon DEF TransactionsAreHeld
  <2>2. d # c /\ d \in ConnIDs
    BY <2>1, Zenon DEF multis, connected
  <2> QED BY <1>3, <1>4, <2>1, <2>2, Zenon
<1>9. SessionsOK'
  <2>1. \A d \in ConnIDs : \A k \in DOMAIN conns'[d].sessions :
          d # c /\ k \in DOMAIN conns[d].sessions
            /\ conns'[d].sessions[k] = conns[d].sessions[k]
    BY <1>2, <1>3, Zenon
  <2> QED BY <1>5, <2>1 DEF SessionsOK
<1>10. TxnsOK' /\ CommitRepliesTrue'
  BY <1>5, Zenon DEF TxnsOK, CommitRepliesTrue
<1>11. CursorsOK'
  <2>1. \A id \in DOMAIN cursors'.open :
          /\ id \in DOMAIN cursors.open /\ cursors'.open[id] = cursors.open[id]
          /\ cursors.open[id].conn # c
    BY <1>5, Zenon DEF drop
  <2>2. \A id \in DOMAIN cursors.open : cursors.open[id].conn # c => id \in DOMAIN cursors'.open
    BY <1>5, Zenon DEF drop
  <2>3. \A id \in DOMAIN wg.got : conns'[wg.got[id].conn].at # "none"
    BY <1>4, Entries, Zenon DEF CursorsOK, Deliveries
  <2>4. ASSUME NEW id \in DOMAIN wg.got, wg.got[id].told = "more",
               wg.got[id].conn \in connected'
        PROVE  id \in DOMAIN cursors'.open
    <3>1. id \in DOMAIN cursors.open /\ wg.got[id].conn # c
      BY <1>4, <2>4, Zenon DEF CursorsOK
    <3>2. cursors.open[id].conn = wg.got[id].conn
      <4>1. Agrees(wg.got[id], cursors.open[id])
        BY <3>1, Zenon DEF CursorsOK
      <4> QED BY <4>1, Zenon DEF Agrees
    <3> QED BY <2>2, <3>1, <3>2, Zenon
  <2>5. \A id \in DOMAIN cursors'.open :
       /\ id <= cursors'.seq /\ id \in DOMAIN wg'.got
       /\ cursors'.open[id].conn \in connected'
       /\ cursors'.open[id].pos < cursors'.open[id].total
       /\ Agrees(wg'.got[id], cursors'.open[id])
    BY <1>4, <1>5, <2>1, Zenon DEF CursorsOK
  <2>6. \A id \in DOMAIN wg'.got :
       /\ id <= cursors'.seq
       /\ conns'[wg'.got[id].conn].at # "none"
       /\ wg'.got[id].told = "end" => wg'.got[id].n = wg'.got[id].total
       /\ wg'.got[id].told = "more" /\ wg'.got[id].conn \in connected'
            => id \in DOMAIN cursors'.open
    BY <1>5, <2>3, <2>4, Zenon DEF CursorsOK
  <2> QED BY <2>5, <2>6, Zenon DEF CursorsOK
<1> QED BY <1>6, <1>7, <1>8, <1>9, <1>10, <1>11, Zenon

\* What holds of the session a command names, made for it or found.
LEMMA SessionFacts ==
  ASSUME WInv, NEW c \in ConnIDs, NEW k \in Lsids, c \in connected
  PROVE  LET ws == session(c, k)
         IN  /\ ws \in Sessions /\ ws.multi <= wg.txns
             /\ ws.state = "txnInProgress" =>
                  /\ ws.multi # 0 /\ ws.multi \notin wg.applied \cup wg.failed
                  /\ Meant(wg.begun, <<c, k, ws.txnNum>>) = {ws.multi}
             /\ ws.state = "txnDone" =>
                  Meant(wg.begun, <<c, k, ws.txnNum>>) \subseteq wg.applied \cup wg.failed
             /\ \A d \in ConnIDs : \A j \in DOMAIN conns[d].sessions :
                  ws.multi # 0 /\ conns[d].sessions[j].multi = ws.multi => d = c /\ j = k
             /\ ws.multi \in wg.live => ws.state = "txnInProgress" \/ ws.multi \in wg.expired
<1> USE DEF WInv
<1>1. CASE k \in DOMAIN conns[c].sessions
  <2> DEFINE ws == conns[c].sessions[k]
  <2>1. session(c, k) = ws
    BY <1>1, Zenon DEF session
  <2>2. ws \in Sessions
    BY <1>1, Entries, Zenon
  <2>3. /\ ws.multi <= wg.txns
        /\ ws.state = "txnInProgress" =>
             /\ ws.multi # 0 /\ ws.multi \notin wg.applied \cup wg.failed
             /\ Meant(wg.begun, <<c, k, ws.txnNum>>) = {ws.multi}
        /\ ws.state = "txnDone" => Meant(wg.begun, <<c, k, ws.txnNum>>) \subseteq wg.applied \cup wg.failed
        /\ ws.multi # 0 =>
             \A d \in ConnIDs : \A j \in DOMAIN conns[d].sessions :
               conns[d].sessions[j].multi = ws.multi => d = c /\ j = k
    BY <1>1, Zenon DEF SessionsOK
  <2>4. ws.multi \in wg.live => ws.state = "txnInProgress" \/ ws.multi \in wg.expired
    <3> SUFFICES ASSUME ws.multi \in wg.live
                 PROVE  ws.state = "txnInProgress" \/ ws.multi \in wg.expired
      BY Zenon
    <3>1. PICK d \in connected : \E j \in DOMAIN conns[d].sessions :
            /\ conns[d].sessions[j].multi = ws.multi
            /\ conns[d].sessions[j].state = "txnInProgress" \/ ws.multi \in wg.expired
      BY Zenon DEF TransactionsAreHeld
    <3>2. d \in ConnIDs /\ ws.multi # 0
      BY DEF connected, WireTypeOK, Ghosts
    <3> QED BY <2>3, <3>1, <3>2, Zenon
  <2> HIDE DEF ws
  <2> QED BY <2>1, <2>2, <2>3, <2>4, Zenon
<1>2. CASE k \notin DOMAIN conns[c].sessions
  <2>1. session(c, k) = NoSession
    BY <1>2, Zenon DEF session
  <2>2. /\ NoSession \in Sessions /\ NoSession.multi = 0 /\ NoSession.state = "txnNone"
        /\ 0 \notin wg.live /\ wg.txns \in Nat
    BY WireAssumption DEF NoSession, Sessions, WireTypeOK, Ghosts
  <2> HIDE DEF NoSession
  <2> QED BY <2>1, <2>2
<1> QED BY <1>1, <1>2, Zenon

\* What a command does to the transactions when it leaves session k of c as ws.
Sets(c, k, ws) ==
  /\ ws.multi # 0 => ws.multi = session(c, k).multi \/ ws.multi > wg.txns
  /\ ws.multi <= wg'.txns /\ wg.txns <= wg'.txns
  /\ ws.state = "txnInProgress" =>
       /\ ws.multi # 0 /\ ws.multi \notin wg'.applied \cup wg'.failed
       /\ Meant(wg'.begun, <<c, k, ws.txnNum>>) = {ws.multi}
  /\ ws.state = "txnDone" => Meant(wg'.begun, <<c, k, ws.txnNum>>) \subseteq wg'.applied \cup wg'.failed
  /\ wg.applied \subseteq wg'.applied /\ wg.failed \subseteq wg'.failed
  /\ wg'.applied \cup wg'.failed \subseteq wg.applied \cup wg.failed \cup {session(c, k).multi}
  /\ \A d \in ConnIDs, j \in Lsids, n \in TxnNums \cup {0} :
       d # c \/ j # k => Meant(wg'.begun, <<d, j, n>>) = Meant(wg.begun, <<d, j, n>>)
  /\ wg'.live \subseteq wg.live \cup {ws.multi}
  /\ session(c, k).multi \in wg'.live => ws.multi = session(c, k).multi
  /\ ws.multi \in wg'.live => ws.state = "txnInProgress" \/ ws.multi \in wg'.expired
  /\ wg.expired \subseteq wg'.expired

LEMMA SetsInv ==
  ASSUME WInv, NEW c \in ConnIDs, NEW k \in Lsids, NEW ws \in Sessions, c \in connected,
         connected' = connected, wg'.txns \in Nat, Sets(c, k, ws),
         \A d \in ConnIDs :
           conns'[d].sessions = IF d = c THEN with(conns[c].sessions, k, ws)
                                ELSE conns[d].sessions
  PROVE  TransactionsAreHeld' /\ SessionsOK' /\ TxnsOK'
<1> USE DEF WInv
<1> DEFINE old == session(c, k)
<1>0. /\ old \in Sessions /\ old.multi <= wg.txns
      /\ \A d \in ConnIDs : \A j \in DOMAIN conns[d].sessions :
           old.multi # 0 /\ conns[d].sessions[j].multi = old.multi => d = c /\ j = k
  BY SessionFacts, Zenon
<1>1. wg.txns \in Nat /\ ws.multi \in Nat /\ old.multi \in Nat
  BY <1>0, WireAssumption DEF WireTypeOK, Ghosts, Sessions
<1>2. /\ \A d \in ConnIDs : \A j \in DOMAIN conns[d].sessions : d # c \/ j # k =>
           j \in DOMAIN conns'[d].sessions /\ conns'[d].sessions[j] = conns[d].sessions[j]
      /\ \A d \in ConnIDs : \A j \in DOMAIN conns'[d].sessions : d # c \/ j # k =>
           j \in DOMAIN conns[d].sessions /\ conns'[d].sessions[j] = conns[d].sessions[j]
      /\ k \in DOMAIN conns'[c].sessions /\ conns'[c].sessions[k] = ws
  <2>1. /\ \A d \in ConnIDs : d # c => conns'[d].sessions = conns[d].sessions
        /\ conns'[c].sessions = with(conns[c].sessions, k, ws)
    BY Zenon
  <2>2. /\ DOMAIN conns'[c].sessions = DOMAIN conns[c].sessions \cup {k}
        /\ \A j \in DOMAIN conns'[c].sessions :
             conns'[c].sessions[j] = IF j = k THEN ws ELSE conns[c].sessions[j]
    BY <2>1, Zenon DEF with
  <2> QED BY <2>1, <2>2, Zenon
<1>3. TransactionsAreHeld'
  <2> SUFFICES ASSUME NEW tid \in wg'.live
               PROVE  \E d \in connected' : \E j \in DOMAIN conns'[d].sessions :
                        /\ conns'[d].sessions[j].multi = tid
                        /\ conns'[d].sessions[j].state = "txnInProgress" \/ tid \in wg'.expired
    BY Zenon DEF TransactionsAreHeld
  <2>1. CASE tid = ws.multi
    BY <1>2, <2>1, SMTT(30) DEF Sets
  <2>2. CASE tid # ws.multi
    <3>1. tid \in wg.live /\ tid # old.multi
      BY <2>2, Zenon DEF Sets
    <3>2. PICK d \in connected : \E j \in DOMAIN conns[d].sessions :
                        /\ conns[d].sessions[j].multi = tid
                        /\ conns[d].sessions[j].state = "txnInProgress" \/ tid \in wg.expired
      BY <3>1, Zenon DEF TransactionsAreHeld
    <3>3. PICK j \in DOMAIN conns[d].sessions :
                        /\ conns[d].sessions[j].multi = tid
                        /\ conns[d].sessions[j].state = "txnInProgress" \/ tid \in wg.expired
      BY <3>2, Zenon
    <3>4. d \in ConnIDs
      BY Zenon DEF connected
    <3>5. d # c \/ j # k
      BY <3>1, <3>3, Zenon DEF session
    <3> QED BY <1>2, <3>3, <3>4, <3>5, SMTT(30) DEF Sets
  <2> QED BY <2>1, <2>2, Zenon
<1>4. SessionsOK'
  <2> SUFFICES ASSUME NEW d \in ConnIDs, NEW j \in DOMAIN conns'[d].sessions
               PROVE  LET w == conns'[d].sessions[j]
    IN  /\ w.multi <= wg'.txns
        /\ w.state = "txnInProgress" =>
             /\ w.multi # 0 /\ w.multi \notin wg'.applied \cup wg'.failed
             /\ Meant(wg'.begun, <<d, j, w.txnNum>>) = {w.multi}
        /\ w.state = "txnDone" => Meant(wg'.begun, <<d, j, w.txnNum>>) \subseteq wg'.applied \cup wg'.failed
        /\ w.multi # 0 =>
             \A e \in ConnIDs : \A i \in DOMAIN conns'[e].sessions :
               conns'[e].sessions[i].multi = w.multi => e = d /\ i = j
    BY ZenonT(60) DEF SessionsOK
  <2>1. \A e \in ConnIDs : \A i \in DOMAIN conns[e].sessions :
          e # c \/ i # k => conns[e].sessions[i].multi # ws.multi \/ ws.multi = 0
    <3> SUFFICES ASSUME NEW e \in ConnIDs, NEW i \in DOMAIN conns[e].sessions,
                        e # c \/ i # k, ws.multi # 0
                 PROVE  conns[e].sessions[i].multi # ws.multi
      BY Zenon
    <3>1. conns[e].sessions[i].multi <= wg.txns /\ conns[e].sessions[i].multi \in Nat
      <4>1. conns[e].sessions[i] \in Sessions
        BY Entries, Zenon
      <4>2. conns[e].sessions[i].multi <= wg.txns
        BY Zenon DEF SessionsOK
      <4> QED BY <4>1, <4>2, WireAssumption DEF Sessions
    <3>2. CASE ws.multi = old.multi
      BY <1>0, <3>2, Zenon
    <3>3. CASE ws.multi > wg.txns
      BY <1>1, <3>1, <3>3
    <3> QED BY <3>2, <3>3, Zenon DEF Sets
  <2>2. CASE d = c /\ j = k
    <3>1. \A e \in ConnIDs : \A i \in DOMAIN conns'[e].sessions :
            ws.multi # 0 /\ conns'[e].sessions[i].multi = ws.multi => e = c /\ i = k
      BY <1>2, <2>1, SMTT(30)
    <3> QED BY <1>2, <2>2, <3>1, SMTT(30) DEF Sets
  <2>3. CASE d # c \/ j # k
    <3> DEFINE w == conns[d].sessions[j]
    <3>1. j \in DOMAIN conns[d].sessions /\ conns'[d].sessions[j] = w
      BY <1>2, <2>3, Zenon
    <3>2. j \in Lsids /\ w \in Sessions
      BY <3>1, Entries, Zenon
    <3>3. /\ w.multi <= wg.txns
          /\ w.state = "txnInProgress" =>
               /\ w.multi # 0 /\ w.multi \notin wg.applied \cup wg.failed
               /\ Meant(wg.begun, <<d, j, w.txnNum>>) = {w.multi}
          /\ w.state = "txnDone" => Meant(wg.begun, <<d, j, w.txnNum>>) \subseteq wg.applied \cup wg.failed
          /\ w.multi # 0 =>
               \A e \in ConnIDs : \A i \in DOMAIN conns[e].sessions :
                 conns[e].sessions[i].multi = w.multi => e = d /\ i = j
      BY <3>1, Zenon DEF SessionsOK
    <3>4. w.multi # 0 => w.multi # old.multi /\ w.multi # ws.multi
      <4> SUFFICES ASSUME w.multi # 0 PROVE w.multi # old.multi /\ w.multi # ws.multi
        BY Zenon
      <4>1. w.multi # old.multi
        BY <1>0, <2>3, <3>1, Zenon
      <4>2. w.multi # ws.multi
        BY <2>1, <2>3, <3>1, Zenon
      <4> QED BY <4>1, <4>2, Zenon
    <3>5. Meant(wg'.begun, <<d, j, w.txnNum>>) = Meant(wg.begun, <<d, j, w.txnNum>>)
      <4>1. w.txnNum \in TxnNums \cup {0}
        BY <3>2, Zenon DEF Sessions
      <4> HIDE DEF w
      <4> QED BY <2>3, <3>2, <4>1, SMTT(30) DEF Sets
    <3>6. w.multi <= wg'.txns
      BY <1>1, <3>2, <3>3, SMTT(30) DEF Sets, Sessions
    <3>7. \A e \in ConnIDs : \A i \in DOMAIN conns'[e].sessions :
            w.multi # 0 /\ conns'[e].sessions[i].multi = w.multi => e = d /\ i = j
      BY <1>2, <3>3, <3>4, SMTT(30)
    <3> HIDE DEF w
    <3>8. w.state = "txnInProgress" =>
               /\ w.multi # 0 /\ w.multi \notin wg'.applied \cup wg'.failed
               /\ Meant(wg'.begun, <<d, j, w.txnNum>>) = {w.multi}
      BY <3>3, <3>4, <3>5, Zenon DEF Sets
    <3>9. w.state = "txnDone" => Meant(wg'.begun, <<d, j, w.txnNum>>) \subseteq wg'.applied \cup wg'.failed
      BY <3>3, <3>5, Zenon DEF Sets
    <3> QED BY <3>1, <3>6, <3>7, <3>8, <3>9, Zenon
  <2> QED BY <2>2, <2>3, Zenon
<1>5. TxnsOK'
  <2> SUFFICES ASSUME NEW t \in wg'.applied \cup wg'.failed
               PROVE  t <= wg'.txns
    BY Zenon DEF TxnsOK
  <2>1. t \in wg.applied \cup wg.failed \/ t = old.multi
    BY Zenon DEF Sets
  <2>2. t <= wg.txns /\ t \in Nat
    BY <1>0, <1>1, <2>1, SMTT(30) DEF TxnsOK, WireTypeOK, Ghosts
  <2> QED BY <1>1, <2>2 DEF Sets
<1> QED BY <1>3, <1>4, <1>5, Zenon

\* A command on session k of c, from what it does to the transactions.
LEMMA TxnStep ==
  ASSUME WInv, NEW c \in ConnIDs, NEW k \in Lsids, NEW ws \in Sessions,
         put(c, k, ws), wg' \in Ghosts, CommitRepliesTrue',
         Sets(c, k, ws),
         UNCHANGED <<cursors, wg.accepts, wg.got>>
  PROVE  WInv'
<1> USE DEF WInv
<1> DEFINE s == with(conns[c].sessions, k, ws)
<1>1. s \in Maps(Lsids, Sessions) /\ command(c, s)
  <2>1. conns[c].sessions \in Maps(Lsids, Sessions)
    BY Zenon DEF WireTypeOK, Conns
  <2> QED BY <2>1, WithMap, Zenon DEF put
<1> HIDE DEF s
<1>2. /\ conns' \in [ConnIDs -> Conns] /\ SameConns /\ server' = server
      /\ c \in connected
      /\ \A d \in ConnIDs :
           conns'[d].sessions = IF d = c THEN s ELSE conns[d].sessions
  BY <1>1, CommandShape, Zenon
<1>4. wg'.txns \in Nat
  BY WireAssumption, SMTT(30) DEF Ghosts
<1>5. TransactionsAreHeld' /\ SessionsOK' /\ TxnsOK'
  BY <1>2, <1>4, SetsInv, Zenon DEF SameConns, s
<1>6. WireTypeOK'
  BY <1>2, Zenon DEF WireTypeOK
<1>7. AcceptOK' /\ CountOK'
  BY <1>2, CountFrame, Zenon
<1>8. CursorsOK'
  BY <1>2, CursorFrame, Zenon
<1> QED BY <1>5, <1>6, <1>7, <1>8, Zenon

\* A command that leaves the sessions and their transactions alone.
LEMMA OtherCommand ==
  ASSUME WInv, NEW c \in ConnIDs, command(c, conns[c].sessions), wg' \in Ghosts,
         wg'.accepts = wg.accepts, UNCHANGED txnFields,
         cursors' \in [seq : 0..MaxCursors, open : Maps(1..MaxCursors, Cursors)],
         SameConns => CursorsOK'
  PROVE  WInv'
<1> USE DEF WInv
<1>1. conns[c].sessions \in Maps(Lsids, Sessions)
  BY Zenon DEF WireTypeOK, Conns
<1>2. /\ conns' \in [ConnIDs -> Conns] /\ SameConns /\ server' = server
      /\ \A d \in ConnIDs : conns'[d].sessions = conns[d].sessions
  BY <1>1, CommandShape, Zenon
<1>3. WireTypeOK'
  BY <1>2, Zenon DEF WireTypeOK
<1>4. AcceptOK' /\ CountOK'
  BY <1>2, CountFrame, Zenon
<1>5. TransactionsAreHeld' /\ SessionsOK' /\ TxnsOK' /\ CommitRepliesTrue'
  BY <1>2, TxnFrame, Zenon DEF SameConns
<1> QED BY <1>2, <1>3, <1>4, <1>5, Zenon

\* A command received comes from a connection that is served.
LEMMA CommandConnected ==
  ASSUME NEW c \in ConnIDs, NEW s, command(c, s)
  PROVE  c \in connected
BY Zenon DEF command, connected

\* A session a command finds is left as it was.
LEMMA KeepSession ==
  ASSUME WInv, NEW c \in ConnIDs, NEW k \in Lsids, put(c, k, session(c, k)),
         wg' = [wg EXCEPT !.commands = @ + 1], UNCHANGED cursors
  PROVE  WInv'
<1> DEFINE ws == session(c, k)
<1>1. c \in connected
  BY CommandConnected, Zenon DEF put
<1>2. wg' \in Ghosts /\ UNCHANGED <<txnFields, wg.accepts, wg.got>>
  <2>1. wg.commands + 1 \in 0..MaxRequests
    <3>1. wg.accepts + wg.commands < MaxRequests
      BY Zenon DEF put, command
    <3> QED BY <3>1, WireAssumption DEF WInv, WireTypeOK, Ghosts
  <2> QED BY <2>1, Zenon DEF WInv, WireTypeOK, Ghosts, txnFields
<1>3. CommitRepliesTrue'
  BY <1>2, Zenon DEF WInv, CommitRepliesTrue, txnFields
<1>4. ws \in Sessions /\ Sets(c, k, ws)
  <2>1. wg.txns \in Nat
    BY WireAssumption DEF WInv, WireTypeOK, Ghosts
  <2> QED BY <1>1, <1>2, <2>1, SessionFacts DEF Sets, txnFields
<1> QED BY <1>2, <1>3, <1>4, TxnStep, Zenon

\* txnContext begins a transaction, aborting the one that is open.
LEMMA StartTransactionInv ==
  ASSUME WInv, NEW c \in ConnIDs, NEW k \in Lsids, NEW n \in TxnNums,
         startTransaction(c, k, n)
  PROVE  WInv'
<1> DEFINE ws == session(c, k)
           left == IF ws.state = "txnInProgress" THEN 0 ELSE ws.multi
           tid == wg.txns + 1
           new == [state |-> "txnInProgress", txnNum |-> n, multi |-> tid]
<1>1. wg.txns < MaxTxns /\ UNCHANGED cursors
  BY Zenon DEF startTransaction
<1>2. CASE left # 0
  <2>1. put(c, k, ws) /\ wg' = [wg EXCEPT !.commands = @ + 1]
    BY <1>2, Zenon DEF startTransaction
  <2> QED BY <1>1, <2>1, KeepSession, Zenon
<1>3. CASE left = 0
  <2>1. /\ put(c, k, new)
        /\ wg' = [wg EXCEPT !.commands = wg.commands + 1, !.txns = tid,
                            !.live = (wg.live \ {ws.multi}) \cup {tid},
                            !.begun = with(wg.begun, <<c, k, n>>, tid)]
    BY <1>3, Zenon DEF startTransaction, WInv, WireTypeOK, Ghosts
  <2>2. /\ wg.txns \in Nat /\ tid \in 1..MaxTxns /\ tid \in 0..MaxTxns
        /\ wg.commands + 1 \in 0..MaxRequests
    <3>1. wg.accepts + wg.commands < MaxRequests
      BY <2>1, Zenon DEF put, command
    <3> QED BY <1>1, <3>1, WireAssumption, SMTT(30) DEF WInv, WireTypeOK, Ghosts
  <2>3. new \in Sessions /\ new.multi = tid /\ new.state = "txnInProgress" /\ new.txnNum = n
    BY <2>2, Zenon DEF Sessions
  <2>4. wg' \in Ghosts
    <3>1. with(wg.begun, <<c, k, n>>, tid) \in Maps(ConnIDs \X Lsids \X TxnNums, 1..MaxTxns)
      <4>1. /\ wg.begun \in Maps(ConnIDs \X Lsids \X TxnNums, 1..MaxTxns)
            /\ <<c, k, n>> \in ConnIDs \X Lsids \X TxnNums
        BY Zenon DEF WInv, WireTypeOK, Ghosts
      <4> HIDE DEF tid
      <4> QED BY <2>2, <4>1, WithMap, Zenon
    <3> DEFINE b == with(wg.begun, <<c, k, n>>, tid)
               cm == wg.commands + 1
    <3>2. /\ wg' = [wg EXCEPT !.commands = cm, !.txns = tid,
                              !.live = (wg.live \ {ws.multi}) \cup {tid}, !.begun = b]
          /\ cm \in 0..MaxRequests /\ b \in Maps(ConnIDs \X Lsids \X TxnNums, 1..MaxTxns)
          /\ wg \in Ghosts
      BY <2>1, <2>2, <3>1, Zenon DEF WInv, WireTypeOK
    <3> HIDE DEF b, cm, tid, ws
    <3> QED BY <2>2, <3>2, Zenon DEF Ghosts
  <2>5. /\ wg'.txns = tid /\ wg'.begun = with(wg.begun, <<c, k, n>>, tid)
        /\ wg'.live = (wg.live \ {ws.multi}) \cup {tid}
        /\ UNCHANGED <<wg.accepts, wg.got, wg.applied, wg.acked, wg.failed, wg.expired>>
    BY <2>1, Zenon DEF WInv, WireTypeOK, Ghosts
  <2>6. CommitRepliesTrue'
    BY <2>5, Zenon DEF WInv, CommitRepliesTrue
  <2>7. c \in connected
    BY <2>1, CommandConnected, Zenon DEF put
  <2>8. Sets(c, k, new)
    <3>1. Meant(wg'.begun, <<c, k, n>>) = {tid}
      BY <2>5, Zenon DEF Meant, with
    <3>2. \A d \in ConnIDs, j \in Lsids, m \in TxnNums \cup {0} : d # c \/ j # k =>
            Meant(wg'.begun, <<d, j, m>>) = Meant(wg.begun, <<d, j, m>>)
      BY <2>5, ZenonT(60) DEF Meant, with
    <3>3. \A t \in wg.applied \cup wg.failed : t <= wg.txns /\ t \in Nat
      BY DEF WInv, TxnsOK, WireTypeOK, Ghosts
    <3>4. tid \notin wg'.applied \cup wg'.failed
      BY <2>2, <2>5, <3>3
    <3>5. tid # 0 /\ tid > wg.txns /\ tid <= wg'.txns /\ wg.txns <= wg'.txns
      BY <2>2, <2>5
    <3> HIDE DEF tid, new, ws
    <3> QED BY <2>3, <2>5, <3>1, <3>2, <3>4, <3>5, Zenon DEF Sets, ws
  <2> HIDE DEF new
  <2> QED BY <1>1, <2>1, <2>3, <2>4, <2>5, <2>6, <2>8, TxnStep, Zenon
<1> QED BY <1>2, <1>3, Zenon

\* The end of the transaction in progress in session k of c: nothing else is
\* done to the transactions than to record what became of it.
Ends(c, k, ws) ==
  /\ UNCHANGED <<wg.txns, wg.begun, wg.accepts, wg.got>>
  /\ ws.state = "txnDone" /\ ws.txnNum = session(c, k).txnNum
  /\ ws.multi \in {0, session(c, k).multi}
  /\ wg.applied \subseteq wg'.applied /\ wg.failed \subseteq wg'.failed
  /\ wg'.applied \cup wg'.failed = wg.applied \cup wg.failed \cup {session(c, k).multi}
  /\ wg'.live \subseteq wg.live
  /\ session(c, k).multi \in wg'.live =>
       ws.multi = session(c, k).multi /\ ws.multi \in wg'.expired
  /\ wg.expired \subseteq wg'.expired

LEMMA EndStep ==
  ASSUME WInv, NEW c \in ConnIDs, NEW k \in Lsids, NEW ws \in Sessions,
         put(c, k, ws), session(c, k).state = "txnInProgress", Ends(c, k, ws),
         wg' \in Ghosts, CommitRepliesTrue', UNCHANGED cursors
  PROVE  WInv'
<1> DEFINE old == session(c, k)
<1>1. c \in connected
  BY CommandConnected, Zenon DEF put
<1>2. /\ old.multi <= wg.txns /\ old.multi # 0
      /\ Meant(wg.begun, <<c, k, old.txnNum>>) = {old.multi}
  BY <1>1, SessionFacts, Zenon
<1>3. wg.txns \in Nat /\ 0 \notin wg'.live
  BY WireAssumption, SMTT(30) DEF WInv, WireTypeOK, Ghosts
<1>4. Sets(c, k, ws)
  BY <1>2, <1>3 DEF Sets, Ends
<1> QED BY <1>4, TxnStep, Zenon DEF Ends

\* What the reply to a commit or an abort records of the transaction meant.
LEMMA CommitTransactionInv ==
  ASSUME WInv, NEW c \in ConnIDs, NEW k \in Lsids, NEW n \in TxnNums,
         handleCommitTransaction(c, k, n) \/ handleAbortTransaction(c, k, n)
  PROVE  WInv'
<1> DEFINE ws == session(c, k)
           done == [ws EXCEPT !.state = "txnDone", !.multi = 0]
           late == [ws EXCEPT !.state = "txnDone"]
           cm == wg.commands + 1
<1>1. UNCHANGED cursors /\ meant(c, k, n) = Meant(wg.begun, <<c, k, n>>)
      /\ wg \in Ghosts
  BY Zenon DEF handleCommitTransaction, handleAbortTransaction, meant, Meant, WInv, WireTypeOK
<1>2. c \in connected /\ cm \in 0..MaxRequests
  <2>1. /\ c \in connected /\ wg.accepts + wg.commands < MaxRequests
    BY CommandConnected, ZenonT(60) DEF handleCommitTransaction, handleAbortTransaction, put, command
  <2> QED BY <2>1, WireAssumption, SMTT(30) DEF WInv, WireTypeOK, Ghosts
<1>3. /\ ws \in Sessions
      /\ ws.state = "txnInProgress" =>
           /\ ws.multi # 0 /\ ws.multi \notin wg.applied \cup wg.failed
           /\ Meant(wg.begun, <<c, k, ws.txnNum>>) = {ws.multi}
      /\ ws.state = "txnDone" =>
           Meant(wg.begun, <<c, k, ws.txnNum>>) \subseteq wg.applied \cup wg.failed
  BY <1>2, SessionFacts, Zenon
<1>4. /\ done \in Sessions /\ done.state = "txnDone" /\ done.multi = 0
      /\ late \in Sessions /\ late.state = "txnDone" /\ late.multi = ws.multi
      /\ done.txnNum = ws.txnNum /\ late.txnNum = ws.txnNum
  <2>1. 0 \in 0..MaxTxns /\ ws \in Sessions
    BY <1>3, WireAssumption
  <2> HIDE DEF ws
  <2> QED BY <2>1, Zenon DEF Sessions
<1>5. CASE command(c, conns[c].sessions) /\ wg' = [wg EXCEPT !.commands = @ + 1]
  <2>1. wg' \in Ghosts /\ UNCHANGED <<txnFields, wg.accepts, wg.got>>
    BY <1>1, <1>2, <1>5, Zenon DEF Ghosts, txnFields
  <2>2. SameConns => CursorsOK'
    BY <1>1, <2>1, CursorFrame, Zenon DEF WInv
  <2> QED BY <1>1, <1>5, <2>1, <2>2, OtherCommand, Zenon DEF WInv, WireTypeOK
<1>6. CASE /\ txnTarget(c, k, n) /\ ws.state = "txnDone"
           /\ command(c, conns[c].sessions)
           /\ wg' = [wg EXCEPT !.commands = @ + 1, !.acked = @ \cup meant(c, k, n)]
  <2>1. ws.txnNum = n /\ k \in DOMAIN conns[c].sessions
    BY <1>6, Zenon DEF txnTarget, session, NoSession
  <2>2. meant(c, k, n) \subseteq wg.applied \cup wg.failed
    BY <1>1, <1>3, <1>6, <2>1, Zenon
  <2>3. put(c, k, ws)
    <3>1. conns[c].sessions \in Maps(Lsids, Sessions)
      BY Zenon DEF WInv, WireTypeOK, Conns
    <3>2. with(conns[c].sessions, k, conns[c].sessions[k]) = conns[c].sessions
      BY <2>1, <3>1, MapsDef, Zenon DEF with
    <3> QED BY <1>6, <2>1, <3>2, Zenon DEF put, session
  <2>4. /\ wg' \in Ghosts /\ wg'.acked = wg.acked \cup meant(c, k, n)
        /\ UNCHANGED <<wg.txns, wg.begun, wg.live, wg.applied, wg.failed, wg.expired,
                       wg.accepts, wg.got>>
    BY <1>1, <1>2, <1>6, <2>2, ZenonT(60) DEF Ghosts
  <2>5. CommitRepliesTrue'
    BY <2>2, <2>4, Zenon DEF WInv, CommitRepliesTrue
  <2>6. Sets(c, k, ws)
    <3>1. wg.txns \in Nat
      BY <1>1, WireAssumption, SMTT(30) DEF Ghosts
    <3> QED BY <1>2, <2>4, <3>1, SessionFacts DEF Sets
  <2> QED BY <1>1, <1>3, <2>3, <2>4, <2>5, <2>6, TxnStep, Zenon
<1>7. ASSUME txnTarget(c, k, n), ws.state = "txnInProgress"
      PROVE  /\ meant(c, k, n) = {ws.multi} /\ ws.multi \in 1..MaxTxns
             /\ ws.multi \notin wg.applied \cup wg.failed
  <2>1. ws.txnNum = n
    BY <1>7, Zenon DEF txnTarget
  <2>2. ws.multi \in 0..MaxTxns /\ ws.multi # 0
    BY <1>3, <1>7, Zenon DEF Sessions
  <2>3. ws.multi \in 1..MaxTxns
    <3> HIDE DEF ws
    <3> QED BY <2>2, WireAssumption
  <2> QED BY <1>1, <1>3, <1>7, <2>1, <2>3, Zenon
<1>8. CASE /\ txnTarget(c, k, n) /\ ws.state = "txnInProgress" /\ put(c, k, done)
           /\ wg' = [wg EXCEPT !.commands = cm, !.live = wg.live \ {ws.multi},
                               !.applied = wg.applied \cup {ws.multi},
                               !.acked = wg.acked \cup meant(c, k, n)]
  <2>1. /\ wg' \in Ghosts /\ wg'.acked = wg.acked \cup {ws.multi}
        /\ wg'.applied = wg.applied \cup {ws.multi} /\ wg'.live = wg.live \ {ws.multi}
        /\ UNCHANGED <<wg.txns, wg.begun, wg.failed, wg.expired, wg.accepts, wg.got>>
    <3> HIDE DEF cm, ws
    <3> QED BY <1>1, <1>2, <1>7, <1>8, Zenon DEF Ghosts
  <2>2. CommitRepliesTrue'
    BY <1>7, <1>8, <2>1 DEF WInv, CommitRepliesTrue
  <2>3. Ends(c, k, done)
    <3> HIDE DEF done
    <3> QED BY <1>4, <2>1, Zenon DEF Ends
  <2> HIDE DEF done
  <2> QED BY <1>1, <1>4, <1>8, <2>1, <2>2, <2>3, EndStep, Zenon
<1>9. CASE /\ txnTarget(c, k, n) /\ ws.state = "txnInProgress" /\ put(c, k, done)
           /\ wg' = [wg EXCEPT !.commands = cm, !.live = wg.live \ {ws.multi},
                               !.failed = wg.failed \cup meant(c, k, n)]
  <2>1. /\ wg' \in Ghosts
        /\ wg'.failed = wg.failed \cup {ws.multi} /\ wg'.live = wg.live \ {ws.multi}
        /\ UNCHANGED <<wg.txns, wg.begun, wg.applied, wg.acked, wg.expired, wg.accepts, wg.got>>
    <3> HIDE DEF cm, ws
    <3> QED BY <1>1, <1>2, <1>7, <1>9, Zenon DEF Ghosts
  <2>2. CommitRepliesTrue'
    BY <1>7, <1>9, <2>1, Zenon DEF WInv, CommitRepliesTrue
  <2>3. Ends(c, k, done)
    <3> HIDE DEF done
    <3> QED BY <1>4, <2>1, Zenon DEF Ends
  <2> HIDE DEF done
  <2> QED BY <1>1, <1>4, <1>9, <2>1, <2>2, <2>3, EndStep, Zenon
<1>10. CASE /\ txnTarget(c, k, n) /\ ws.state = "txnInProgress" /\ put(c, k, late)
            /\ wg' = [wg EXCEPT !.commands = cm, !.failed = wg.failed \cup meant(c, k, n),
                                !.expired = wg.expired \cup {ws.multi}]
  <2>1. /\ wg' \in Ghosts
        /\ wg'.failed = wg.failed \cup {ws.multi}
        /\ wg'.expired = wg.expired \cup {ws.multi}
        /\ UNCHANGED <<wg.txns, wg.begun, wg.applied, wg.acked, wg.live, wg.accepts, wg.got>>
    <3> HIDE DEF cm, ws
    <3> QED BY <1>1, <1>2, <1>7, <1>10, Zenon DEF Ghosts
  <2>2. CommitRepliesTrue'
    BY <1>7, <1>10, <2>1, Zenon DEF WInv, CommitRepliesTrue
  <2>3. Ends(c, k, late)
    <3> HIDE DEF late
    <3> QED BY <1>4, <2>1, Zenon DEF Ends
  <2> HIDE DEF late
  <2> QED BY <1>1, <1>4, <1>10, <2>1, <2>2, <2>3, EndStep, Zenon
<1>11. CASE handleCommitTransaction(c, k, n)
  <2>1. wg' = [[wg EXCEPT !.commands = @ + 1, !.live = @ \ {ws.multi}]
                 EXCEPT !.applied = @ \cup {ws.multi}, !.acked = @ \cup meant(c, k, n)]
        => wg' = [wg EXCEPT !.commands = cm, !.live = wg.live \ {ws.multi},
                               !.applied = wg.applied \cup {ws.multi},
                               !.acked = wg.acked \cup meant(c, k, n)]
    BY <1>1, Zenon DEF Ghosts
  <2>2. wg' = [[wg EXCEPT !.commands = @ + 1, !.live = @ \ {ws.multi}]
                 EXCEPT !.failed = @ \cup meant(c, k, n)]
        => wg' = [wg EXCEPT !.commands = cm, !.live = wg.live \ {ws.multi},
                               !.failed = wg.failed \cup meant(c, k, n)]
    BY <1>1, Zenon DEF Ghosts
  <2> QED BY <1>5, <1>6, <1>8, <1>9, <1>10, <1>11, <2>1, <2>2, Zenon DEF handleCommitTransaction
<1>12. CASE handleAbortTransaction(c, k, n)
  BY <1>5, <1>9, <1>12, Zenon DEF handleAbortTransaction
<1> QED BY <1>11, <1>12, Zenon

\* A session ended by the client takes its transaction with it.
LEMMA EndSessionsInv ==
  ASSUME WInv, NEW c \in ConnIDs, NEW k \in Lsids, handleEndSessions(c, k)
  PROVE  WInv'
<1> DEFINE s == drop(conns[c].sessions, {k})
           ws == session(c, k)
<1>1. /\ k \in DOMAIN conns[c].sessions /\ command(c, s) /\ UNCHANGED cursors
      /\ wg' = [wg EXCEPT !.commands = @ + 1, !.live = @ \ {ws.multi}]
  BY Zenon DEF handleEndSessions
<1>2. s \in Maps(Lsids, Sessions)
  <2>1. conns[c].sessions \in Maps(Lsids, Sessions)
    BY Zenon DEF WInv, WireTypeOK, Conns
  <2> QED BY <2>1, DropMap, Zenon
<1>3. /\ DOMAIN s = DOMAIN conns[c].sessions \ {k}
      /\ \A j \in DOMAIN s : s[j] = conns[c].sessions[j]
  BY Zenon DEF drop
<1>4. ws = conns[c].sessions[k]
  BY <1>1, Zenon DEF session
<1> HIDE DEF s, ws
<1>5. /\ conns' \in [ConnIDs -> Conns] /\ SameConns /\ server' = server
      /\ \A d \in ConnIDs : conns'[d].sessions = IF d = c THEN s ELSE conns[d].sessions
      /\ wg.commands + 1 \in 0..MaxRequests
  BY <1>1, <1>2, CommandShape, Zenon DEF WInv
<1>6. /\ wg' \in Ghosts /\ wg'.live = wg.live \ {ws.multi}
      /\ UNCHANGED <<wg.txns, wg.begun, wg.applied, wg.acked, wg.failed, wg.expired,
                     wg.accepts, wg.got>>
  BY <1>1, <1>5, Zenon DEF WInv, WireTypeOK, Ghosts
<1>7. WireTypeOK'
  BY <1>1, <1>5, <1>6, Zenon DEF WInv, WireTypeOK
<1>8. AcceptOK' /\ CountOK'
  BY <1>5, <1>6, CountFrame, Zenon DEF WInv
<1>9. TransactionsAreHeld'
  <2> SUFFICES ASSUME NEW tid \in wg.live \ {ws.multi}
               PROVE  \E d \in connected' : \E j \in DOMAIN conns'[d].sessions :
                        /\ conns'[d].sessions[j].multi = tid
                        /\ conns'[d].sessions[j].state = "txnInProgress" \/ tid \in wg.expired
    BY <1>6, Zenon DEF TransactionsAreHeld
  <2>1. PICK d \in connected : \E j \in DOMAIN conns[d].sessions :
                        /\ conns[d].sessions[j].multi = tid
                        /\ conns[d].sessions[j].state = "txnInProgress" \/ tid \in wg.expired
    BY Zenon DEF WInv, TransactionsAreHeld
  <2>2. PICK j \in DOMAIN conns[d].sessions :
                        /\ conns[d].sessions[j].multi = tid
                        /\ conns[d].sessions[j].state = "txnInProgress" \/ tid \in wg.expired
    BY <2>1, Zenon
  <2>3. d \in ConnIDs /\ (d # c \/ j # k)
    BY <1>4, <2>2, Zenon DEF connected
  <2>4. j \in DOMAIN conns'[d].sessions /\ conns'[d].sessions[j] = conns[d].sessions[j]
    BY <1>3, <1>5, <2>3, Zenon
  <2> QED BY <1>5, <2>2, <2>4, Zenon DEF SameConns
<1>10. SessionsOK'
  <2>1. \A d \in ConnIDs : \A j \in DOMAIN conns'[d].sessions :
          j \in DOMAIN conns[d].sessions /\ conns'[d].sessions[j] = conns[d].sessions[j]
    BY <1>3, <1>5, Zenon
  <2>2. SessionsOK
    BY Zenon DEF WInv
  <2>3. wg'.txns = wg.txns /\ wg'.begun = wg.begun /\ wg'.applied = wg.applied /\ wg'.failed = wg.failed
    BY <1>6, Zenon
  <2> SUFFICES ASSUME NEW d \in ConnIDs, NEW j \in DOMAIN conns'[d].sessions
               PROVE  LET w == conns'[d].sessions[j]
    IN  /\ w.multi <= wg'.txns
        /\ w.state = "txnInProgress" =>
             /\ w.multi # 0 /\ w.multi \notin wg'.applied \cup wg'.failed
             /\ Meant(wg'.begun, <<d, j, w.txnNum>>) = {w.multi}
        /\ w.state = "txnDone" => Meant(wg'.begun, <<d, j, w.txnNum>>) \subseteq wg'.applied \cup wg'.failed
        /\ w.multi # 0 =>
             \A e \in ConnIDs : \A i \in DOMAIN conns'[e].sessions :
               conns'[e].sessions[i].multi = w.multi => e = d /\ i = j
    BY ZenonT(60) DEF SessionsOK
  <2> DEFINE w == conns[d].sessions[j]
  <2>4. j \in DOMAIN conns[d].sessions /\ conns'[d].sessions[j] = w
    BY <2>1, Zenon
  <2>5. /\ w.multi <= wg.txns
        /\ w.state = "txnInProgress" =>
             /\ w.multi # 0 /\ w.multi \notin wg.applied \cup wg.failed
             /\ Meant(wg.begun, <<d, j, w.txnNum>>) = {w.multi}
        /\ w.state = "txnDone" => Meant(wg.begun, <<d, j, w.txnNum>>) \subseteq wg.applied \cup wg.failed
    BY <2>2, <2>4, ZenonT(60) DEF SessionsOK
  <2>6. w.multi # 0 => \A e \in ConnIDs : \A i \in DOMAIN conns[e].sessions :
          conns[e].sessions[i].multi = w.multi => e = d /\ i = j
    BY <2>2, <2>4, ZenonT(60) DEF SessionsOK
  <2> HIDE DEF w
  <2>7. w.multi # 0 => \A e \in ConnIDs : \A i \in DOMAIN conns'[e].sessions :
          conns'[e].sessions[i].multi = w.multi => e = d /\ i = j
    BY <2>1, <2>6, ZenonT(60)
  <2> QED BY <2>3, <2>4, <2>5, <2>7, ZenonT(60)
<1>11. TxnsOK' /\ CommitRepliesTrue'
  BY <1>6, Zenon DEF WInv, TxnsOK, CommitRepliesTrue
<1>12. CursorsOK'
  BY <1>1, <1>5, <1>6, CursorFrame, Zenon DEF WInv
<1> QED BY <1>7, <1>8, <1>9, <1>10, <1>11, <1>12, Zenon DEF WInv

-----------------------------------------------------------------------------

\* A batch is part of what is left, and its end is known.
LEMMA BatchBounds ==
  ASSUME NEW left \in Nat, NEW size \in Nat, NEW n \in collectBatch(left, size)
  PROVE  n \in 0..left
BY DEF collectBatch

\* The first batch of a result set.
LEMMA FirstBatchInv ==
  ASSUME WInv, NEW c \in ConnIDs, NEW total \in Results, NEW size \in 0..2,
         firstBatch(c, total, size)
  PROVE  WInv'
<1> DEFINE id == cursors.seq + 1
           cm == wg.commands + 1
<1>1. /\ command(c, conns[c].sessions) /\ id <= MaxCursors
  BY Zenon DEF firstBatch
<1>2. /\ c \in connected /\ conns[c].at # "none" /\ cm \in 0..MaxRequests
      /\ wg \in Ghosts /\ total \in Nat
      /\ id \in 1..MaxCursors /\ id \in 0..MaxCursors
      /\ cursors \in [seq : 0..MaxCursors, open : Maps(1..MaxCursors, Cursors)]
  <2>1. conns[c].sessions \in Maps(Lsids, Sessions)
    BY Zenon DEF WInv, WireTypeOK, Conns
  <2>2. c \in connected /\ conns[c].at # "none" /\ cm \in 0..MaxRequests
    BY <1>1, <2>1, CommandShape, Zenon DEF WInv
  <2> QED BY <1>1, <2>2, WireAssumption DEF WInv, WireTypeOK
<1>3. CASE UNCHANGED cursors /\ wg' = [wg EXCEPT !.commands = @ + 1]
  <2>1. wg' \in Ghosts /\ UNCHANGED <<txnFields, wg.accepts, wg.got>>
    BY <1>2, <1>3, Zenon DEF Ghosts, txnFields
  <2>2. SameConns => CursorsOK'
    BY <1>3, <2>1, CursorFrame, Zenon DEF WInv
  <2> QED BY <1>1, <1>2, <1>3, <2>1, <2>2, OtherCommand, Zenon
<1>4. ASSUME NEW n \in collectBatch(total, size), hasMore(total, n),
             cursors' = [seq |-> id, open |-> with(cursors.open, id,
                                       [conn |-> c, pos |-> n, total |-> total])],
             wg' = [wg EXCEPT !.commands = @ + 1, !.got = with(@, id,
                                  [conn |-> c, n |-> n, total |-> total, told |-> "more"])]
      PROVE  WInv'
  <2> DEFINE cur == [conn |-> c, pos |-> n, total |-> total]
             g == [conn |-> c, n |-> n, total |-> total, told |-> "more"]
             open2 == with(cursors.open, id, cur)
             got2 == with(wg.got, id, g)
  <2>1. n \in Nat /\ n < total
    BY <1>2, <1>4, BatchBounds, SMTT(30) DEF hasMore
  <2>2. cur \in Cursors /\ g \in Deliveries
    BY <1>2, <2>1, Zenon DEF Cursors, Deliveries
  <2>3. open2 \in Maps(1..MaxCursors, Cursors) /\ got2 \in Maps(0..MaxCursors, Deliveries)
    <3>1. cursors.open \in Maps(1..MaxCursors, Cursors) /\ wg.got \in Maps(0..MaxCursors, Deliveries)
      BY <1>2, Zenon DEF Ghosts
    <3> HIDE DEF cur, g, id
    <3> QED BY <1>2, <2>2, <3>1, WithMap, ZenonT(60)
  <2>4. cursors' = [seq |-> id, open |-> open2]
        /\ wg' = [wg EXCEPT !.commands = cm, !.got = got2]
    BY <1>2, <1>4, Zenon DEF Ghosts
  <2>5. /\ DOMAIN open2 = DOMAIN cursors.open \cup {id} /\ DOMAIN got2 = DOMAIN wg.got \cup {id}
        /\ \A i \in DOMAIN open2 : open2[i] = IF i = id THEN cur ELSE cursors.open[i]
        /\ \A i \in DOMAIN got2 : got2[i] = IF i = id THEN g ELSE wg.got[i]
    BY Zenon DEF with
  <2>6. \A i \in DOMAIN wg.got : i \in Nat /\ i < id
    BY <1>2, Entries DEF WInv, CursorsOK, Deliveries
  <2> HIDE DEF open2, got2
  <2>7. wg' \in Ghosts /\ UNCHANGED <<txnFields, wg.accepts>> /\ wg'.got = got2
        /\ cursors'.seq = id /\ cursors'.open = open2
        /\ cursors' \in [seq : 0..MaxCursors, open : Maps(1..MaxCursors, Cursors)]
    <3> HIDE DEF cm, id
    <3> QED BY <1>2, <2>3, <2>4, Zenon DEF Ghosts, txnFields
  <2>8. ASSUME SameConns PROVE CursorsOK'
    <3>1. \A i \in DOMAIN cursors.open : i \in DOMAIN wg.got /\ i # id
      <4>1. \A i \in DOMAIN cursors.open : i \in DOMAIN wg.got
        BY Zenon DEF WInv, CursorsOK
      <4>2. id \in Nat
        BY <1>2, SMTT(30)
      <4> HIDE DEF id
      <4> QED BY <2>6, <4>1, <4>2, SMTT(30)
    <3>2. \A i \in DOMAIN got2 : i <= id /\ conns'[got2[i].conn].at # "none"
      <4>1. \A i \in DOMAIN wg.got : wg.got[i].conn \in ConnIDs /\ conns[wg.got[i].conn].at # "none"
        <5>1. \A i \in DOMAIN wg.got : wg.got[i] \in Deliveries
          BY Entries, Zenon DEF WInv
        <5>2. \A i \in DOMAIN wg.got : conns[wg.got[i].conn].at # "none"
          BY Zenon DEF WInv, CursorsOK
        <5> QED BY <5>1, <5>2, Zenon DEF Deliveries
      <4> QED BY <1>2, <2>5, <2>6, <2>8, <4>1, SMTT(30) DEF SameConns
    <3>3. \A i \in DOMAIN open2 :
            /\ i <= id /\ i \in DOMAIN got2 /\ open2[i].conn \in connected
            /\ open2[i].pos < open2[i].total
            /\ Agrees(got2[i], open2[i])
      <4>1. Agrees(g, cur) /\ cur.conn = c /\ cur.pos < cur.total
        BY <2>1, Zenon DEF Agrees
      <4>2. id \in DOMAIN got2 /\ id <= id /\ id \in Nat
        BY <1>2, <2>5
      <4> HIDE DEF g, cur, id
      <4>3. \A i \in DOMAIN cursors.open : i <= id
        BY <2>6, <3>1, <4>2, SMTT(30)
      <4> QED BY <1>2, <2>5, <3>1, <4>1, <4>2, <4>3, Zenon DEF WInv, CursorsOK
    <3>4. \A i \in DOMAIN got2 :
            /\ got2[i].told = "end" => got2[i].n = got2[i].total
            /\ got2[i].told = "more" /\ got2[i].conn \in connected => i \in DOMAIN open2
      BY <2>5 DEF WInv, CursorsOK
    <3> QED BY <2>7, <2>8, <3>2, <3>3, <3>4, ZenonT(60) DEF CursorsOK, SameConns
  <2> QED BY <1>1, <2>7, <2>8, OtherCommand, Zenon
<1>5. ASSUME NEW n \in collectBatch(total, size), ~hasMore(total, n), UNCHANGED cursors,
             wg' = [wg EXCEPT !.commands = @ + 1, !.got = with(@, 0,
                                  [conn |-> c, n |-> n, total |-> total, told |-> "end"])]
      PROVE  WInv'
  <2> DEFINE g == [conn |-> c, n |-> n, total |-> total, told |-> "end"]
             got2 == with(wg.got, 0, g)
  <2>1. n \in Nat /\ n = total /\ 0 \in 0..MaxCursors
    <3>1. n \in 0..total /\ ~(total > n)
      BY <1>2, <1>5, BatchBounds, SMTT(30) DEF hasMore
    <3> QED BY <1>2, <3>1, WireAssumption
  <2>2. g \in Deliveries
    BY <1>2, <2>1, Zenon DEF Deliveries
  <2>3. got2 \in Maps(0..MaxCursors, Deliveries)
    <3>1. wg.got \in Maps(0..MaxCursors, Deliveries)
      BY <1>2, Zenon DEF Ghosts
    <3> HIDE DEF g
    <3> QED BY <2>1, <2>2, <3>1, WithMap, Zenon
  <2>4. wg' = [wg EXCEPT !.commands = cm, !.got = got2]
    BY <1>2, <1>5, Zenon DEF Ghosts
  <2>5. /\ DOMAIN got2 = DOMAIN wg.got \cup {0}
        /\ \A i \in DOMAIN got2 : got2[i] = IF i = 0 THEN g ELSE wg.got[i]
    BY Zenon DEF with
  <2> HIDE DEF got2
  <2>7. wg' \in Ghosts /\ UNCHANGED <<txnFields, wg.accepts>> /\ wg'.got = got2
    <3> HIDE DEF cm
    <3> QED BY <1>2, <2>3, <2>4, ZenonT(60) DEF Ghosts, txnFields
  <2>8. ASSUME SameConns PROVE CursorsOK'
    <3>1. \A i \in DOMAIN cursors.open : i \in DOMAIN wg.got /\ i # 0
      <4>1. \A i \in DOMAIN cursors.open : i \in 1..MaxCursors
        BY Entries, Zenon DEF WInv
      <4>2. \A i \in DOMAIN cursors.open : i \in DOMAIN wg.got
        BY Zenon DEF WInv, CursorsOK
      <4> QED BY <4>1, <4>2, WireAssumption
    <3>2. \A i \in DOMAIN got2 : i <= cursors.seq /\ conns'[got2[i].conn].at # "none"
      <4>1. \A i \in DOMAIN wg.got : wg.got[i].conn \in ConnIDs /\ conns[wg.got[i].conn].at # "none"
        <5>1. \A i \in DOMAIN wg.got : wg.got[i] \in Deliveries
          BY Entries, Zenon DEF WInv
        <5>2. \A i \in DOMAIN wg.got : conns[wg.got[i].conn].at # "none"
          BY Zenon DEF WInv, CursorsOK
        <5> QED BY <5>1, <5>2, Zenon DEF Deliveries
      <4>2. \A i \in DOMAIN got2 : i <= cursors.seq
        <5>1. \A i \in DOMAIN wg.got : i <= cursors.seq
          BY Zenon DEF WInv, CursorsOK
        <5>2. 0 <= cursors.seq
          BY WireAssumption DEF WInv, WireTypeOK
        <5> QED BY <2>5, <5>1, <5>2, Zenon
      <4> QED BY <1>2, <2>5, <2>8, <4>1, <4>2, SMTT(30) DEF SameConns
    <3>3. \A i \in DOMAIN cursors.open : i \in DOMAIN got2 /\ got2[i] = wg.got[i]
      BY <2>5, <3>1, ZenonT(60)
    <3>4. \A i \in DOMAIN got2 :
            /\ got2[i].told = "end" => got2[i].n = got2[i].total
            /\ got2[i].told = "more" /\ got2[i].conn \in connected => i \in DOMAIN cursors.open
      BY <2>1, <2>5, SMTT(30) DEF WInv, CursorsOK
    <3>5. \A i \in DOMAIN cursors.open :
            /\ i <= cursors.seq /\ i \in DOMAIN got2 /\ cursors.open[i].conn \in connected
            /\ cursors.open[i].pos < cursors.open[i].total
            /\ Agrees(got2[i], cursors.open[i])
      BY <3>3, Zenon DEF WInv, CursorsOK
    <3> QED BY <1>5, <2>7, <2>8, <3>2, <3>4, <3>5 DEF CursorsOK, SameConns
  <2> QED BY <1>1, <1>2, <1>5, <2>7, <2>8, OtherCommand, Zenon
<1> QED BY <1>3, <1>4, <1>5, ZenonT(60) DEF firstBatch

\* What the owner of an open cursor has seen.
LEMMA SeenNow ==
  ASSUME WInv, NEW id \in DOMAIN cursors.open
  PROVE  /\ id \in DOMAIN wg.got /\ wg.got[id].conn = cursors.open[id].conn
         /\ cursors.open[id].conn \in connected
BY Zenon DEF WInv, CursorsOK, Agrees

\* got with what one cursor's owner has seen replaced by g, where g is more of it.
Saw(got2, got, id, g, cur, n, told) ==
  /\ got2 \in Maps(0..MaxCursors, Deliveries) /\ DOMAIN got2 = DOMAIN got
  /\ \A i \in DOMAIN got : got2[i] = IF i = id THEN g ELSE got[i]
  /\ g.conn = cur.conn /\ g.n = cur.pos + n /\ g.total = cur.total /\ g.told = told

\* What the owner of an open cursor has seen after another batch, or its end.
LEMMA SeenOpen ==
  ASSUME WInv, NEW c \in ConnIDs, NEW id \in DOMAIN cursors.open, cursors.open[id].conn = c,
         NEW n \in Nat, NEW told \in {"more", "end", "error", "killed"}
  PROVE  \E g : Saw(seen(c, id, n, told), wg.got, id, g, cursors.open[id], n, told)
<1> DEFINE cur == cursors.open[id]
           old == wg.got[id]
           g == [old EXCEPT !.n = old.n + n, !.told = told]
<1>1. /\ id \in DOMAIN wg.got /\ cur \in Cursors /\ old \in Deliveries /\ Agrees(old, cur)
  BY Entries, Zenon DEF WInv, CursorsOK
<1>2. old.n = cur.pos /\ old.conn = c /\ old.total = cur.total /\ old.n + n \in Nat
  BY <1>1 DEF Agrees, Cursors
<1>3. wg.got \in [DOMAIN wg.got -> Deliveries] /\ DOMAIN wg.got \subseteq 0..MaxCursors
  <2>1. wg.got \in Maps(0..MaxCursors, Deliveries)
    BY Zenon DEF WInv, WireTypeOK, Ghosts
  <2> QED BY <2>1, MapsDef, Zenon
<1>4. seen(c, id, n, told) = [wg.got EXCEPT ![id] = g]
  BY <1>1, <1>2, <1>3, Zenon DEF seen
<1>5. /\ g \in Deliveries
      /\ g.conn = cur.conn /\ g.n = cur.pos + n /\ g.total = cur.total /\ g.told = told
  <2> DEFINE m == old.n + n
  <2>1. m \in Nat /\ m = cur.pos + n
    BY <1>2, Zenon
  <2>2. /\ [old EXCEPT !.n = m, !.told = told] \in Deliveries
        /\ [old EXCEPT !.n = m, !.told = told].conn = old.conn
        /\ [old EXCEPT !.n = m, !.told = told].n = m
        /\ [old EXCEPT !.n = m, !.told = told].total = old.total
        /\ [old EXCEPT !.n = m, !.told = told].told = told
    <3> HIDE DEF m, old
    <3> QED BY <1>1, <2>1, Zenon DEF Deliveries
  <2> QED BY <1>2, <2>1, <2>2, Zenon
<1> HIDE DEF g
<1>6. /\ DOMAIN [wg.got EXCEPT ![id] = g] = DOMAIN wg.got
      /\ [wg.got EXCEPT ![id] = g] \in [DOMAIN wg.got -> Deliveries]
      /\ \A i \in DOMAIN wg.got : [wg.got EXCEPT ![id] = g][i] = IF i = id THEN g ELSE wg.got[i]
  BY <1>1, <1>3, <1>5, Zenon
<1>7. [wg.got EXCEPT ![id] = g] \in Maps(0..MaxCursors, Deliveries)
  BY <1>3, <1>6, Zenon DEF Maps
<1>8. Saw([wg.got EXCEPT ![id] = g], wg.got, id, g, cur, n, told)
  BY <1>5, <1>6, <1>7, Zenon DEF Saw
<1> QED BY <1>4, <1>8, Zenon

\* The cursor goes, and its owner knows why.
LEMMA CloseInv ==
  ASSUME WInv, NEW c \in ConnIDs, NEW id \in DOMAIN cursors.open, cursors.open[id].conn = c,
         NEW n \in Nat, NEW told \in {"end", "error", "killed"},
         told = "end" => cursors.open[id].pos + n = cursors.open[id].total,
         command(c, conns[c].sessions), dropCursor(id),
         wg' = [wg EXCEPT !.commands = @ + 1, !.got = seen(c, id, n, told)]
  PROVE  WInv'
<1> DEFINE cm == wg.commands + 1
           got2 == seen(c, id, n, told)
           open2 == drop(cursors.open, {id})
           cur == cursors.open[id]
<1>1. /\ cm \in 0..MaxRequests /\ wg \in Ghosts
      /\ cursors \in [seq : 0..MaxCursors, open : Maps(1..MaxCursors, Cursors)]
  <2>1. conns[c].sessions \in Maps(Lsids, Sessions)
    BY Zenon DEF WInv, WireTypeOK, Conns
  <2>2. cm \in 0..MaxRequests
    BY <2>1, CommandShape, Zenon DEF WInv
  <2> QED BY <2>2, Zenon DEF WInv, WireTypeOK
<1>2. PICK g : Saw(got2, wg.got, id, g, cur, n, told)
  <2>1. told \in {"more", "end", "error", "killed"}
    BY Zenon
  <2> QED BY <2>1, SeenOpen, Zenon
<1>21. /\ got2 \in Maps(0..MaxCursors, Deliveries) /\ DOMAIN got2 = DOMAIN wg.got
       /\ \A i \in DOMAIN wg.got : got2[i] = IF i = id THEN g ELSE wg.got[i]
       /\ g.conn = c /\ g.told # "more" /\ (g.told = "end" => g.n = g.total)
  <2> HIDE DEF got2
  <2> QED BY <1>2, Zenon DEF Saw
<1>3. /\ open2 \in Maps(1..MaxCursors, Cursors) /\ DOMAIN open2 = DOMAIN cursors.open \ {id}
      /\ \A i \in DOMAIN open2 : open2[i] = cursors.open[i]
  BY <1>1, DropMap, Zenon DEF drop
<1> HIDE DEF got2, open2, cm
<1>4. wg' = [wg EXCEPT !.commands = cm, !.got = got2]
      /\ cursors' = [cursors EXCEPT !.open = open2]
  BY <1>1, Zenon DEF dropCursor, Ghosts, cm, got2, open2
<1>5. /\ wg' \in Ghosts /\ UNCHANGED <<txnFields, wg.accepts>> /\ wg'.got = got2
      /\ cursors'.seq = cursors.seq /\ cursors'.open = open2
      /\ cursors' \in [seq : 0..MaxCursors, open : Maps(1..MaxCursors, Cursors)]
  BY <1>1, <1>21, <1>3, <1>4, ZenonT(60) DEF Ghosts, txnFields
<1>6. ASSUME SameConns PROVE CursorsOK'
  <2>1. \A i \in DOMAIN open2 : i \in DOMAIN wg.got /\ i # id /\ got2[i] = wg.got[i]
    BY <1>21, <1>3, Zenon DEF WInv, CursorsOK
  <2>2. \A i \in DOMAIN open2 :
            /\ i <= cursors.seq /\ i \in DOMAIN got2 /\ open2[i].conn \in connected
            /\ open2[i].pos < open2[i].total
            /\ Agrees(got2[i], open2[i])
    BY <1>21, <1>3, <2>1, Zenon DEF WInv, CursorsOK
  <2>3. \A i \in DOMAIN got2 : conns'[got2[i].conn].at # "none"
    <3>1. \A i \in DOMAIN wg.got : wg.got[i].conn \in ConnIDs /\ conns[wg.got[i].conn].at # "none"
      BY Entries, Zenon DEF WInv, CursorsOK, Deliveries
    <3>2. id \in DOMAIN wg.got /\ wg.got[id].conn = c
      BY SeenNow, Zenon
    <3> QED BY <1>21, <1>6, <3>1, <3>2, Zenon DEF SameConns
  <2>4. \A i \in DOMAIN got2 :
            /\ i <= cursors.seq
            /\ got2[i].told = "end" => got2[i].n = got2[i].total
            /\ got2[i].told = "more" /\ got2[i].conn \in connected => i \in DOMAIN open2
    BY <1>21, <1>3, Zenon DEF WInv, CursorsOK
  <2> QED BY <1>5, <1>6, <2>2, <2>3, <2>4 DEF CursorsOK, SameConns
<1> QED BY <1>5, <1>6, OtherCommand, Zenon

\* The cursor moves on.
LEMMA AdvanceInv ==
  ASSUME WInv, NEW c \in ConnIDs, NEW id \in DOMAIN cursors.open, cursors.open[id].conn = c,
         NEW n \in Nat, cursors.open[id].pos + n < cursors.open[id].total,
         command(c, conns[c].sessions), cursors' = [cursors EXCEPT !.open[id].pos = @ + n],
         wg' = [wg EXCEPT !.commands = @ + 1, !.got = seen(c, id, n, "more")]
  PROVE  WInv'
<1> DEFINE cm == wg.commands + 1
           got2 == seen(c, id, n, "more")
           cur == cursors.open[id]
           cur2 == [cur EXCEPT !.pos = cur.pos + n]
           open2 == [cursors.open EXCEPT ![id] = cur2]
<1>1. /\ cm \in 0..MaxRequests /\ wg \in Ghosts
      /\ cursors \in [seq : 0..MaxCursors, open : Maps(1..MaxCursors, Cursors)]
  <2>1. conns[c].sessions \in Maps(Lsids, Sessions)
    BY Zenon DEF WInv, WireTypeOK, Conns
  <2>2. cm \in 0..MaxRequests
    BY <2>1, CommandShape, Zenon DEF WInv
  <2> QED BY <2>2, Zenon DEF WInv, WireTypeOK
<1>2. PICK g : Saw(got2, wg.got, id, g, cur, n, "more")
  BY SeenOpen, Zenon
<1>21. /\ got2 \in Maps(0..MaxCursors, Deliveries) /\ DOMAIN got2 = DOMAIN wg.got
       /\ \A i \in DOMAIN wg.got : got2[i] = IF i = id THEN g ELSE wg.got[i]
       /\ g.conn = c /\ g.told = "more" /\ g.n = cur.pos + n /\ g.total = cur.total
  <2> HIDE DEF got2
  <2> QED BY <1>2, Zenon DEF Saw
<1>3. /\ cur \in Cursors /\ cursors.open \in [DOMAIN cursors.open -> Cursors]
      /\ DOMAIN cursors.open \subseteq 1..MaxCursors
  BY <1>1, MapsDef, Entries, Zenon DEF WInv
<1>4. /\ cur2 \in Cursors /\ cur2.conn = c /\ cur2.pos < cur2.total
      /\ Agrees(g, cur2)
  BY <1>21, <1>3 DEF Cursors, Agrees
<1>5. cursors' = [cursors EXCEPT !.open = open2]
  BY <1>1, <1>3, Zenon
<1> HIDE DEF cur, cur2, got2, cm
<1>6. /\ open2 \in Maps(1..MaxCursors, Cursors) /\ DOMAIN open2 = DOMAIN cursors.open
      /\ \A i \in DOMAIN open2 : open2[i] = IF i = id THEN cur2 ELSE cursors.open[i]
  BY <1>3, <1>4, Zenon DEF Maps
<1> HIDE DEF open2
<1>7. wg' = [wg EXCEPT !.commands = cm, !.got = got2]
  BY <1>1, Zenon DEF Ghosts, cm, got2
<1>8. /\ wg' \in Ghosts /\ UNCHANGED <<txnFields, wg.accepts>> /\ wg'.got = got2
      /\ cursors'.seq = cursors.seq /\ cursors'.open = open2
      /\ cursors' \in [seq : 0..MaxCursors, open : Maps(1..MaxCursors, Cursors)]
  BY <1>1, <1>21, <1>5, <1>6, <1>7, ZenonT(60) DEF Ghosts, txnFields
<1>9. ASSUME SameConns PROVE CursorsOK'
  <2>1. id \in DOMAIN wg.got /\ wg.got[id].conn = c /\ c \in connected
    BY SeenNow, Zenon
  <2>2. \A i \in DOMAIN open2 :
            /\ i <= cursors.seq /\ i \in DOMAIN got2 /\ open2[i].conn \in connected
            /\ open2[i].pos < open2[i].total
            /\ Agrees(got2[i], open2[i])
    BY <1>21, <1>4, <1>6, <2>1, Zenon DEF WInv, CursorsOK
  <2>3. \A i \in DOMAIN got2 : conns'[got2[i].conn].at # "none"
    <3>1. \A i \in DOMAIN wg.got : wg.got[i].conn \in ConnIDs /\ conns[wg.got[i].conn].at # "none"
      BY Entries, Zenon DEF WInv, CursorsOK, Deliveries
    <3> QED BY <1>21, <1>9, <2>1, <3>1, Zenon DEF SameConns
  <2>4. \A i \in DOMAIN got2 :
            /\ i <= cursors.seq
            /\ got2[i].told = "end" => got2[i].n = got2[i].total
            /\ got2[i].told = "more" /\ got2[i].conn \in connected => i \in DOMAIN open2
    BY <1>21, <1>6, Zenon DEF WInv, CursorsOK
  <2>5. connected' = connected
    BY <1>9, Zenon DEF SameConns
  <2>6. \A i \in DOMAIN cursors'.open :
       /\ i <= cursors'.seq /\ i \in DOMAIN wg'.got
       /\ cursors'.open[i].conn \in connected'
       /\ cursors'.open[i].pos < cursors'.open[i].total
       /\ Agrees(wg'.got[i], cursors'.open[i])
    <3>1. /\ cursors'.seq = cursors.seq /\ cursors'.open = open2 /\ wg'.got = got2
      BY <1>8, Zenon
    <3> QED BY <2>2, <2>5, <3>1, Zenon
  <2>7. \A i \in DOMAIN wg'.got :
       /\ i <= cursors'.seq
       /\ conns'[wg'.got[i].conn].at # "none"
       /\ wg'.got[i].told = "end" => wg'.got[i].n = wg'.got[i].total
       /\ wg'.got[i].told = "more" /\ wg'.got[i].conn \in connected'
            => i \in DOMAIN cursors'.open
    <3>1. /\ cursors'.seq = cursors.seq /\ cursors'.open = open2 /\ wg'.got = got2
      BY <1>8, Zenon
    <3> QED BY <2>3, <2>4, <2>5, <3>1, ZenonT(60)
  <2> QED BY <2>6, <2>7, Zenon DEF CursorsOK
<1> QED BY <1>8, <1>9, OtherCommand, Zenon

LEMMA CursorCommandsInv ==
  ASSUME WInv, NEW c \in ConnIDs, NEW id \in 1..MaxCursors,
         \/ \E size \in 0..2 : handleGetMore(c, id, size)
         \/ cursorNotFound(c, id) \/ handleKillCursors(c, id)
  PROVE  WInv'
<1> DEFINE cur == cursors.open[id]
<1>1. CASE cursorNotFound(c, id)
  <2>1. /\ command(c, conns[c].sessions) /\ UNCHANGED cursors
        /\ wg' = [wg EXCEPT !.commands = @ + 1]
    BY <1>1, Zenon DEF cursorNotFound
  <2>2. wg.commands + 1 \in 0..MaxRequests
    <3>1. wg.accepts + wg.commands < MaxRequests
      BY <2>1, Zenon DEF command
    <3> QED BY <3>1, WireAssumption DEF WInv, WireTypeOK, Ghosts
  <2>3. wg' \in Ghosts /\ UNCHANGED <<txnFields, wg.accepts, wg.got>>
    BY <2>1, <2>2, Zenon DEF WInv, WireTypeOK, Ghosts, txnFields
  <2>4. SameConns => CursorsOK'
    BY <2>1, <2>3, CursorFrame, Zenon DEF WInv
  <2> QED BY <2>1, <2>3, <2>4, OtherCommand, Zenon DEF WInv, WireTypeOK
<1>2. CASE handleKillCursors(c, id)
  BY <1>2, CloseInv, ZenonT(60) DEF handleKillCursors, get
<1>3. CASE \E size \in 0..2 : handleGetMore(c, id, size)
  <2>1. PICK size \in 0..2 : handleGetMore(c, id, size)
    BY <1>3, Zenon
  <2>2. /\ id \in DOMAIN cursors.open /\ cur.conn = c /\ command(c, conns[c].sessions)
    BY <2>1, ZenonT(60) DEF handleGetMore, get
  <2>3. cur.pos \in Nat /\ cur.total \in Nat /\ cur.pos < cur.total
    BY <2>2, Entries, ZenonT(60) DEF WInv, CursorsOK, Cursors
  <2>4. CASE dropCursor(id) /\ wg' = [wg EXCEPT !.commands = @ + 1,
                                                !.got = seen(c, id, 0, "error")]
    BY <2>2, <2>4, CloseInv, ZenonT(60)
  <2>5. ASSUME NEW n \in collectBatch(cur.total - cur.pos, size)
        PROVE  /\ n \in Nat
               /\ hasMore(cur.total, cur.pos + n) => cur.pos + n < cur.total
               /\ ~hasMore(cur.total, cur.pos + n) => cur.pos + n = cur.total
    <3> DEFINE left == cur.total - cur.pos
    <3>1. left \in Nat /\ size \in Nat
      BY <2>3, SMTT(30)
    <3>2. n \in 0..left
      <4> HIDE DEF left
      <4>1. n \in collectBatch(left, size)
        BY Zenon DEF left
      <4> QED BY <3>1, <4>1, BatchBounds, Zenon
    <3> QED BY <2>3, <3>1, <3>2, SMTT(30) DEF hasMore
  <2>6. ASSUME NEW n \in collectBatch(cur.total - cur.pos, size),
               hasMore(cur.total, cur.pos + n),
               cursors' = [cursors EXCEPT !.open[id].pos = @ + n],
               wg' = [wg EXCEPT !.commands = @ + 1, !.got = seen(c, id, n, "more")]
        PROVE  WInv'
    BY <2>2, <2>5, <2>6, AdvanceInv, ZenonT(60)
  <2>7. ASSUME NEW n \in collectBatch(cur.total - cur.pos, size),
               ~hasMore(cur.total, cur.pos + n), dropCursor(id),
               wg' = [wg EXCEPT !.commands = @ + 1, !.got = seen(c, id, n, "end")]
        PROVE  WInv'
    BY <2>2, <2>5, <2>7, CloseInv, Zenon
  <2> QED BY <2>1, <2>4, <2>6, <2>7, Zenon DEF handleGetMore
<1> QED BY <1>1, <1>2, <1>3, Zenon

-----------------------------------------------------------------------------

LEMMA InitWInv == WireInit => WInv
<1> SUFFICES ASSUME WireInit PROVE WInv
  BY Zenon
<1>1. PICK max \in ConnLimits :
        server = [loop |-> "accept", listening |-> TRUE, cancelled |-> FALSE,
                  watcher |-> "watching", count |-> 0, maxConns |-> max]
  BY Zenon DEF WireInit
<1>2. /\ conns = [c \in ConnIDs |-> NoConn] /\ cursors = [seq |-> 0, open |-> << >>]
      /\ wg = [accepts |-> 0, commands |-> 0, txns |-> 0, begun |-> << >>, live |-> {},
               applied |-> {}, acked |-> {}, failed |-> {}, expired |-> {}, got |-> << >>]
  BY Zenon DEF WireInit
<1>3. server \in Servers /\ server.count = 0 /\ server.loop = "accept" /\ server.maxConns = max
  BY <1>1, Zenon DEF Servers
<1>4. NoConn \in Conns /\ NoConn.at = "none" /\ DOMAIN NoConn.sessions = {}
  BY EmptyMap, Zenon DEF NoConn, Conns
<1> HIDE DEF NoConn
<1>5. /\ conns \in [ConnIDs -> Conns]
      /\ \A c \in ConnIDs : conns[c].at = "none" /\ DOMAIN conns[c].sessions = {}
  BY <1>2, <1>4, Zenon
<1>6. cursors \in [seq : 0..MaxCursors, open : Maps(1..MaxCursors, Cursors)]
      /\ DOMAIN cursors.open = {}
  BY <1>2, EmptyMap, WireAssumption, SMTT(30)
<1>7. wg \in Ghosts
  <2> DEFINE e == << >>
  <2>1. /\ e \in Maps(ConnIDs \X Lsids \X TxnNums, 1..MaxTxns)
        /\ e \in Maps(0..MaxCursors, Deliveries)
        /\ 0 \in 0..MaxAccepts /\ 0 \in 0..MaxRequests /\ 0 \in 0..MaxTxns
        /\ wg = [accepts |-> 0, commands |-> 0, txns |-> 0, begun |-> e, live |-> {},
               applied |-> {}, acked |-> {}, failed |-> {}, expired |-> {}, got |-> e]
    BY <1>2, EmptyMap, WireAssumption, SMTT(30)
  <2> HIDE DEF e
  <2> QED BY <2>1, Zenon DEF Ghosts
<1>8. /\ DOMAIN wg.got = {} /\ wg.live = {} /\ wg.applied = {} /\ wg.acked = {}
      /\ wg.failed = {}
  BY <1>2, EmptyMap, Zenon
<1>9. served = {}
  BY <1>5, Zenon DEF served
<1>10. CountOK
  <2>1. Cardinality(served) = 0 /\ max \in Nat
    BY <1>9, FS_EmptySet, WireAssumption, Zenon
  <2> QED BY <1>3, <2>1 DEF CountOK
<1>11. AcceptOK
  BY <1>3, <1>5, Zenon DEF AcceptOK
<1>12. TransactionsAreHeld /\ SessionsOK /\ TxnsOK /\ CommitRepliesTrue
  BY <1>5, <1>8, Zenon DEF TransactionsAreHeld, SessionsOK, TxnsOK, CommitRepliesTrue
<1>13. CursorsOK
  BY <1>6, <1>8, Zenon DEF CursorsOK
<1> QED BY <1>3, <1>5, <1>6, <1>7, <1>10, <1>11, <1>12, <1>13, Zenon DEF WInv, WireTypeOK

LEMMA NextWInv ==
  ASSUME WInv, [WireNext]_wvars
  PROVE  WInv'
<1>1. ASSUME \/ Accept \/ Count \/ AcceptFails \/ Cancel \/ StopListening
             \/ interruptReads \/ closeAllConns \/ ServeReturn \/ ServeOver
      PROVE  WInv'
  BY <1>1, ServerInv, Zenon
<1>2. CASE newConn
  BY <1>2, NewConnInv, Zenon
<1>3. ASSUME NEW c \in ConnIDs, \/ checkContext(c) \/ armIdleDeadline(c) \/ writeReply(c)
                                \/ PeerCloses(c) \/ readFails(c) \/ PeerStalls(c)
                                \/ writeFails(c)
      PROVE  WInv'
  BY <1>3, GoInv, Zenon
<1>4. ASSUME NEW c \in ConnIDs, endAllSessions(c) PROVE WInv'
  BY <1>4, EndAllSessionsInv, Zenon
<1>5. ASSUME NEW c \in ConnIDs, uncount(c) PROVE WInv'
  BY <1>5, UncountInv, Zenon
<1>6. ASSUME NEW c \in ConnIDs, NEW k \in Lsids, continueTransaction(c, k) PROVE WInv'
  BY <1>6, KeepSession, Zenon DEF continueTransaction
<1>7. ASSUME NEW c \in ConnIDs, NEW k \in Lsids, handleEndSessions(c, k) PROVE WInv'
  BY <1>7, EndSessionsInv, Zenon
<1>8. ASSUME NEW c \in ConnIDs, NEW k \in Lsids, NEW n \in TxnNums, startTransaction(c, k, n)
      PROVE  WInv'
  BY <1>8, StartTransactionInv, Zenon
<1>9. ASSUME NEW c \in ConnIDs, NEW k \in Lsids, NEW n \in TxnNums,
             handleCommitTransaction(c, k, n) \/ handleAbortTransaction(c, k, n)
      PROVE  WInv'
  BY <1>9, CommitTransactionInv, Zenon
<1>10. ASSUME NEW c \in ConnIDs, NEW total \in Results, NEW size \in 0..2,
              firstBatch(c, total, size)
       PROVE  WInv'
  BY <1>10, FirstBatchInv, Zenon
<1>11. ASSUME NEW c \in ConnIDs, NEW id \in 1..MaxCursors,
              \/ \E size \in 0..2 : handleGetMore(c, id, size)
              \/ cursorNotFound(c, id) \/ handleKillCursors(c, id)
       PROVE  WInv'
  BY <1>11, CursorCommandsInv, Zenon
<1>12. CASE UNCHANGED wvars
  <2>1. /\ SameConns /\ UNCHANGED <<txnFields, server, cursors, wg>>
        /\ \A d \in ConnIDs : conns'[d].sessions = conns[d].sessions
    BY <1>12, Zenon DEF wvars, SameConns, connected, served, txnFields
  <2>2. WireTypeOK'
    BY <1>12, Zenon DEF wvars, WInv, WireTypeOK
  <2>3. AcceptOK' /\ CountOK'
    BY <2>1, CountFrame, Zenon DEF WInv
  <2>4. TransactionsAreHeld' /\ SessionsOK' /\ TxnsOK' /\ CommitRepliesTrue'
    BY <2>1, TxnFrame, Zenon DEF WInv, SameConns
  <2>5. CursorsOK'
    BY <2>1, CursorFrame, Zenon DEF WInv
  <2> QED BY <2>2, <2>3, <2>4, <2>5, Zenon DEF WInv
<1> QED
  BY <1>1, <1>2, <1>3, <1>4, <1>5, <1>6, <1>7, <1>8, <1>9, <1>10, <1>11, <1>12, Zenon DEF WireNext

LEMMA WInvAlways == WireSpec => []WInv
BY InitWInv, NextWInv, PTL DEF WireSpec

\* The server's accounts are exact for any number of connections, sessions and
\* cursors: the count MaxConns and drain go by, the cursors of the store and
\* the open engine transactions are those of the connections still served,
\* whichever way one ends (serve's deferred calls, closeAllConns).
THEOREM NothingEverLeaks == WireSpec => []NothingLeaks
<1>1. WInv => NothingLeaks
  <2> SUFFICES ASSUME WInv PROVE NothingLeaks
    BY Zenon
  <2>1. \A id \in DOMAIN cursors.open :
          conns[cursors.open[id].conn].at \notin {"none", "uncount", "done"}
    BY Zenon DEF WInv, CursorsOK, connected
  <2>2. ServerAccounts
    BY <2>1, Zenon DEF WInv, CountOK, served, ServerAccounts
  <2> QED BY <2>2, Zenon DEF WInv, NothingLeaks
<1> QED BY <1>1, WInvAlways, PTL

\* The reply to commitTransaction is true of the transaction its number means
\* (handleCommitTransaction), also when numbers are used again, sessions end
\* and start anew, and contexts expire.
THEOREM CommitRepliesAlwaysTrue == WireSpec => []CommitRepliesTrue
<1>1. WInv => CommitRepliesTrue
  BY Zenon DEF WInv
<1> QED BY <1>1, WInvAlways, PTL

\* A client that reads its cursor to the end has every document of the result
\* once, for any size of result set and however its batches are cut
\* (collectBatch, handleGetMore).
THEOREM CursorAlwaysDeliversAll == WireSpec => []CursorDeliversAll
<1>1. WInv => CursorDeliversAll
  BY Zenon DEF WInv, CursorsOK, Agrees, CursorDeliversAll
<1> QED BY <1>1, WInvAlways, PTL
=============================================================================
