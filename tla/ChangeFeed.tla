----------------------------- MODULE ChangeFeed -----------------------------
(***************************************************************************)
(* Change streams: the in-memory feed of changefeed.go, the streams of     *)
(* changestream.go that read it, and the commit path that fills it         *)
(* (collection/changefeed.go, engine.go).                                  *)
(*                                                                         *)
(* A transaction gets its commit version under the oracle lock and emits   *)
(* its records after releasing it; a drop emits under the engine lock.     *)
(* Documents are keys of a collection; their images are left out.  A       *)
(* $match stage is left out too: a stream is told apart by its scope.      *)
(***************************************************************************)
EXTENDS Integers, Sequences, FiniteSets

CONSTANTS
  Writers,       \* goroutines that run transactions
  Streams,       \* goroutines that each drive one change stream
  Colls, Docs,   \* namespaces; documents of each
  FeedCapacity,  \* changeFeedCapacity
  MaxEvents,     \* bound: events published
  MaxWatches     \* bound: streams opened

ASSUME ChangeFeedAssumption ==
  /\ Colls # {} /\ FeedCapacity \in Nat \ {0}
  /\ MaxEvents \in Nat /\ MaxWatches \in Nat

VARIABLES
  commitVer,
  writer,    \* writer -> [at, coll, doc, cv]: at is idle, open or committed
  dropped,   \* collections removed from the catalog
  ring,      \* the feed's buffer
  wake,      \* streams whose wake channel holds a token
  stream,    \* stream -> its ChangeStream
  watches,   \* streams opened so far
  log        \* ghost: every event published; the feed's seq is its length

vars == <<commitVer, writer, dropped, ring, wake, stream, watches, log>>

DropOp == "drop"
NoDoc == "none"

IdleWriter == [at |-> "idle", coll |-> CHOOSE c \in Colls : TRUE, doc |-> NoDoc, cv |-> 0]

\* st: closed (no stream), ready (the caller is about to call Next), scanned
\* (the scan found nothing), waiting (blocked on the wake channel), ended (done,
\* or err is set).
NoStream == [st |-> "closed", scope |-> {}, next |-> 0, start |-> 0, got |-> << >>,
             invalid |-> FALSE, err |-> "nil"]

seq == Len(log)

registered == {s \in Streams : stream[s].st # "closed"}

\* The n last elements of a sequence.
LastN(sq, n) == IF Len(sq) <= n THEN sq ELSE SubSeq(sq, Len(sq) - n + 1, Len(sq))

(***************************************************************************)
(* The feed.                                                               *)
(***************************************************************************)

\* Mutant: the wake channel is unbuffered, so only a stream that is already
\* blocked gets the signal.
publish_unbuffered(coll, doc, cv) ==
  LET ev == [seq |-> seq + 1, cv |-> cv, coll |-> coll, doc |-> doc]
      grown == Append(ring, ev)
  IN  /\ seq < MaxEvents
      /\ log' = Append(log, ev)
      /\ ring' = LastN(grown, FeedCapacity)
      /\ wake' = wake \cup {s \in registered : stream[s].st = "waiting"}

\* publish runs under f.mu: append, evict, signal every subscriber.
publish(coll, doc, cv) ==
  LET ev == [seq |-> seq + 1, cv |-> cv, coll |-> coll, doc |-> doc]
      grown == Append(ring, ev)
  IN  /\ seq < MaxEvents
      /\ log' = Append(log, ev)
      /\ ring' = LastN(grown, FeedCapacity)
      /\ wake' = wake \cup registered

\* Mutant of the eviction test of since: one event may be skipped.
missed_late(fromSeq) == ring # << >> /\ fromSeq + 2 < ring[1].seq

missed(fromSeq) == ring # << >> /\ fromSeq + 1 < ring[1].seq

\* The places in the buffer of the events after fromSeq.
since(fromSeq) == {i \in 1..Len(ring) : ring[i].seq > fromSeq}

(***************************************************************************)
(* Writers and drops.                                                      *)
(***************************************************************************)

Begin(w, coll) ==
  /\ writer[w].at = "idle" /\ coll \notin dropped
  /\ writer' = [writer EXCEPT ![w] = [IdleWriter EXCEPT !.at = "open", !.coll = coll]]
  /\ UNCHANGED <<commitVer, dropped, ring, wake, stream, watches, log>>

\* The oracle assigns the version under its lock.
Commit(w, doc) ==
  /\ writer[w].at = "open"
  /\ commitVer' = commitVer + 1
  /\ writer' = [writer EXCEPT ![w].at = "committed", ![w].doc = doc, ![w].cv = commitVer + 1]
  /\ UNCHANGED <<dropped, ring, wake, stream, watches, log>>

fireChange(w) ==
  /\ writer[w].at = "committed"
  /\ publish(writer[w].coll, writer[w].doc, writer[w].cv)
  /\ writer' = [writer EXCEPT ![w] = IdleWriter]
  /\ UNCHANGED <<commitVer, dropped, stream, watches>>

DropCollection(coll) ==
  /\ coll \notin dropped
  /\ dropped' = dropped \cup {coll}
  /\ publish(coll, DropOp, commitVer)
  /\ UNCHANGED <<commitVer, writer, stream, watches>>

(***************************************************************************)
(* Streams.                                                                *)
(***************************************************************************)

\* A collection's stream watches one namespace, a database's all of them.  It
\* starts at the head, or after the token of an event delivered earlier, which
\* may have been before the process was restarted and the feed began anew.
watch(s) ==
  /\ stream[s].st = "closed" /\ watches < MaxWatches
  /\ watches' = watches + 1
  /\ \E scope \in {Colls} \cup {{coll} : coll \in Colls},
        tok \in {seq} \cup 1..(seq + 1) :
       stream' = [stream EXCEPT ![s] =
         [NoStream EXCEPT !.st = "ready", !.scope = scope, !.next = tok,
                          !.start = tok]]
  /\ wake' = wake \ {s}
  /\ UNCHANGED <<commitVer, writer, dropped, ring, log>>

\* scan takes buffered events until one is in scope.
scanned(cs) ==
  LET evs == since(cs.next)
      hits == {i \in evs : ring[i].coll \in cs.scope}
      hit == CHOOSE i \in hits : \A j \in hits : i <= j
  IN  IF missed(cs.next) THEN [cs EXCEPT !.err = "resume", !.st = "ended"]
      ELSE IF hits # {}
      THEN [cs EXCEPT !.next = ring[hit].seq,
                      !.got = Append(cs.got, ring[hit].seq),
                      !.invalid = ring[hit].doc = DropOp /\ cs.scope # Colls]
      ELSE [cs EXCEPT !.next = IF evs = {} THEN @ ELSE ring[Len(ring)].seq,
                      !.st = "scanned"]

\* Next (and TryNext), up to the delivery of an event or the end of the scan.
\* After a drop it delivers the invalidate event and the stream is done.
Next_(s) ==
  /\ stream[s].st = "ready"
  /\ stream' = [stream EXCEPT ![s] =
       IF stream[s].invalid
       THEN [stream[s] EXCEPT !.invalid = FALSE, !.st = "ended", !.err = "invalidated"]
       ELSE scanned(stream[s])]
  /\ UNCHANGED <<commitVer, writer, dropped, ring, wake, watches, log>>

\* Next goes on to wait; TryNext returns false to its caller.
block(s) ==
  /\ stream[s].st = "scanned"
  /\ \E st \in {"waiting", "ready"} : stream' = [stream EXCEPT ![s].st = st]
  /\ UNCHANGED <<commitVer, writer, dropped, ring, wake, watches, log>>

woken(s) ==
  /\ stream[s].st = "waiting" /\ s \in wake
  /\ wake' = wake \ {s}
  /\ stream' = [stream EXCEPT ![s].st = "ready"]
  /\ UNCHANGED <<commitVer, writer, dropped, ring, watches, log>>

\* The caller's context is cancelled.
cancel(s) ==
  /\ stream[s].st = "waiting"
  /\ stream' = [stream EXCEPT ![s].st = "ended", ![s].err = "ctx"]
  /\ UNCHANGED <<commitVer, writer, dropped, ring, wake, watches, log>>

Close(s) ==
  /\ stream[s].st \in {"ready", "ended"}
  /\ stream' = [stream EXCEPT ![s] = NoStream]
  /\ UNCHANGED <<commitVer, writer, dropped, ring, wake, watches, log>>

Init ==
  /\ commitVer = 0
  /\ writer = [w \in Writers |-> IdleWriter]
  /\ dropped = {} /\ ring = << >> /\ wake = {} /\ log = << >>
  /\ stream = [s \in Streams |-> NoStream]
  /\ watches = 0

\* The bounded run is over.
Finished ==
  /\ seq = MaxEvents \/ dropped = Colls
  /\ UNCHANGED vars

Next ==
  \/ \E w \in Writers :
       \/ \E coll \in Colls : Begin(w, coll)
       \/ \E doc \in Docs : Commit(w, doc)
       \/ fireChange(w)
  \/ \E coll \in Colls : DropCollection(coll)
  \/ \E s \in Streams : watch(s) \/ Next_(s) \/ block(s) \/ woken(s) \/ cancel(s) \/ Close(s)
  \/ Finished

Spec == Init /\ [][Next]_vars

\* A committed transaction's goroutine goes on to emit; a stream's goroutine
\* runs while it is not blocked, and its caller keeps calling Next.
Fairness ==
  /\ \A w \in Writers : WF_vars(fireChange(w))
  /\ \A s \in Streams : WF_vars(Next_(s) \/ block(s) \/ woken(s))

FairSpec == Spec /\ Fairness
-----------------------------------------------------------------------------

Events == [seq : 1..MaxEvents, cv : Nat, coll : Colls, doc : Docs \cup {DropOp}]

TypeOK ==
  /\ commitVer \in Nat /\ watches \in 0..MaxWatches
  /\ writer \in [Writers -> [at : {"idle", "open", "committed"}, coll : Colls,
                             doc : Docs \cup {NoDoc}, cv : Nat]]
  /\ dropped \subseteq Colls
  /\ log \in Seq(Events) /\ ring \in Seq(Events)
  /\ Len(ring) <= FeedCapacity
  /\ wake \subseteq Streams
  /\ stream \in [Streams ->
       [st : {"closed", "ready", "scanned", "waiting", "ended"}, scope : SUBSET Colls,
        next : Nat, start : Nat, got : Seq(1..MaxEvents), invalid : BOOLEAN,
        err : {"nil", "resume", "invalidated", "ctx"}]]

\* No silent gap: what a stream has delivered is exactly the events of its
\* scope between where it started and its position, in order, however far
\* behind the ring it fell and whichever token it resumed from.
DeliversEverything ==
  \A s \in Streams :
    LET cs == stream[s]
    IN  /\ \A i, j \in 1..Len(cs.got) : i < j => cs.got[i] < cs.got[j]
        /\ {cs.got[i] : i \in 1..Len(cs.got)} =
             {n \in 1..seq : n > cs.start /\ n <= cs.next /\ log[n].coll \in cs.scope}

\* A stream is told to start over only when the event right after its position
\* is gone from the buffer.
ResumeErrorIsHonest ==
  \A s \in Streams : stream[s].err = "resume" =>
    /\ stream[s].next < seq
    /\ \A i \in 1..Len(ring) : ring[i].seq # stream[s].next + 1

\* A stream skips nothing without being told, and is told so only when it is
\* true, however far the ring has moved on between its reads.
StreamsAreHonest == DeliversEverything /\ ResumeErrorIsHonest

\* An open stream has an event of its scope still to deliver.
Behind(s) ==
  /\ stream[s].st \in {"ready", "scanned", "waiting"}
  /\ \E n \in (stream[s].start + 1)..seq :
       /\ log[n].coll \in stream[s].scope
       /\ \A i \in 1..Len(stream[s].got) : stream[s].got[i] # n

\* No lost wakeup: once the events end, an open stream delivers every one in its
\* scope, unless it ends first.
EventsAreDelivered == \A s \in Streams : Behind(s) ~> ~Behind(s)
=============================================================================
