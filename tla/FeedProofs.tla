----------------------------- MODULE FeedProofs -----------------------------
(* That a change stream skips no event without saying so, for any number of *)
(* writers and streams and any capacity of the feed.  The feed's ring is    *)
(* the tail of everything published, numbered without a gap; a stream's     *)
(* position lies in it, before it, or at a token that is still to come.     *)
EXTENDS ChangeFeed, WellFoundedInduction, TLAPS

\* The ring is the end of the log, as long as its capacity allows.
IsTail(rg, lg) ==
  /\ Len(rg) = IF Len(lg) <= FeedCapacity THEN Len(lg) ELSE FeedCapacity
  /\ \A i \in 1..Len(rg) : rg[i] = lg[Len(lg) - Len(rg) + i]

\* Sequence numbers count the events.
Numbered(lg) == \A n \in 1..Len(lg) : lg[n].seq = n

\* A transaction that has committed wrote a document.
WritersOK == \A w \in Writers : writer[w].at = "committed" => writer[w].doc \in Docs

\* What stream cs has delivered of the log lg.
Complete(cs, lg) ==
  /\ \A i, j \in 1..Len(cs.got) : i < j => cs.got[i] < cs.got[j]
  /\ {cs.got[i] : i \in 1..Len(cs.got)} =
       {n \in 1..Len(lg) : n > cs.start /\ n <= cs.next /\ lg[n].coll \in cs.scope}

\* A position beyond the log is where the stream started; a stream that was told
\* to start over is behind the ring.
Positioned(cs, lg, rg) ==
  /\ cs.start <= cs.next
  /\ cs.next <= Len(lg) \/ cs.next = cs.start
  /\ cs.err = "resume" => cs.next + 1 <= Len(lg) - Len(rg)

StreamTypes ==
  [st : {"closed", "ready", "scanned", "waiting", "ended"}, scope : SUBSET Colls,
   next : Nat, start : Nat, got : Seq(1..MaxEvents), invalid : BOOLEAN,
   err : {"nil", "resume", "invalidated", "ctx"}]

StreamsOK ==
  \A s \in Streams :
    /\ Complete(stream[s], log) /\ Positioned(stream[s], log, ring)
    /\ stream[s].err = "resume" => stream[s].st = "ended"

FInv == TypeOK /\ IsTail(ring, log) /\ Numbered(log) /\ WritersOK /\ StreamsOK
-----------------------------------------------------------------------------

\* publish leaves what was published, numbers the new event after it, and never
\* takes the ring back.
LEMMA PublishKeeps ==
  ASSUME FInv, NEW coll \in Colls, NEW doc \in Docs \cup {DropOp}, NEW cv \in Nat,
         publish(coll, doc, cv)
  PROVE  /\ log' \in Seq(Events) /\ ring' \in Seq(Events)
         /\ Len(ring') <= FeedCapacity /\ wake' \subseteq Streams
         /\ Len(log') = Len(log) + 1
         /\ \A n \in 1..Len(log) : log'[n] = log[n]
         /\ Len(log) - Len(ring) <= Len(log') - Len(ring')
         /\ IsTail(ring', log') /\ Numbered(log')
<1> DEFINE ev == [seq |-> seq + 1, cv |-> cv, coll |-> coll, doc |-> doc]
           grown == Append(ring, ev)
           new == log'
           held == ring'
           F == FeedCapacity
<1>1. log \in Seq(Events) /\ ring \in Seq(Events) /\ wake \subseteq Streams
  BY Zenon DEF FInv, TypeOK
<1>2. F \in Nat \ {0} /\ MaxEvents \in Nat /\ Len(log) \in Nat /\ Len(ring) \in Nat
  BY <1>1, ChangeFeedAssumption
<1>3. /\ Len(log) <= F => Len(ring) = Len(log)
      /\ Len(log) > F => Len(ring) = F
  BY <1>2 DEF FInv, IsTail
<1>4. \A i \in 1..Len(ring) : ring[i] = log[Len(log) - Len(ring) + i]
  BY Zenon DEF FInv, IsTail
<1>5. /\ Len(log) < MaxEvents /\ new = Append(log, ev)
      /\ held = LastN(grown, F) /\ wake' = wake \cup registered
  BY Zenon DEF publish, seq
<1>6. ev \in Events /\ ev.seq = Len(log) + 1
  <2>1. Len(log) + 1 \in 1..MaxEvents
    BY <1>2, <1>5
  <2> QED BY <2>1, Zenon DEF Events, seq
<1> HIDE DEF ev
<1>7. new \in Seq(Events)
  BY <1>1, <1>5, <1>6
<1>8. /\ Len(new) = Len(log) + 1 /\ new[Len(log) + 1] = ev
      /\ \A n \in 1..Len(log) : new[n] = log[n]
  BY <1>1, <1>5, <1>6
<1>9. grown \in Seq(Events)
  BY <1>1, <1>6
<1>10. /\ Len(grown) = Len(ring) + 1 /\ grown[Len(ring) + 1] = ev
       /\ \A i \in 1..Len(ring) : grown[i] = ring[i]
  BY <1>1, <1>6
<1> HIDE DEF grown, new, held, F
<1>11. \A i \in 1..Len(grown) : grown[i] = new[Len(new) - Len(grown) + i]
  <2> SUFFICES ASSUME NEW i \in 1..Len(grown)
               PROVE  grown[i] = new[Len(new) - Len(grown) + i]
    BY Zenon
  <2>1. Len(new) - Len(grown) + i = Len(log) - Len(ring) + i
    BY <1>2, <1>8, <1>10
  <2>2. CASE i = Len(ring) + 1
    <3>1. Len(log) - Len(ring) + i = Len(log) + 1
      BY <2>2, <1>2
    <3> QED BY <2>1, <2>2, <3>1, <1>8, <1>10, Zenon
  <2>3. CASE i \in 1..Len(ring)
    <3>1. Len(log) - Len(ring) + i \in 1..Len(log)
      BY <2>3, <1>2, <1>3
    <3> QED BY <2>1, <2>3, <3>1, <1>4, <1>8, <1>10, Zenon
  <2> QED BY <2>2, <2>3, <1>2, <1>10
<1>12. /\ held \in Seq(Events) /\ Len(held) <= F
       /\ Len(held) = IF Len(new) <= F THEN Len(new) ELSE F
       /\ \A i \in 1..Len(held) : held[i] = new[Len(new) - Len(held) + i]
  <2>1. CASE Len(grown) <= F
    <3>1. held = grown
      BY <2>1, <1>5, Zenon DEF LastN
    <3>2. Len(grown) = Len(new) /\ Len(new) <= F
      BY <2>1, <1>2, <1>3, <1>8, <1>10
    <3> QED BY <3>1, <3>2, <1>9, <1>11, Zenon
  <2>2. CASE ~(Len(grown) <= F)
    <3>1. held = SubSeq(grown, Len(grown) - F + 1, Len(grown))
      BY <2>2, <1>5, Zenon DEF LastN
    <3>2. Len(grown) = F + 1 /\ Len(new) >= F + 1
      BY <2>2, <1>2, <1>3, <1>8, <1>10
    <3>3. held = SubSeq(grown, 2, F + 1)
      <4>1. Len(grown) - F + 1 = 2
        BY <3>2, <1>2
      <4> QED BY <4>1, <3>1, <3>2, Zenon
    <3>4. /\ held \in Seq(Events) /\ Len(held) = F
          /\ \A i \in 1..Len(held) : held[i] = grown[i + 1]
      BY <3>2, <3>3, <1>2, <1>9
    <3>5. ASSUME NEW i \in 1..Len(held)
          PROVE  held[i] = new[Len(new) - Len(held) + i]
      <4>1. Len(new) \in Nat
        BY <1>2, <1>8
      <4>2. /\ i + 1 \in 1..Len(grown)
            /\ Len(new) - Len(grown) + (i + 1) = Len(new) - Len(held) + i
        BY <3>2, <3>4, <4>1, <1>2
      <4>3. grown[i + 1] = new[Len(new) - Len(grown) + (i + 1)]
        BY <4>2, <1>11, Zenon
      <4> QED BY <4>2, <4>3, <3>4, Zenon
    <3>6. Len(held) <= F /\ (Len(held) = IF Len(new) <= F THEN Len(new) ELSE F)
      BY <3>2, <3>4, <1>2, <1>8
    <3> QED BY <3>4, <3>5, <3>6, Zenon
  <2> QED BY <2>1, <2>2, Zenon
<1>13. Len(log) - Len(ring) <= Len(new) - Len(held)
  <2>1. /\ Len(new) <= F => Len(held) = Len(new)
        /\ Len(new) > F => Len(held) = F
    BY <1>2, <1>8, <1>12
  <2> QED BY <2>1, <1>2, <1>3, <1>8
<1>14. Numbered(new)
  <2>1. Numbered(log)
    BY Zenon DEF FInv
  <2> QED BY <2>1, <1>2, <1>6, <1>8 DEF Numbered
<1>15. wake' \subseteq Streams
  BY <1>1, <1>5, Zenon DEF registered
<1> QED BY <1>7, <1>8, <1>12, <1>13, <1>14, <1>15, Zenon DEF IsTail, new, held, F

\* One more event changes nothing for a stream that has not passed it.
LEMMA StreamSurvivesPublish ==
  ASSUME NEW cs \in StreamTypes, NEW lg \in Seq(Events), NEW new \in Seq(Events),
         NEW rg \in Seq(Events), NEW held \in Seq(Events),
         Len(new) = Len(lg) + 1, \A n \in 1..Len(lg) : new[n] = lg[n],
         Len(lg) - Len(rg) <= Len(new) - Len(held),
         Complete(cs, lg), Positioned(cs, lg, rg)
  PROVE  Complete(cs, new) /\ Positioned(cs, new, held)
<1>1. /\ cs.start \in Nat /\ cs.next \in Nat /\ Len(lg) \in Nat /\ Len(new) \in Nat
      /\ Len(rg) \in Nat /\ Len(held) \in Nat
  BY DEF StreamTypes
<1>2. cs.start <= cs.next /\ (cs.next <= Len(lg) \/ cs.next = cs.start)
  BY Zenon DEF Positioned
<1>3. Positioned(cs, new, held)
  BY <1>1 DEF Positioned
<1>4. ASSUME NEW n
      PROVE  (n \in 1..Len(new) /\ n > cs.start /\ n <= cs.next /\ new[n].coll \in cs.scope)
             <=> (n \in 1..Len(lg) /\ n > cs.start /\ n <= cs.next /\ lg[n].coll \in cs.scope)
  <2>1. CASE n \in 1..Len(lg)
    BY <2>1, <1>1
  <2>2. CASE n = Len(lg) + 1
    BY <2>2, <1>1, <1>2
  <2>3. CASE n \notin 1..Len(new)
    BY <2>3, <1>1
  <2> QED BY <2>1, <2>2, <2>3, <1>1
<1>5. {n \in 1..Len(new) : n > cs.start /\ n <= cs.next /\ new[n].coll \in cs.scope}
      = {n \in 1..Len(lg) : n > cs.start /\ n <= cs.next /\ lg[n].coll \in cs.scope}
  BY <1>4, Zenon
<1> QED BY <1>3, <1>5, Zenon DEF Complete

\* What only changes a stream's state, invalid flag or error, and not to the
\* resume error, leaves its record of deliveries as good as it was.
LEMMA OtherFields ==
  ASSUME NEW cs, NEW nu, NEW lg, NEW rg,
         nu.scope = cs.scope, nu.next = cs.next, nu.start = cs.start, nu.got = cs.got,
         nu.err = "resume" => cs.err = "resume",
         Complete(cs, lg), Positioned(cs, lg, rg)
  PROVE  Complete(nu, lg) /\ Positioned(nu, lg, rg)
BY DEF Complete, Positioned

\* An empty record of deliveries is complete wherever the stream starts.
LEMMA FreshStream ==
  ASSUME NEW cs \in StreamTypes, NEW lg \in Seq(Events), NEW rg \in Seq(Events),
         cs.got = << >>, cs.start = cs.next, cs.err = "nil"
  PROVE  Complete(cs, lg) /\ Positioned(cs, lg, rg)
<1>1. cs.start \in Nat /\ cs.next \in Nat
  BY Zenon DEF StreamTypes
<1>2. {cs.got[i] : i \in 1..Len(cs.got)} = {}
  OBVIOUS
<1>3. {n \in 1..Len(lg) : n > cs.start /\ n <= cs.next /\ lg[n].coll \in cs.scope} = {}
  BY <1>1
<1> QED BY <1>1, <1>2, <1>3 DEF Complete, Positioned

\* A stream that moves on to n, having delivered all that is in scope up to there.
LEMMA StreamMovesOn ==
  ASSUME NEW cs \in StreamTypes, NEW nu \in StreamTypes, NEW lg \in Seq(Events), NEW rg,
         nu.scope = cs.scope, nu.start = cs.start, nu.got = cs.got, nu.err # "resume",
         cs.next <= nu.next, nu.next <= Len(lg),
         \A n \in 1..Len(lg) : n > cs.next /\ n <= nu.next => lg[n].coll \notin cs.scope,
         Complete(cs, lg), Positioned(cs, lg, rg)
  PROVE  Complete(nu, lg) /\ Positioned(nu, lg, rg)
<1>1. cs.start \in Nat /\ cs.next \in Nat /\ nu.next \in Nat /\ Len(lg) \in Nat
  BY DEF StreamTypes
<1>2. cs.start <= cs.next
  BY Zenon DEF Positioned
<1>3. Positioned(nu, lg, rg)
  BY <1>1, <1>2 DEF Positioned
<1>4. \A n \in 1..Len(lg) : n <= cs.next \/ n > cs.next
  BY <1>1
<1>5. ASSUME NEW n \in 1..Len(lg)
      PROVE  (n > nu.start /\ n <= nu.next /\ lg[n].coll \in nu.scope)
             <=> (n > cs.start /\ n <= cs.next /\ lg[n].coll \in cs.scope)
  BY <1>1, <1>2
<1>6. {n \in 1..Len(lg) : n > nu.start /\ n <= nu.next /\ lg[n].coll \in nu.scope}
      = {n \in 1..Len(lg) : n > cs.start /\ n <= cs.next /\ lg[n].coll \in cs.scope}
  BY <1>5, Zenon
<1> QED BY <1>3, <1>6 DEF Complete

\* A stream that delivers event m, the first in scope after its position.
LEMMA StreamDelivers ==
  ASSUME NEW cs \in StreamTypes, NEW nu \in StreamTypes, NEW lg \in Seq(Events), NEW rg,
         NEW m \in 1..Len(lg), cs.next < m, lg[m].coll \in cs.scope,
         nu.scope = cs.scope, nu.start = cs.start, nu.got = Append(cs.got, m),
         nu.next = m, nu.err # "resume",
         \A n \in 1..Len(lg) : n > cs.next /\ n < m => lg[n].coll \notin cs.scope,
         Complete(cs, lg), Positioned(cs, lg, rg)
  PROVE  Complete(nu, lg) /\ Positioned(nu, lg, rg)
<1> DEFINE got == cs.got
           more == nu.got
           L == Len(got)
<1>1. /\ cs.start \in Nat /\ cs.next \in Nat /\ Len(lg) \in Nat /\ m \in Nat
      /\ got \in Seq(1..MaxEvents)
  BY DEF StreamTypes
<1>2. cs.start <= cs.next
  BY Zenon DEF Positioned
<1>3. Positioned(nu, lg, rg)
  BY <1>1, <1>2 DEF Positioned
<1>4. more = Append(got, m)
  BY Zenon
<1>5. /\ \A i, j \in 1..L : i < j => got[i] < got[j]
      /\ {got[i] : i \in 1..L} =
           {n \in 1..Len(lg) : n > cs.start /\ n <= cs.next /\ lg[n].coll \in cs.scope}
  BY Zenon DEF Complete
<1> HIDE DEF got, more
<1>6. /\ L \in Nat /\ Len(more) = L + 1 /\ more[L + 1] = m
      /\ \A i \in 1..L : more[i] = got[i]
  BY <1>1, <1>4
<1> HIDE DEF L
<1>7. \A i \in 1..L : got[i] \in 1..Len(lg) /\ got[i] <= cs.next
  BY <1>5, Zenon
<1>8. ASSUME NEW i \in 1..Len(more), NEW j \in 1..Len(more), i < j
      PROVE  more[i] < more[j]
  <2>1. i \in 1..L
    BY <1>6, <1>8
  <2>2. CASE j \in 1..L
    BY <2>1, <2>2, <1>5, <1>6, <1>8, Zenon
  <2>3. CASE j = L + 1
    BY <2>1, <2>3, <1>1, <1>6, <1>7
  <2> QED BY <2>2, <2>3, <1>6
<1>9. ASSUME NEW n
      PROVE  (\E i \in 1..Len(more) : n = more[i])
             <=> (n \in 1..Len(lg) /\ n > nu.start /\ n <= nu.next /\ lg[n].coll \in nu.scope)
  <2>1. (\E i \in 1..Len(more) : n = more[i]) <=> n = m \/ \E i \in 1..L : n = got[i]
    <3>1. \A i \in 1..Len(more) : i \in 1..L \/ i = L + 1
      BY <1>6
    <3>2. \A i \in 1..L : i \in 1..Len(more)
      BY <1>6
    <3>3. L + 1 \in 1..Len(more)
      BY <1>6
    <3> QED BY <3>1, <3>2, <3>3, <1>6, Zenon
  <2>2. (\E i \in 1..L : n = got[i]) <=> n \in {got[i] : i \in 1..L}
    BY Zenon
  <2>3. (\E i \in 1..L : n = got[i])
        <=> (n \in 1..Len(lg) /\ n > cs.start /\ n <= cs.next /\ lg[n].coll \in cs.scope)
    BY <2>2, <1>5, Zenon
  <2>4. CASE n = m
    BY <2>1, <2>4, <1>1, <1>2
  <2>5. CASE n # m
    BY <2>1, <2>3, <2>5, <1>1, <1>2
  <2> QED BY <2>4, <2>5, Zenon
<1>10. {more[i] : i \in 1..Len(more)} =
         {n \in 1..Len(lg) : n > nu.start /\ n <= nu.next /\ lg[n].coll \in nu.scope}
  <2> DEFINE A == {more[i] : i \in 1..Len(more)}
             B == {n \in 1..Len(lg) :
                    n > nu.start /\ n <= nu.next /\ lg[n].coll \in nu.scope}
  <2>1. \A n : n \in A <=> \E i \in 1..Len(more) : n = more[i]
    BY Zenon
  <2>2. \A n : n \in B <=>
          n \in 1..Len(lg) /\ n > nu.start /\ n <= nu.next /\ lg[n].coll \in nu.scope
    BY Zenon
  <2> HIDE DEF A, B
  <2>3. \A n : n \in A <=> n \in B
    BY <2>1, <2>2, <1>9, ZenonT(60)
  <2>4. A = B
    BY <2>3, Zenon
  <2> QED BY <2>4, Zenon DEF A, B
<1> QED BY <1>3, <1>8, <1>10, Zenon DEF Complete, more

\* A nonempty set of places in a sequence has a first.
LEMMA FirstPlace ==
  ASSUME NEW H, NEW n \in Nat, H \subseteq 1..n, H # {}
  PROVE  LET hit == CHOOSE i \in H : \A j \in H : i <= j
         IN  hit \in H /\ \A j \in H : hit <= j
<1>1. H \in SUBSET Nat
  OBVIOUS
<1>2. PICK i \in H : \A j \in H : ~ (<<j, i>> \in OpToRel(<, Nat))
  BY <1>1, WFMin, NatLessThanWellFounded, Zenon
<1>3. ASSUME NEW j \in H, ~(i <= j)
      PROVE  FALSE
  <2>1. j \in Nat /\ i \in Nat /\ j < i
    BY <1>1, <1>3
  <2>2. <<j, i>> \in OpToRel(<, Nat)
    BY <2>1, Zenon DEF OpToRel
  <2> QED BY <2>2, <1>2, Zenon
<1> QED BY <1>3, Zenon

\* One scan: the events between the position it starts from and the one it leaves
\* are in the buffer, so none of them is passed over.
LEMMA ScannedOK ==
  ASSUME FInv, NEW s \in Streams, stream[s].st = "ready"
  PROVE  /\ scanned(stream[s]) \in StreamTypes
         /\ Complete(scanned(stream[s]), log) /\ Positioned(scanned(stream[s]), log, ring)
         /\ scanned(stream[s]).err = "resume" => scanned(stream[s]).st = "ended"
<1> DEFINE cs == stream[s]
           nu == scanned(cs)
           off == Len(log) - Len(ring)
           evs == since(cs.next)
           hits == {i \in evs : ring[i].coll \in cs.scope}
           hit == CHOOSE i \in hits : \A j \in hits : i <= j
<1>1. log \in Seq(Events) /\ ring \in Seq(Events) /\ cs \in StreamTypes
  BY Zenon DEF FInv, TypeOK, StreamTypes
<1>2. Len(log) \in Nat /\ Len(ring) \in Nat /\ off \in Nat /\ off + Len(ring) = Len(log)
  <2>1. FeedCapacity \in Nat /\ Len(log) \in Nat
    BY <1>1, ChangeFeedAssumption
  <2> QED BY <2>1, <1>1 DEF FInv, IsTail
<1>3. cs.next \in Nat /\ cs.start \in Nat /\ MaxEvents \in Nat
  BY <1>1, ChangeFeedAssumption, Zenon DEF StreamTypes
<1>4. Complete(cs, log) /\ Positioned(cs, log, ring) /\ cs.err # "resume"
  BY Zenon DEF FInv, StreamsOK
<1> HIDE DEF off
<1>5. ASSUME NEW i \in 1..Len(ring)
      PROVE  off + i \in 1..Len(log) /\ ring[i] = log[off + i] /\ ring[i].seq = off + i
  <2>1. off + i \in 1..Len(log)
    BY <1>2
  <2>2. ring[i] = log[off + i]
    BY Zenon DEF FInv, IsTail, off
  <2> QED BY <2>1, <2>2, Zenon DEF FInv, Numbered
<1>6. \A i \in evs : i \in 1..Len(ring) /\ ring[i].seq > cs.next
  BY Zenon DEF since
<1>7. \A i \in 1..Len(ring) : ring[i].seq > cs.next => i \in evs
  BY Zenon DEF since
<1>8. ASSUME ~missed(cs.next), NEW n \in 1..Len(log), n > cs.next, ring # << >>
      PROVE  n - off \in evs /\ ring[n - off] = log[n]
  <2>1. Len(ring) >= 1
    BY <1>1, <1>8
  <2>2. cs.next + 1 >= off + 1
    <3>1. ~(cs.next + 1 < ring[1].seq)
      BY <1>8, Zenon DEF missed
    <3>2. ring[1].seq = off + 1
      BY <2>1, <1>2, <1>5
    <3> QED BY <3>1, <3>2, <1>2, <1>3
  <2>3. n - off \in 1..Len(ring) /\ off + (n - off) = n
    BY <2>2, <1>2, <1>3, <1>8
  <2> QED BY <2>3, <1>5, <1>7, <1>8, Zenon
<1>9. CASE missed(cs.next)
  <2>1. nu = [cs EXCEPT !.err = "resume", !.st = "ended"]
    BY <1>9, Zenon DEF scanned
  <2>2. cs.next + 1 <= off
    <3>1. Len(ring) >= 1
      BY <1>1, <1>9 DEF missed
    <3>2. ring[1].seq = off + 1 /\ cs.next + 1 < ring[1].seq
      BY <3>1, <1>2, <1>5, <1>9 DEF missed
    <3> QED BY <3>2, <1>2, <1>3
  <2>3. /\ nu \in StreamTypes /\ nu.st = "ended"
        /\ nu.scope = cs.scope /\ nu.next = cs.next /\ nu.start = cs.start /\ nu.got = cs.got
    BY <2>1, <1>1, Zenon DEF StreamTypes
  <2> QED BY <2>2, <2>3, <1>4 DEF Complete, Positioned, off
<1>10. CASE ~missed(cs.next) /\ hits # {}
  <2>1. hits \subseteq 1..Len(ring)
    BY <1>6, Zenon
  <2> HIDE DEF hits
  <2>2. hit \in hits /\ \A j \in hits : hit <= j
    BY <2>1, <1>2, <1>10, FirstPlace, Zenon
  <2> DEFINE m == ring[hit].seq
  <2>3. nu = [cs EXCEPT !.next = m, !.got = Append(cs.got, m),
                        !.invalid = (ring[hit].doc = DropOp /\ cs.scope # Colls)]
    BY <1>10, Zenon DEF scanned, hits
  <2> HIDE DEF hit
  <2>4. hit \in evs /\ hit \in 1..Len(ring) /\ ring[hit].coll \in cs.scope
    BY <2>2, <1>6, Zenon DEF hits
  <2>5. m = off + hit /\ m \in 1..Len(log) /\ log[m].coll \in cs.scope /\ m > cs.next
    BY <2>4, <1>5, <1>6, Zenon
  <2>6. m \in 1..MaxEvents
    <3>1. ring[hit] \in Events
      BY <2>4, <1>1
    <3> QED BY <3>1, Zenon DEF Events
  <2> HIDE DEF m, nu, cs
  <2>7. /\ nu \in StreamTypes /\ nu.scope = cs.scope /\ nu.start = cs.start
        /\ nu.got = Append(cs.got, m) /\ nu.next = m /\ nu.err = cs.err
    <3> DEFINE inv == (ring[hit].doc = DropOp /\ cs.scope # Colls)
    <3>1. inv \in BOOLEAN
      BY Zenon
    <3> HIDE DEF inv
    <3>2. m \in Nat /\ Append(cs.got, m) \in Seq(1..MaxEvents)
      BY <2>6, <1>1, <1>3 DEF StreamTypes
    <3>3. nu = [cs EXCEPT !.next = m, !.got = Append(cs.got, m), !.invalid = inv]
      BY <2>3, Zenon DEF inv
    <3> QED BY <3>1, <3>2, <3>3, <1>1, Zenon DEF StreamTypes
  <2>8. \A n \in 1..Len(log) : n > cs.next /\ n < m => log[n].coll \notin cs.scope
    <3> SUFFICES ASSUME NEW n \in 1..Len(log), n > cs.next, n < m, log[n].coll \in cs.scope
                 PROVE  FALSE
      BY Zenon
    <3>1. ring # << >>
      BY <2>4, <1>2
    <3>2. n - off \in evs /\ ring[n - off] = log[n]
      BY <3>1, <1>8, <1>10, Zenon
    <3>3. n - off \in hits
      BY <3>2, Zenon DEF hits
    <3>4. hit <= n - off
      BY <2>2, <3>3, Zenon
    <3> QED BY <3>4, <2>4, <2>5, <1>2
  <2>9. nu.err # "resume" /\ cs.next < m
    BY <2>5, <2>7, <1>3, <1>4, Zenon
  <2>10. Complete(nu, log) /\ Positioned(nu, log, ring)
    BY <2>5, <2>7, <2>8, <2>9, <1>1, <1>4, StreamDelivers, Zenon
  <2> QED BY <2>7, <2>9, <2>10, Zenon DEF nu, cs
<1>11. CASE ~missed(cs.next) /\ hits = {} /\ evs = {}
  <2>1. nu = [cs EXCEPT !.next = cs.next, !.st = "scanned"]
    BY <1>11, Zenon DEF scanned
  <2>2. /\ nu \in StreamTypes /\ nu.err = cs.err
        /\ nu.scope = cs.scope /\ nu.next = cs.next /\ nu.start = cs.start /\ nu.got = cs.got
    BY <2>1, <1>1, Zenon DEF StreamTypes
  <2> QED BY <2>2, <1>4, Zenon DEF Complete, Positioned
<1>12. CASE ~missed(cs.next) /\ hits = {} /\ evs # {}
  <2>1. nu = [cs EXCEPT !.next = ring[Len(ring)].seq, !.st = "scanned"]
    BY <1>12, Zenon DEF scanned
  <2>2. PICK i \in 1..Len(ring) : ring[i].seq > cs.next
    BY <1>6, <1>12, Zenon
  <2>3. ring[Len(ring)].seq = Len(log) /\ cs.next <= Len(log)
    <3>1. Len(ring) \in 1..Len(ring)
      BY <1>2
    <3>2. ring[Len(ring)].seq = off + Len(ring)
      BY <3>1, <1>5, Zenon
    <3>3. ring[i].seq = off + i
      BY <1>5, Zenon
    <3> QED BY <2>2, <3>2, <3>3, <1>2, <1>3
  <2>4. nu = [cs EXCEPT !.next = Len(log), !.st = "scanned"]
    BY <2>1, <2>3, Zenon
  <2> HIDE DEF nu, cs
  <2>5. /\ nu \in StreamTypes /\ nu.err = cs.err
        /\ nu.scope = cs.scope /\ nu.next = Len(log) /\ nu.start = cs.start /\ nu.got = cs.got
    BY <2>4, <1>1, <1>2, Zenon DEF StreamTypes
  <2>6. ASSUME NEW n \in 1..Len(log), n > cs.next
        PROVE  log[n].coll \notin cs.scope
    <3>1. ring # << >>
      BY <2>2, <1>2
    <3>2. n - off \in evs /\ ring[n - off] = log[n]
      BY <3>1, <2>6, <1>8, <1>12, Zenon
    <3> QED BY <3>2, <1>12, Zenon
  <2>7. nu.next <= Len(log) /\ cs.next <= nu.next
    BY <2>3, <2>5, <1>2
  <2>8. nu.err # "resume"
    BY <2>5, <1>4, Zenon
  <2>9. Complete(nu, log) /\ Positioned(nu, log, ring)
    BY <2>5, <2>6, <2>7, <2>8, <1>1, <1>4, StreamMovesOn, Zenon
  <2> QED BY <2>5, <2>8, <2>9, Zenon DEF nu, cs
<1> QED BY <1>9, <1>10, <1>11, <1>12, Zenon

\* A step of one stream: the others, the log and the ring stay as they are.
LEMMA OneStream ==
  ASSUME FInv, NEW s \in Streams, NEW nu \in StreamTypes,
         stream' = [stream EXCEPT ![s] = nu], ring' = ring, log' = log,
         Complete(nu, log), Positioned(nu, log, ring), nu.err = "resume" => nu.st = "ended"
  PROVE  stream' \in [Streams -> StreamTypes] /\ StreamsOK'
<1>1. stream \in [Streams -> StreamTypes]
  BY Zenon DEF FInv, TypeOK, StreamTypes
<1>2. stream' \in [Streams -> StreamTypes]
  BY <1>1, Zenon
<1>3. ASSUME NEW u \in Streams
      PROVE  /\ Complete(stream'[u], log) /\ Positioned(stream'[u], log, ring)
             /\ stream'[u].err = "resume" => stream'[u].st = "ended"
  <2>1. stream'[u] = IF u = s THEN nu ELSE stream[u]
    BY <1>1, Zenon
  <2>2. /\ Complete(stream[u], log) /\ Positioned(stream[u], log, ring)
        /\ stream[u].err = "resume" => stream[u].st = "ended"
    BY Zenon DEF FInv, StreamsOK
  <2>3. CASE u = s
    BY <2>1, <2>3, Zenon
  <2>4. CASE u # s
    BY <2>1, <2>2, <2>4, Zenon
  <2> QED BY <2>3, <2>4, Zenon
<1> QED BY <1>2, <1>3, Zenon DEF StreamsOK

LEMMA NoStreamFresh ==
  NoStream \in StreamTypes /\ NoStream.got = << >> /\ NoStream.start = NoStream.next
  /\ NoStream.err = "nil"
BY DEF NoStream, StreamTypes

LEMMA IdleWriterTyped ==
  /\ IdleWriter \in [at : {"idle", "open", "committed"}, coll : Colls,
                     doc : Docs \cup {NoDoc}, cv : Nat]
  /\ IdleWriter.at = "idle"
BY ChangeFeedAssumption, Zenon DEF IdleWriter

\* The feed holds nothing and no stream is open.
LEMMA FInit == Init => FInv
<1> SUFFICES ASSUME Init PROVE FInv
  BY Zenon
<1>1. TypeOK
  <2>1. stream \in [Streams -> StreamTypes]
    BY NoStreamFresh, Zenon DEF Init
  <2>2. writer \in [Writers -> [at : {"idle", "open", "committed"}, coll : Colls,
                                doc : Docs \cup {NoDoc}, cv : Nat]]
    BY IdleWriterTyped, Zenon DEF Init
  <2>3. /\ log \in Seq(Events) /\ ring \in Seq(Events) /\ Len(ring) <= FeedCapacity
        /\ watches \in 0..MaxWatches
    BY ChangeFeedAssumption DEF Init
  <2> QED BY <2>1, <2>2, <2>3, Zenon DEF Init, TypeOK, StreamTypes
<1>2. IsTail(ring, log) /\ Numbered(log)
  BY ChangeFeedAssumption DEF Init, IsTail, Numbered
<1>3. WritersOK
  BY IdleWriterTyped, Zenon DEF Init, WritersOK
<1>4. StreamsOK
  <2> SUFFICES ASSUME NEW s \in Streams
               PROVE  /\ Complete(stream[s], log) /\ Positioned(stream[s], log, ring)
                      /\ stream[s].err = "resume" => stream[s].st = "ended"
    BY Zenon DEF StreamsOK
  <2>1. stream[s] = NoStream /\ log \in Seq(Events) /\ ring \in Seq(Events)
    BY DEF Init
  <2>2. Complete(NoStream, log) /\ Positioned(NoStream, log, ring)
    BY <2>1, NoStreamFresh, FreshStream, Zenon
  <2> QED BY <2>1, <2>2, NoStreamFresh, Zenon
<1> QED BY <1>1, <1>2, <1>3, <1>4, Zenon DEF FInv

\* publish within a step of a writer or a drop.
LEMMA PublishStep ==
  ASSUME FInv, NEW coll \in Colls, NEW doc \in Docs \cup {DropOp}, NEW cv \in Nat,
         publish(coll, doc, cv), UNCHANGED stream
  PROVE  /\ log' \in Seq(Events) /\ ring' \in Seq(Events)
         /\ Len(ring') <= FeedCapacity /\ wake' \subseteq Streams
         /\ IsTail(ring', log') /\ Numbered(log') /\ StreamsOK'
<1> DEFINE new == log'
           held == ring'
<1>1. /\ new \in Seq(Events) /\ held \in Seq(Events)
      /\ Len(held) <= FeedCapacity /\ wake' \subseteq Streams
      /\ Len(new) = Len(log) + 1
      /\ \A n \in 1..Len(log) : new[n] = log[n]
      /\ Len(log) - Len(ring) <= Len(new) - Len(held)
      /\ IsTail(held, new) /\ Numbered(new)
  BY PublishKeeps, Zenon
<1> HIDE DEF new, held
<1>2. ASSUME NEW s \in Streams
      PROVE  /\ Complete(stream[s], new) /\ Positioned(stream[s], new, held)
             /\ stream[s].err = "resume" => stream[s].st = "ended"
  <2>1. stream[s] \in StreamTypes /\ log \in Seq(Events) /\ ring \in Seq(Events)
    BY Zenon DEF FInv, TypeOK, StreamTypes
  <2>2. /\ Complete(stream[s], log) /\ Positioned(stream[s], log, ring)
        /\ stream[s].err = "resume" => stream[s].st = "ended"
    BY Zenon DEF FInv, StreamsOK
  <2>3. Complete(stream[s], new) /\ Positioned(stream[s], new, held)
    BY <2>1, <2>2, <1>1, StreamSurvivesPublish, Zenon
  <2> QED BY <2>2, <2>3, Zenon
<1> QED BY <1>1, <1>2, Zenon DEF StreamsOK, new, held

\* Every step keeps the invariant.
LEMMA FStep == FInv /\ [Next]_vars => FInv'
<1> SUFFICES ASSUME FInv, [Next]_vars PROVE FInv'
  BY Zenon
<1> DEFINE WriterTypes == [at : {"idle", "open", "committed"}, coll : Colls,
                           doc : Docs \cup {NoDoc}, cv : Nat]
<1>a. TypeOK /\ IsTail(ring, log) /\ Numbered(log) /\ WritersOK /\ StreamsOK
  BY Zenon DEF FInv
<1>b. /\ commitVer \in Nat /\ watches \in 0..MaxWatches /\ writer \in [Writers -> WriterTypes]
      /\ dropped \subseteq Colls /\ wake \subseteq Streams
      /\ log \in Seq(Events) /\ ring \in Seq(Events) /\ Len(ring) <= FeedCapacity
      /\ stream \in [Streams -> StreamTypes]
  BY <1>a, Zenon DEF TypeOK, StreamTypes
<1>c. ASSUME /\ commitVer' \in Nat /\ watches' \in 0..MaxWatches
             /\ writer' \in [Writers -> WriterTypes]
             /\ dropped' \subseteq Colls /\ wake' \subseteq Streams
             /\ log' \in Seq(Events) /\ ring' \in Seq(Events) /\ Len(ring') <= FeedCapacity
             /\ stream' \in [Streams -> StreamTypes]
             /\ IsTail(ring', log') /\ Numbered(log') /\ WritersOK' /\ StreamsOK'
      PROVE  FInv'
  BY <1>c, Zenon DEF FInv, TypeOK, StreamTypes
<1>d. ASSUME NEW s \in Streams, NEW nu \in StreamTypes,
             stream' = [stream EXCEPT ![s] = nu],
             UNCHANGED <<commitVer, writer, dropped, ring, log>>,
             wake' \subseteq Streams, watches' \in 0..MaxWatches,
             Complete(nu, log), Positioned(nu, log, ring),
             nu.err = "resume" => nu.st = "ended"
      PROVE  FInv'
  <2>1. stream' \in [Streams -> StreamTypes] /\ StreamsOK'
    BY <1>d, OneStream, Zenon
  <2>2. WritersOK'
    BY <1>a, <1>d, Zenon DEF WritersOK
  <2> QED BY <2>1, <2>2, <1>a, <1>b, <1>c, <1>d, Zenon
<1>e. ASSUME UNCHANGED <<ring, log, stream>>
      PROVE  StreamsOK'
  BY <1>a, <1>e, Zenon DEF StreamsOK
<1> HIDE DEF WriterTypes
<1>1. ASSUME NEW w \in Writers, NEW coll \in Colls, Begin(w, coll)
      PROVE  FInv'
  <2> DEFINE nw == [IdleWriter EXCEPT !.at = "open", !.coll = coll]
  <2>1. nw \in WriterTypes /\ nw.at = "open"
    BY IdleWriterTyped, Zenon DEF WriterTypes
  <2> HIDE DEF nw
  <2>2. writer' = [writer EXCEPT ![w] = nw] /\ UNCHANGED <<commitVer, dropped, ring, wake, stream, watches, log>>
    BY <1>1, Zenon DEF Begin, nw
  <2>3. writer' \in [Writers -> WriterTypes] /\ WritersOK'
    BY <2>1, <2>2, <1>a, <1>b, Zenon DEF WritersOK
  <2> QED BY <2>2, <2>3, <1>a, <1>b, <1>c, <1>e, Zenon
<1>2. ASSUME NEW w \in Writers, NEW doc \in Docs, Commit(w, doc)
      PROVE  FInv'
  <2> DEFINE cv == commitVer + 1
             nw == [writer[w] EXCEPT !.at = "committed", !.doc = doc, !.cv = cv]
  <2>1. cv \in Nat
    BY <1>b
  <2>2. writer' = [writer EXCEPT ![w] = nw] /\ commitVer' = cv
        /\ UNCHANGED <<dropped, ring, wake, stream, watches, log>>
    BY <1>2, <1>b, Zenon DEF Commit
  <2> HIDE DEF cv
  <2>3. nw \in WriterTypes /\ nw.doc \in Docs
    BY <2>1, <1>b, Zenon DEF WriterTypes
  <2> HIDE DEF nw
  <2>4. writer' \in [Writers -> WriterTypes] /\ WritersOK'
    BY <2>2, <2>3, <1>a, <1>b, Zenon DEF WritersOK
  <2> QED BY <2>1, <2>2, <2>4, <1>a, <1>b, <1>c, <1>e, Zenon
<1>3. ASSUME NEW w \in Writers, fireChange(w)
      PROVE  FInv'
  <2>1. /\ writer[w].coll \in Colls /\ writer[w].cv \in Nat
        /\ writer[w].doc \in Docs \cup {DropOp}
    BY <1>3, <1>a, <1>b, Zenon DEF fireChange, WritersOK, WriterTypes
  <2>2. /\ publish(writer[w].coll, writer[w].doc, writer[w].cv)
        /\ writer' = [writer EXCEPT ![w] = IdleWriter]
        /\ UNCHANGED <<commitVer, dropped, stream, watches>>
    BY <1>3, Zenon DEF fireChange
  <2>3. /\ log' \in Seq(Events) /\ ring' \in Seq(Events)
        /\ Len(ring') <= FeedCapacity /\ wake' \subseteq Streams
        /\ IsTail(ring', log') /\ Numbered(log') /\ StreamsOK'
    BY <2>1, <2>2, PublishStep, Zenon
  <2>4. writer' \in [Writers -> WriterTypes] /\ WritersOK'
    BY <2>2, <1>a, <1>b, IdleWriterTyped, Zenon DEF WritersOK, WriterTypes
  <2> QED BY <2>2, <2>3, <2>4, <1>b, <1>c, Zenon
<1>4. ASSUME NEW coll \in Colls, DropCollection(coll)
      PROVE  FInv'
  <2>1. /\ publish(coll, DropOp, commitVer) /\ dropped' = dropped \cup {coll}
        /\ UNCHANGED <<commitVer, writer, stream, watches>>
    BY <1>4, Zenon DEF DropCollection
  <2>2. DropOp \in Docs \cup {DropOp}
    BY Zenon
  <2>3. /\ log' \in Seq(Events) /\ ring' \in Seq(Events)
        /\ Len(ring') <= FeedCapacity /\ wake' \subseteq Streams
        /\ IsTail(ring', log') /\ Numbered(log') /\ StreamsOK'
    BY <2>1, <2>2, <1>b, PublishStep, Zenon
  <2>4. WritersOK'
    BY <2>1, <1>a, Zenon DEF WritersOK
  <2> QED BY <2>1, <2>3, <2>4, <1>b, <1>c, Zenon
<1>5. ASSUME NEW s \in Streams, watch(s)
      PROVE  FInv'
  <2>1. PICK scope \in {Colls} \cup {{coll} : coll \in Colls}, tok \in {seq} \cup 1..(seq + 1) :
          stream' = [stream EXCEPT ![s] = [NoStream EXCEPT !.st = "ready", !.scope = scope,
                                                           !.next = tok, !.start = tok]]
    BY <1>5, Zenon DEF watch
  <2>2. /\ UNCHANGED <<commitVer, writer, dropped, ring, log>>
        /\ wake' = wake \ {s} /\ watches' = watches + 1 /\ watches < MaxWatches
    BY <1>5, Zenon DEF watch
  <2>3. scope \subseteq Colls /\ tok \in Nat
    BY <1>b DEF seq
  <2> DEFINE nu == [NoStream EXCEPT !.st = "ready", !.scope = scope,
                                    !.next = tok, !.start = tok]
  <2>4. nu \in StreamTypes /\ nu.got = << >> /\ nu.start = nu.next /\ nu.err = "nil"
    BY <2>3, NoStreamFresh, Zenon DEF StreamTypes
  <2> HIDE DEF nu
  <2>5. Complete(nu, log) /\ Positioned(nu, log, ring)
    BY <2>4, <1>b, FreshStream, Zenon
  <2>6. watches' \in 0..MaxWatches /\ wake' \subseteq Streams
    BY <2>2, <1>b, ChangeFeedAssumption
  <2>7. stream' = [stream EXCEPT ![s] = nu]
    BY <2>1, Zenon DEF nu
  <2> QED BY <2>2, <2>4, <2>5, <2>6, <2>7, <1>d, Zenon
<1>6. ASSUME NEW s \in Streams, Next_(s)
      PROVE  FInv'
  <2>1. /\ stream[s].st = "ready" /\ UNCHANGED <<commitVer, writer, dropped, ring, log, wake, watches>>
        /\ stream' = [stream EXCEPT ![s] =
             IF stream[s].invalid
             THEN [stream[s] EXCEPT !.invalid = FALSE, !.st = "ended", !.err = "invalidated"]
             ELSE scanned(stream[s])]
    BY <1>6, Zenon DEF Next_
  <2>2. CASE stream[s].invalid
    <3> DEFINE nu == [stream[s] EXCEPT !.invalid = FALSE, !.st = "ended", !.err = "invalidated"]
    <3>1. stream' = [stream EXCEPT ![s] = nu]
      BY <2>1, <2>2, Zenon
    <3>2. /\ nu \in StreamTypes /\ nu.err = "invalidated" /\ nu.scope = stream[s].scope
          /\ nu.next = stream[s].next /\ nu.start = stream[s].start /\ nu.got = stream[s].got
      BY <1>b, Zenon DEF StreamTypes
    <3> HIDE DEF nu
    <3>3. Complete(nu, log) /\ Positioned(nu, log, ring)
      BY <3>2, <1>a, OtherFields, Zenon DEF StreamsOK
    <3> QED BY <3>1, <3>2, <3>3, <2>1, <1>b, <1>d, Zenon
  <2>3. CASE ~stream[s].invalid
    <3> DEFINE nu == scanned(stream[s])
    <3>1. stream' = [stream EXCEPT ![s] = nu]
      BY <2>1, <2>3, Zenon
    <3>2. /\ nu \in StreamTypes /\ Complete(nu, log) /\ Positioned(nu, log, ring)
          /\ nu.err = "resume" => nu.st = "ended"
      BY <2>1, ScannedOK, Zenon
    <3> HIDE DEF nu
    <3> QED BY <3>1, <3>2, <2>1, <1>b, <1>d, Zenon
  <2> QED BY <2>2, <2>3, Zenon
<1>7. ASSUME NEW s \in Streams, NEW st \in {"ready", "waiting", "ended"}, NEW err \in {"nil", "ctx"},
             stream[s].st \in {"scanned", "waiting"},
             stream' = [stream EXCEPT ![s] = [stream[s] EXCEPT !.st = st, !.err = err]]
             \/ stream' = [stream EXCEPT ![s] = [stream[s] EXCEPT !.st = st]],
             UNCHANGED <<commitVer, writer, dropped, ring, log, watches>>,
             wake' \subseteq Streams
      PROVE  FInv'
  <2>1. /\ stream[s] \in StreamTypes /\ Complete(stream[s], log)
        /\ Positioned(stream[s], log, ring) /\ stream[s].err # "resume"
    BY <1>7, <1>a, <1>b, Zenon DEF StreamsOK
  <2>2. PICK nu \in {[stream[s] EXCEPT !.st = st, !.err = err], [stream[s] EXCEPT !.st = st]} :
          stream' = [stream EXCEPT ![s] = nu]
    BY <1>7, Zenon
  <2>3. /\ nu \in StreamTypes /\ nu.err # "resume" /\ nu.scope = stream[s].scope
        /\ nu.next = stream[s].next /\ nu.start = stream[s].start /\ nu.got = stream[s].got
    BY <2>1, <2>2, Zenon DEF StreamTypes
  <2>4. Complete(nu, log) /\ Positioned(nu, log, ring)
    BY <2>1, <2>3, OtherFields, Zenon
  <2> QED BY <2>2, <2>3, <2>4, <1>7, <1>b, <1>d, Zenon
<1>8. ASSUME NEW s \in Streams, block(s)
      PROVE  FInv'
  <2>1. PICK st \in {"waiting", "ready"} : stream' = [stream EXCEPT ![s].st = st]
    BY <1>8, Zenon DEF block
  <2>2. stream' = [stream EXCEPT ![s] = [stream[s] EXCEPT !.st = st]]
    BY <2>1, <1>b, Zenon
  <2>3. /\ stream[s].st = "scanned"
        /\ UNCHANGED <<commitVer, writer, dropped, ring, wake, watches, log>>
    BY <1>8, Zenon DEF block
  <2> QED BY <2>2, <2>3, <1>7, <1>b, Zenon
<1>9. ASSUME NEW s \in Streams, woken(s)
      PROVE  FInv'
  <2>1. /\ stream[s].st = "waiting" /\ wake' = wake \ {s}
        /\ stream' = [stream EXCEPT ![s].st = "ready"]
        /\ UNCHANGED <<commitVer, writer, dropped, ring, watches, log>>
    BY <1>9, Zenon DEF woken
  <2>2. stream' = [stream EXCEPT ![s] = [stream[s] EXCEPT !.st = "ready"]]
    BY <2>1, <1>b, Zenon
  <2> QED BY <2>1, <2>2, <1>7, <1>b, Zenon
<1>10. ASSUME NEW s \in Streams, cancel(s)
       PROVE  FInv'
  <2>1. /\ stream[s].st = "waiting"
        /\ stream' = [stream EXCEPT ![s].st = "ended", ![s].err = "ctx"]
        /\ UNCHANGED <<commitVer, writer, dropped, ring, wake, watches, log>>
    BY <1>10, Zenon DEF cancel
  <2>2. stream' = [stream EXCEPT ![s] = [stream[s] EXCEPT !.st = "ended", !.err = "ctx"]]
    BY <2>1, <1>b, Zenon
  <2> QED BY <2>1, <2>2, <1>7, <1>b, Zenon
<1>11. ASSUME NEW s \in Streams, Close(s)
       PROVE  FInv'
  <2>1. /\ stream' = [stream EXCEPT ![s] = NoStream]
        /\ UNCHANGED <<commitVer, writer, dropped, ring, wake, watches, log>>
    BY <1>11, Zenon DEF Close
  <2>2. Complete(NoStream, log) /\ Positioned(NoStream, log, ring)
    BY <1>b, NoStreamFresh, FreshStream, Zenon
  <2> QED BY <2>1, <2>2, <1>b, <1>d, NoStreamFresh, Zenon
<1>12. CASE UNCHANGED vars
  <2>1. WritersOK' /\ StreamsOK'
    BY <1>12, <1>a, Zenon DEF vars, WritersOK, StreamsOK
  <2> QED BY <2>1, <1>12, <1>a, <1>b, <1>c, Zenon DEF vars
<1> QED BY <1>1, <1>2, <1>3, <1>4, <1>5, <1>6, <1>8, <1>9, <1>10, <1>11, <1>12, Zenon
        DEF Next, Finished

\* The promise follows: what was delivered is what was due, and the event after
\* the position of a stream that is told to start over is older than the ring.
LEMMA FInvIsHonest == FInv => StreamsAreHonest
<1> SUFFICES ASSUME FInv PROVE StreamsAreHonest
  BY Zenon
<1>1. DeliversEverything
  BY Zenon DEF FInv, StreamsOK, Complete, DeliversEverything, seq
<1>2. ASSUME NEW s \in Streams, stream[s].err = "resume"
      PROVE  /\ stream[s].next < seq
             /\ \A i \in 1..Len(ring) : ring[i].seq # stream[s].next + 1
  <2>1. log \in Seq(Events) /\ ring \in Seq(Events) /\ stream[s] \in StreamTypes
    BY Zenon DEF FInv, TypeOK, StreamTypes
  <2>2. /\ stream[s].next \in Nat /\ Len(log) \in Nat /\ Len(ring) \in Nat
        /\ FeedCapacity \in Nat
    BY <2>1, ChangeFeedAssumption DEF StreamTypes
  <2>3. stream[s].next + 1 <= Len(log) - Len(ring)
    BY <1>2, Zenon DEF FInv, StreamsOK, Positioned
  <2>4. Len(ring) <= Len(log)
    BY <2>2 DEF FInv, IsTail
  <2>5. ASSUME NEW i \in 1..Len(ring)
        PROVE  ring[i].seq # stream[s].next + 1
    <3>1. Len(log) - Len(ring) + i \in 1..Len(log)
      BY <2>2, <2>4
    <3>2. ring[i].seq = Len(log) - Len(ring) + i
      BY <3>1, Zenon DEF FInv, IsTail, Numbered
    <3> QED BY <3>2, <2>2, <2>3
  <2> QED BY <2>2, <2>3, <2>5 DEF seq
<1> QED BY <1>1, <1>2, Zenon DEF StreamsAreHonest, ResumeErrorIsHonest

\* The type invariant of the change feed holds in every behaviour of the feed, its
\* writers and its streams.
THEOREM FeedTypeCorrect == Spec => []TypeOK
<1>1. FInv => TypeOK
  BY Zenon DEF FInv
<1> QED BY FInit, FStep, <1>1, PTL DEF Spec

\* Whatever the capacity of the feed and however Next calls, publications, drops
\* and resumed tokens interleave, a stream has delivered exactly the events of its
\* scope between its start and its position, in order, and gets the resume error
\* only when the event after its position has been evicted.
THEOREM StreamsAlwaysHonest == Spec => []StreamsAreHonest
BY FInit, FStep, FInvIsHonest, PTL DEF Spec
=============================================================================
