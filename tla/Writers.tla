------------------------------ MODULE Writers -------------------------------
(* Callers of the write API running side by side: the one-call wrappers of   *)
(* collection/collection.go, sessions (collection/session.go, session.go),   *)
(* transactions over several collections (collection/multitxn.go), changes   *)
(* of the write policy and the TTL sweeper (collection/ttl.go).              *)
(*                                                                           *)
(* A call is [wrap, ops]: how its transaction is driven, and the operations  *)
(* it performs, each on a collection.  The overlay of module Collection is   *)
(* here the map of its newest documents, and a transaction keeps the map it  *)
(* began with.  The oracle keys a conflict by the overlay key alone, so two  *)
(* collections share it.  A scene is a little world: policies, documents,    *)
(* the calls clients make in it and the TTL specs.                           *)
EXTENDS Crud

CONSTANTS
    Clients,       \* goroutines
    Colls,         \* collections of the file
    Scenes,        \* name -> [pol, docs, calls, policies, specs, maxCalls], the
                   \* last a bound: calls made in the scene
    MaxRetries,    \* attempts of WithTransaction
    MaxPolicies    \* bound: policy changes

ASSUME WritersAssumption == MaxRetries \in Nat \ {0}

VARIABLES
    scene,     \* the name of the world
    pol,       \* per collection: its write policy
    docs,      \* per collection: overlay key -> newest document, live keys only
    keys,      \* per collection: overlay keys in first-insert order
    lastWrite, \* overlay key -> version of its last commit
    ver,       \* the commit version
    minted,    \* generated _ids
    run,       \* per client: the call it runs, or Idle
    done,      \* per client: the outcome of its last call
    sweep,     \* the sweeper
    acked,     \* acknowledged increments of the counters
    calls, changes

vars == <<scene, pol, docs, keys, lastWrite, ver, minted, run, done, sweep, acked, calls, changes>>

Idle == [wrap |-> "idle"]
NoOutcome == [wrap |-> "idle", err |-> "", tries |-> 0]
Resting == [phase |-> "rest"]

\* The sub-transaction of a collection at the current version (For).
subTxn(c) == [snap |-> docs[c], pending |-> <<>>, order |-> <<>>, keys |-> keys[c],
              pol |-> pol[c], bypass |-> FALSE, minted |-> minted]

begun(call, tries) ==
    [wrap |-> call.wrap, ops |-> call.ops, adds |-> call.adds, at |-> 1, tries |-> tries,
     start |-> ver, subs |-> [c \in Colls |-> subTxn(c)], err |-> "", out |-> Nothing]

Begin(p, call) ==
    /\ run[p] = Idle /\ calls < Scenes[scene].maxCalls
    /\ run' = [run EXCEPT ![p] = begun(call, 1)]
    /\ calls' = calls + 1
    /\ UNCHANGED <<scene, pol, docs, keys, lastWrite, ver, minted, done, sweep, acked, changes>>

\* The outcome is returned and the transaction is gone.
Return(p, err) ==
    /\ run' = [run EXCEPT ![p] = Idle]
    /\ done' = [done EXCEPT ![p] = [wrap |-> run[p].wrap, err |-> err,
                                     tries |-> run[p].tries]]

\* The next operation of the call, on the sub-transaction of its collection.
result(p) ==
    LET op == run[p].ops[run[p].at]
        sub == [run[p].subs[op.coll] EXCEPT !.keys = keys[op.coll], !.pol = pol[op.coll],
                                            !.minted = minted]
    IN  Perform(sub, op)

\* An error ends a single write or a session's closure with a rollback; a
\* batch commits what succeeded, and a caller that drives its own transaction
\* may go on.
Do(p) ==
    /\ run[p] # Idle /\ run[p].at <= Len(run[p].ops)
    /\ \E r \in {result(p)} :
         /\ minted' = r.t.minted
         /\ \/ /\ r.err # "" /\ run[p].wrap \in {"single", "session", "public"}
               /\ Return(p, r.err)
            \/ /\ r.err = "" \/ run[p].wrap \in {"batch", "manual"}
               /\ run' = [run EXCEPT ![p].subs[run[p].ops[run[p].at].coll] = r.t, ![p].at = @ + 1,
                                     ![p].err = r.err, ![p].out = r.out]
               /\ UNCHANGED done
    /\ UNCHANGED <<scene, pol, docs, keys, lastWrite, ver, sweep, acked, calls, changes>>

combinedWriteSet(subs) == UNION {writeSet(subs[c]) : c \in DOMAIN subs}
\* Mutant: the commit right after the snapshot does not conflict.
conflicts_next(start, written) ==
    \E k \in written : k \in DOMAIN lastWrite /\ lastWrite[k] > start + 1

conflicts(start, written) == \E k \in written : k \in DOMAIN lastWrite /\ lastWrite[k] > start

\* Publish every sub-transaction's writes under the next version.
install(subs) ==
    LET live(c) == {k \in DOMAIN docs[c] \cup writeSet(subs[c]) :
                      k \in writeSet(subs[c]) => subs[c].pending[k].doc # NoDoc}
        doc(c, k) == IF k \in writeSet(subs[c]) THEN subs[c].pending[k].doc ELSE docs[c][k]
        new(c) == SelectSeq(subs[c].order,
                     LAMBDA k : k \in writeSet(subs[c]) /\ ~Contains(keys[c], k))
        of(c) == IF c \in DOMAIN subs THEN new(c) ELSE <<>>
    IN  /\ docs' = [c \in Colls |-> IF c \in DOMAIN subs
                                    THEN [k \in live(c) |-> doc(c, k)] ELSE docs[c]]
        /\ keys' = [c \in Colls |-> keys[c] \o of(c)]
        /\ lastWrite' = [k \in combinedWriteSet(subs) |-> ver + 1] @@ lastWrite
        /\ ver' = ver + 1

Finished(p) == run[p] # Idle /\ run[p].at > Len(run[p].ops)

Commit(p) ==
    /\ Finished(p)
    /\ LET written == combinedWriteSet(run[p].subs)
       IN  IF written = {} THEN UNCHANGED <<docs, keys, lastWrite, ver>>
           ELSE ~conflicts(run[p].start, written) /\ install(run[p].subs)
    /\ acked' = acked + run[p].adds
    /\ Return(p, run[p].err)
    /\ UNCHANGED <<scene, pol, minted, sweep, calls, changes>>

\* WithTransaction of a collection session recognises the conflict; that of
\* a database session sees the CommandError mapTxnErr made of it, which does
\* not unwrap to a conflict, and gives up.
retries(p) == run[p].wrap = "session" /\ run[p].tries < MaxRetries

CommitConflict(p) ==
    /\ Finished(p) /\ conflicts(run[p].start, combinedWriteSet(run[p].subs))
    /\ IF retries(p)
       THEN run' = [run EXCEPT ![p] = begun(run[p], run[p].tries + 1)] /\ UNCHANGED done
       ELSE Return(p, "conflict")
    /\ UNCHANGED <<scene, pol, docs, keys, lastWrite, ver, minted, sweep, acked, calls, changes>>

\* AbortTransaction, EndSession.
Abort(p) ==
    /\ run[p] # Idle /\ run[p].wrap = "manual"
    /\ Return(p, "aborted")
    /\ UNCHANGED <<scene, pol, docs, keys, lastWrite, ver, minted, sweep, acked, calls, changes>>

SetPolicy(c, new) ==
    /\ changes < MaxPolicies /\ new # pol[c]
    /\ pol' = [pol EXCEPT ![c] = new]
    /\ changes' = changes + 1
    /\ UNCHANGED <<scene, docs, keys, lastWrite, ver, minted, run, done, sweep, acked, calls>>

-----------------------------------------------------------------------------
(* The TTL sweeper: a read pass collects the expired _ids of a collection,  *)
(* then each is deleted in a transaction of its own; a conflict skips it.   *)

SweepStart(c) ==
    /\ sweep = Resting /\ ~pol[c].capped
    /\ LET expired == collectExpired(subTxn(c), Scenes[scene].specs[c], Now)
       IN  /\ expired # <<>>
           /\ sweep' = [phase |-> "delete", coll |-> c, queue |-> expired]
    /\ UNCHANGED <<scene, pol, docs, keys, lastWrite, ver, minted, run, done, acked, calls, changes>>

SweepBegin ==
    /\ sweep.phase = "delete"
    /\ sweep' = [phase |-> "commit", coll |-> sweep.coll, queue |-> Tail(sweep.queue),
                 start |-> ver, sub |-> deleteTTL(subTxn(sweep.coll), Head(sweep.queue))]
    /\ UNCHANGED <<scene, pol, docs, keys, lastWrite, ver, minted, run, done, acked, calls, changes>>

SweepCommit ==
    /\ sweep.phase = "commit"
    /\ IF \/ writeSet(sweep.sub) = {}
          \/ conflicts(sweep.start, writeSet(sweep.sub))
       THEN UNCHANGED <<docs, keys, lastWrite, ver>>
       ELSE install(sweep.coll :> sweep.sub)
    /\ sweep' = IF sweep.queue = <<>> THEN Resting
                ELSE [phase |-> "delete", coll |-> sweep.coll, queue |-> sweep.queue]
    /\ UNCHANGED <<scene, pol, minted, run, done, acked, calls, changes>>

Init ==
    /\ scene \in DOMAIN Scenes
    /\ pol = Scenes[scene].pol
    /\ keys = [c \in Colls |-> LET ds == Scenes[scene].docs[c]
                               IN  [i \in 1..Len(ds) |-> overlayKey(IDOf(ds[i]))]]
    /\ docs = [c \in Colls |-> LET ds == Scenes[scene].docs[c]
                               IN  [k \in {overlayKey(IDOf(ds[i])) : i \in 1..Len(ds)} |->
                                      ds[CHOOSE i \in 1..Len(ds) : overlayKey(IDOf(ds[i])) = k]]]
    /\ lastWrite = <<>> /\ ver = 0 /\ minted = 0
    /\ run = [p \in Clients |-> Idle]
    /\ done = [p \in Clients |-> NoOutcome]
    /\ sweep = Resting
    /\ acked = 0 /\ calls = 0 /\ changes = 0

Sweeping == SweepBegin \/ SweepCommit \/ \E c \in Colls : SweepStart(c)

Next ==
    \/ \E p \in Clients :
          \/ \E call \in Scenes[scene].calls : Begin(p, call)
          \/ Do(p) \/ Commit(p) \/ CommitConflict(p) \/ Abort(p)
    \/ \E c \in Colls : \E new \in Scenes[scene].policies : SetPolicy(c, new)
    \/ Sweeping

\* The sweeper's goroutine runs on every tick until the file is closed.
Spec == Init /\ [][Next]_vars /\ WF_vars(Sweeping)

-----------------------------------------------------------------------------
(* Properties.                                                              *)

view(t) == [k \in {k \in DOMAIN t.snap \cup DOMAIN t.pending : currentDoc(t, k) # NoDoc}
              |-> currentDoc(t, k)]

\* The last operation of a running call, the sub-transaction it ran on, and
\* whether it succeeded.
started(p) == run[p] # Idle /\ run[p].at > 1
lastOp(p) == run[p].ops[run[p].at - 1]
lastSub(p) == run[p].subs[lastOp(p).coll]

\* A document sits under the key of its _id, in the overlay and in the view
\* of every transaction: checkIDPreserved and withID keep the _id through
\* every update, and the point lookup of findMatch and the recovery of a key
\* in firstSorted rest on it.
KeyedByID ==
    LET keyed(m) == \A k \in DOMAIN m : HasField(m[k], "_id") /\ overlayKey(IDOf(m[k])) = k
    IN  /\ \A c \in Colls : keyed(docs[c]) /\ \A k \in DOMAIN docs[c] : Contains(keys[c], k)
        /\ \A p \in Clients : run[p] # Idle => \A c \in Colls : keyed(view(run[p].subs[c]))

\* No acknowledged increment is lost and none is applied twice, although
\* clients race on the same documents, sessions run their closure again after
\* a conflict, and a call spans two collections (MultiTxn.Commit): both
\* counters hold the number of acknowledged calls.
IncrementsKept ==
    scene = "counters" =>
        \A c \in Colls : docs[c][overlayKey(Int32(1))] = Object(<<Field("_id", Int32(1)),
                                                                  Field("n", Int32(acked))>>)

\* What an insert leaves in the view of its transaction is within the count
\* and the size of a capped collection (enforceCap), whatever the batch
\* before it did.
InsertsRespectCap ==
    \A p \in Clients :
        (started(p) /\ run[p].out.inserted > 0 /\ lastSub(p).pol.capped
            /\ lastOp(p).do \in {"insertOne", "insertMany"}) =>
        /\ Cardinality(DOMAIN view(lastSub(p))) <= lastSub(p).pol.maxDocs
        /\ lastSub(p).pol.maxBytes > 0 => liveBytes(lastSub(p)) <= lastSub(p).pol.maxBytes

\* Under the error action a document the validator refuses never enters the
\* view, by an insert, an update, a replacement, a batch, an upsert or a merge,
\* unless it was invalid before and the level is moderate (validateWrite).
\* findAndModify of a matched document does not validate and is left out.
WritesAreValidated ==
    [][\A p \in Clients :
         (run[p] # Idle /\ run'[p] # Idle /\ run'[p].at = run[p].at + 1) =>
         LET op == run[p].ops[run[p].at]
             before == view(run[p].subs[op.coll])
             after == view(run'[p].subs[op.coll])
             was(k) == k \in DOMAIN before
         IN  (op.do \notin {"findAndUpdate", "findAndReplace"} /\ pol[op.coll].level # "off"
                 /\ ~pol[op.coll].warn) =>
             \A k \in DOMAIN after :
                 \/ was(k) /\ after[k] = before[k]
                 \/ Validate(pol[op.coll].validator, after[k])
                 \/ /\ was(k) /\ pol[op.coll].level = "moderate"
                    /\ ~Validate(pol[op.coll].validator, before[k])]_vars

\* The counts an operation returns are what happened to the view: modified
\* documents are those that differ, matched ones include those an update left
\* alone, and inserts, upserts and deletes account for its size.
CountsAreTrue ==
    [][\A p \in Clients :
         (run[p] # Idle /\ run'[p] # Idle /\ run'[p].at = run[p].at + 1 /\ run'[p].err = "") =>
         LET op == run[p].ops[run[p].at]
             out == run'[p].out
             before == view(run[p].subs[op.coll])
             after == view(run'[p].subs[op.coll])
             both == DOMAIN before \cap DOMAIN after
         IN  op.do \in {"updateOne", "updateMany", "replaceOne", "deleteOne", "deleteMany"} =>
             /\ out.modified = Cardinality({k \in both : before[k] # after[k]})
             /\ out.modified <= out.matched
             /\ out.deleted = Cardinality(DOMAIN before \ DOMAIN after)
             /\ ~pol[op.coll].capped => out.upserted = Cardinality(DOMAIN after \ DOMAIN before)]_vars

\* After an upsert inserted a document, the filter finds a document, so that
\* the same call made again updates instead of inserting once more: upsertBase
\* carries every equality of the filter, also dotted ones and those below
\* $and, into the document (for a filter of equalities alone, which the
\* update does not touch).
UpsertIsFoundAgain ==
    \A p \in Clients :
        (started(p) /\ run[p].out.upserted = 1 /\ lastOp(p).do \in {"updateOne", "updateMany"}
            /\ ~pol[lastOp(p).coll].capped) =>
        LET op == lastOp(p)
        IN  (\A i \in 1..Len(op.filter) : op.filter[i].k = "$and" \/
                \A j \in 1..Len(op.filter[i].ops) : op.filter[i].ops[j].op = "$eq") =>
            findMatch(lastSub(p), op.filter) # NoKey

\* The same $merge or $out made twice leaves the target as once did: what the
\* first wrote is what the second matches (aggMerge, mergeDocs, aggOut).  A
\* document that $out gives a new _id each time is left out.
RepeatedMergeSettles ==
    [][\A p \in Clients :
         (run[p] # Idle /\ run'[p] # Idle /\ run'[p].at = run[p].at + 1 /\ run[p].at > 1) =>
         LET op == run[p].ops[run[p].at]
         IN  (op = lastOp(p) /\ op.do \in {"$merge", "$out"} /\ run[p].err = ""
                 /\ \A i \in 1..Len(op.docs) : op.do = "$out" => HasField(op.docs[i], "_id")) =>
             view(run'[p].subs[op.coll]) = view(run[p].subs[op.coll])]_vars

\* A document that FindOne returns satisfies its filter.  The point lookup by
\* _id compares keys and asks no matcher: "the lookup is exact".
PointReadIsExact ==
    \A p \in Clients :
        (started(p) /\ lastOp(p).do = "findOne" /\ run[p].out.doc # NoDoc) =>
        evalFilter(run[p].out.doc, lastOp(p).filter)

\* WithTransaction of a collection's session reports a conflict only after it
\* has used up its attempts (collection/session.go; the database's session,
\* session.go, retries none).
ConflictsRetried ==
    \A p \in Clients :
        (done[p].wrap = "session" /\ done[p].err = "conflict") =>
        done[p].tries = MaxRetries

Overdue(c) == {k \in DOMAIN docs[c] : \E s \in Scenes[scene].specs[c] :
                 LET f == s.field IN HasField(docs[c][k], f) /\ Lookup(docs[c][k], f).t = "date"
                                     /\ Lookup(docs[c][k], f).n + s.after <= Now}

\* Expired documents do not stay: a sweep that loses a race skips the
\* document, and a later one removes it, also one that expires this very
\* moment.
ExpiredAreRemoved == []<>(\A c \in Colls : Overdue(c) = {})

\* What the write calls leave behind, alone, in batches and in sessions, retried
\* or not: documents under their own ids, every increment, no more than the cap
\* of a capped collection, upserted documents that are found again, point reads
\* that agree with scans, and no conflict given up that could be retried.
WritesAreKept ==
    /\ KeyedByID /\ IncrementsKept /\ InsertsRespectCap
    /\ UpsertIsFoundAgain /\ PointReadIsExact /\ ConflictsRetried

\* What a call says and stores is true: validated documents only, counts that
\* are those of the documents changed, and a $merge or $out that settles.
CallsAreTrue == WritesAreValidated /\ CountsAreTrue /\ RepeatedMergeSettles
=============================================================================
