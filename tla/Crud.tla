-------------------------------- MODULE Crud --------------------------------
(* The operations of a collection transaction (collection/ops.go, update.go, *)
(* upsert.go, bulk.go, policy.go, ttl.go, aggregate.go) on whole documents.  *)
(*                                                                           *)
(* A transaction is a record: snap, the live documents of its snapshot by    *)
(* overlay key; pending and order, its buffered writes; keys, the keys of    *)
(* the collection in first-insert order; pol, the write policy; bypass, the  *)
(* validator switch; minted, the last generated _id.  An operation gives     *)
(* [t, err, out]: the transaction after it, an error or "", and what it      *)
(* returns.  A failed operation keeps what it had already buffered.  Filters *)
(* and updates are those of modules Match and UpdateOps; a replacement holds *)
(* no operator.                                                              *)
EXTENDS UpdateOps, Validator, KeyEncoding, Folds

NoDoc == [t |-> "none"]
NoKey == <<>>
Nothing == [matched |-> 0, modified |-> 0, upserted |-> 0, deleted |-> 0,
            inserted |-> 0, id |-> Null, doc |-> NoDoc]

Ok(t, out) == [t |-> t, err |-> "", out |-> out]
Fail(t, err) == [t |-> t, err |-> err, out |-> Nothing]

\* The key of an _id: its order-preserving index encoding.
overlayKey(id) == appendValueKey(id)
IDOf(d) == Lookup(d, "_id")

-----------------------------------------------------------------------------
(* The transaction's view.                                                  *)

currentDoc(t, k) ==
    IF k \in DOMAIN t.pending THEN t.pending[k].doc
    ELSE IF k \in DOMAIN t.snap THEN t.snap[k] ELSE NoDoc

\* Committed keys in first-insert order, then the keys this transaction added.
scanKeys(t) == t.keys \o SelectSeq(t.order, LAMBDA k : ~Contains(t.keys, k))
liveKeysInOrder(t) == SelectSeq(scanKeys(t), LAMBDA k : currentDoc(t, k) # NoDoc)

matching(t, filter) ==
    SelectSeq(liveKeysInOrder(t), LAMBDA k : evalFilter(currentDoc(t, k), filter))

\* idEqualityKey: a filter that is one _id equality with a scalar.
idEquality(filter) ==
    /\ Len(filter) = 1
    /\ filter[1].k = "field" /\ filter[1].path = <<"_id">>
    /\ Len(filter[1].ops) = 1 /\ filter[1].ops[1].op = "$eq"
    /\ filter[1].ops[1].arg.t \notin {"object", "array"}

\* The key of the first match, or NoKey.  The point lookup asks no matcher.
findMatch(t, filter) ==
    IF idEquality(filter)
    THEN LET k == overlayKey(filter[1].ops[1].arg)
         IN  IF currentDoc(t, k) # NoDoc THEN k ELSE NoKey
    ELSE LET first(ks) == IF ks = <<>> THEN NoKey ELSE ks[1] IN first(matching(t, filter))

\* The first match under a sort; its key is recovered from its _id.
sortedDocs(t, ks, sort) == SortApply(sort, [i \in 1..Len(ks) |-> currentDoc(t, ks[i])])
firstSorted(t, filter, sort) ==
    IF sort = <<>> THEN findMatch(t, filter)
    ELSE LET first(ds) == IF ds = <<>> THEN NoKey ELSE overlayKey(IDOf(ds[1]))
         IN  first(sortedDocs(t, matching(t, filter), sort))

-----------------------------------------------------------------------------
(* Buffered writes.                                                         *)

\* ensurePending and the assignment that follows it.
buffer(t, k, doc, removal) ==
    [t EXCEPT !.pending = (k :> [doc |-> doc, remove |-> removal]) @@ @,
              !.order = IF Contains(@, k) THEN @ ELSE Append(@, k)]
removes(t, k) == k \in DOMAIN t.pending /\ t.pending[k].remove

bufferReplace(t, k, d) == buffer(t, k, d, removes(t, k) \/ k \in DOMAIN t.snap)
bufferDelete(t, k) == buffer(t, k, NoDoc, removes(t, k) \/ k \in DOMAIN t.snap)

noop(t, k) == t.pending[k].doc = NoDoc /\ ~t.pending[k].remove
writeSet(t) == {k \in DOMAIN t.pending : ~noop(t, k)}

-----------------------------------------------------------------------------
(* The write policy: a validator and the bounds of a capped collection.     *)

\* The length of a value in its BSON form.
RECURSIVE byteLen(_)
byteLen(v) ==
    CASE v.t \in {"double", "long", "date", "timestamp"} -> 8
      [] v.t = "int" -> 4
      [] v.t = "bool" -> 1
      [] v.t = "objectId" -> 12
      [] v.t = "string" -> 5 + Len(v.s)
      [] v.t = "object" ->
            5 + FoldLeft(LAMBDA n, x : n + 2 + Len(nameBytes(x.k)) + byteLen(x.v), 0, v.f)
      [] v.t = "array" -> 5 + FoldLeft(LAMBDA n, x : n + 3 + byteLen(x), 0, v.e)
      [] OTHER -> 0

\* Mutant: the moderate exception holds at every level.
validateWrite_lenient(t, new, pre, isInsert) ==
    \/ t.pol.level = "off" \/ t.bypass
    \/ ~isInsert /\ ~Validate(t.pol.validator, pre)
    \/ Validate(t.pol.validator, new)
    \/ t.pol.warn

\* An insert is always validated; under the moderate level a document that was
\* invalid before may stay so.  The warn action admits everything.
validateWrite(t, new, pre, isInsert) ==
    \/ t.pol.level = "off" \/ t.bypass \/ t.pol.warn
    \/ \E valid \in {{d \in {new} \cup (IF isInsert THEN {} ELSE {pre}) : Validate(t.pol.validator, d)}} :
          new \in valid \/ (~isInsert /\ t.pol.level = "moderate" /\ pre \notin valid)

checkCappedGrow(t, old, new) == t.pol.capped => byteLen(new) <= byteLen(old)

liveBytes(t) ==
    FoldLeft(LAMBDA n, k : n + byteLen(currentDoc(t, k)), 0, liveKeysInOrder(t))

\* Evict from the front of the insertion order until both bounds hold.
RECURSIVE enforceCap(_)
enforceCap(t) ==
    LET ks == liveKeysInOrder(t)
        overCount == t.pol.maxDocs > 0 /\ Len(ks) > t.pol.maxDocs
        overBytes == t.pol.maxBytes > 0 /\ liveBytes(t) > t.pol.maxBytes
    IN  IF ~t.pol.capped \/ ks = <<>> \/ (~overCount /\ ~overBytes) THEN t
        ELSE enforceCap(bufferDelete(t, ks[1]))

-----------------------------------------------------------------------------
(* Inserts and upserts.                                                     *)

freshID(t) == [t |-> "objectId", n |-> t.minted + 1]
mint(t, d) == IF HasField(d, "_id") THEN t ELSE [t EXCEPT !.minted = @ + 1]

insertKeyed(t, k, d) ==
    IF currentDoc(t, k) # NoDoc THEN Fail(t, "duplicateKey")
    ELSE IF ~validateWrite(t, d, NoDoc, TRUE) THEN Fail(t, "validation")
    ELSE Ok(enforceCap(buffer(t, k, d, removes(t, k))),
            [Nothing EXCEPT !.inserted = 1, !.id = IDOf(d), !.doc = d])
insertBuffered(t, d) ==
    LET e == EnsureID(d, freshID(t))
    IN  IF e = <<>> THEN Fail(mint(t, d), "invalidID")
        ELSE insertKeyed(mint(t, d), overlayKey(IDOf(e[1])), e[1])

\* equalityFields: plain equalities and $eq, also below $and.
RECURSIVE equalityFields(_)
equalityFields(filter) ==
    LET eqs(e) == SelectSeq(e.ops, LAMBDA o : o.op = "$eq")
        of(e) == CASE e.k = "field" ->
                        IF eqs(e) = <<>> THEN <<>> ELSE <<[path |-> e.path, val |-> eqs(e)[1].arg]>>
                   [] e.k = "$and" ->
                        FlattenSeq([i \in 1..Len(e.subs) |-> equalityFields(e.subs[i])])
                   [] OTHER -> <<>>
    IN  FlattenSeq([i \in 1..Len(filter) |-> of(filter[i])])

\* upsertBase: the equalities $set on an empty document; <<>> is a conflict.
upsertBase(filter) ==
    LET eqs == equalityFields(filter)
    IN  IF eqs = <<>> THEN <<Object(<<>>)>>
        ELSE UpdateDoc(Object(<<>>), [i \in 1..Len(eqs) |->
                 [kind |-> "$set", path |-> eqs[i].path, arg |-> eqs[i].val, onlyInsert |-> FALSE]])

\* A document with this _id in front and its own _id dropped, <<>> when they
\* differ (withID, buildReplacement).
withID(d, id) ==
    IF HasField(d, "_id") /\ ~Equal(IDOf(d), id) THEN <<>>
    ELSE <<Object(<<Field("_id", id)>> \o SelectSeq(d.f, LAMBDA x : x.k # "_id"))>>

upserted(r) ==
    IF r.err # "" THEN r ELSE Ok(r.t, [r.out EXCEPT !.upserted = 1, !.inserted = 0])

insertUpserted(t, new, err) ==
    IF new = <<>> THEN Fail(t, err) ELSE upserted(insertBuffered(t, new[1]))
upsertOnto(t, base, ops) ==
    IF base = <<>> THEN Fail(t, "conflict")
    ELSE insertUpserted(t, apply(base[1], ops, TRUE), "update")
upsertWithUpdate(t, filter, ops) == upsertOnto(t, upsertBase(filter), ops)

replaceOnto(t, base, d) ==
    IF base = <<>> THEN Fail(t, "conflict")
    ELSE insertUpserted(t, IF HasField(base[1], "_id") THEN withID(d, IDOf(base[1])) ELSE <<d>>,
                        "immutable")
upsertWithReplacement(t, filter, d) == replaceOnto(t, upsertBase(filter), d)

-----------------------------------------------------------------------------
(* Updates and replacements.                                                *)

checkIDPreserved(before, after) ==
    HasField(after, "_id") /\ Equal(IDOf(after), IDOf(before))

updated(t, modified) ==
    Ok(t, [Nothing EXCEPT !.matched = 1, !.modified = IF modified THEN 1 ELSE 0])

\* Write the new version of a document, or report that nothing changed.
writeVersion(t, k, new) ==
    LET old == currentDoc(t, k)
    IN  IF new = old THEN updated(t, FALSE)
        ELSE IF ~checkCappedGrow(t, old, new) THEN Fail(t, "cappedGrow")
        ELSE IF ~validateWrite(t, new, old, FALSE) THEN Fail(t, "validation")
        ELSE updated(bufferReplace(t, k, new), TRUE)

writeUpdated(t, k, new) ==
    IF new = <<>> THEN Fail(t, "update")
    ELSE IF ~checkIDPreserved(currentDoc(t, k), new[1]) THEN Fail(t, "immutable")
    ELSE writeVersion(t, k, new[1])
applyOperatorUpdate(t, k, ops) == writeUpdated(t, k, apply(currentDoc(t, k), ops, FALSE))

applyReplace(t, k, d) ==
    LET new == withID(d, IDOf(currentDoc(t, k)))
    IN  IF new = <<>> THEN Fail(t, "immutable") ELSE writeVersion(t, k, new[1])

updateMatch(t, k, filter, ops, upsert) ==
    IF k # NoKey THEN applyOperatorUpdate(t, k, ops)
    ELSE IF upsert THEN upsertWithUpdate(t, filter, ops) ELSE Ok(t, Nothing)
updateOne(t, filter, ops, upsert) ==
    IF ~CompileUpdate(ops) \/ ~compiles(filter) THEN Fail(t, "compile")
    ELSE updateMatch(t, findMatch(t, filter), filter, ops, upsert)

replaceMatch(t, k, filter, d, upsert) ==
    IF k # NoKey THEN applyReplace(t, k, d)
    ELSE IF upsert THEN upsertWithReplacement(t, filter, d) ELSE Ok(t, Nothing)
ReplaceOne(t, filter, d, upsert) ==
    IF ~compiles(filter) THEN Fail(t, "compile")
    ELSE replaceMatch(t, findMatch(t, filter), filter, d, upsert)

\* One step after another until one fails; the counts add up, and an error
\* drops them.
Counts(a, b) == [f \in DOMAIN a |-> IF f \in {"id", "doc"} THEN b[f] ELSE a[f] + b[f]]
then(r, s) == IF s.err # "" THEN Fail(s.t, s.err) ELSE Ok(s.t, Counts(r.out, s.out))

\* The keys are listed once; a document is matched when its turn comes.
updateVisited(t, k, filter, ops) ==
    IF currentDoc(t, k) = NoDoc THEN Ok(t, Nothing)
    ELSE IF ~evalFilter(currentDoc(t, k), filter) THEN Ok(t, Nothing)
    ELSE applyOperatorUpdate(t, k, ops)
RECURSIVE updateEach(_, _, _, _)
updateEach(r, ks, filter, ops) ==
    IF r.err # "" \/ ks = <<>> THEN r
    ELSE updateEach(then(r, updateVisited(r.t, ks[1], filter, ops)), Tail(ks), filter, ops)

upsertUnmatched(t, r, filter, ops, upsert) ==
    IF upsert /\ r.err = "" /\ r.out.matched = 0 THEN upsertWithUpdate(t, filter, ops) ELSE r
UpdateMany(t, filter, ops, upsert) ==
    IF ~CompileUpdate(ops) \/ ~compiles(filter) THEN Fail(t, "compile")
    ELSE upsertUnmatched(t, updateEach(Ok(t, Nothing), scanKeys(t), filter, ops), filter, ops, upsert)

DeleteOne(t, filter) ==
    LET delete(k) == IF k = NoKey THEN Ok(t, Nothing)
                     ELSE Ok(bufferDelete(t, k), [Nothing EXCEPT !.deleted = 1])
    IN  IF t.pol.capped THEN Fail(t, "cappedDelete")
        ELSE IF ~compiles(filter) THEN Fail(t, "compile")
        ELSE delete(findMatch(t, filter))

DeleteMany(t, filter) ==
    IF t.pol.capped THEN Fail(t, "cappedDelete")
    ELSE IF ~compiles(filter) THEN Fail(t, "compile")
    ELSE Ok(FoldLeft(bufferDelete, t, matching(t, filter)),
            [Nothing EXCEPT !.deleted = Len(matching(t, filter))])

-----------------------------------------------------------------------------
(* findAndModify: options [sort, projection, after, upsert].  Neither the   *)
(* validator nor the capped bounds are consulted for a matched document,    *)
(* and a projection that does not compile fails after the write.            *)

projectReturn(t, d, opts) ==
    IF ~projectionCompiles(opts.projection) THEN Fail(t, "projection")
    ELSE Ok(t, [Nothing EXCEPT !.doc = ProjectionApply(opts.projection, d)])
returnDoc(t, before, after, opts) ==
    projectReturn(t, IF opts.after THEN after ELSE before, opts)
upsertReturn(r, opts) ==
    IF r.err # "" THEN r
    ELSE IF opts.after THEN projectReturn(r.t, r.out.doc, opts) ELSE Ok(r.t, Nothing)

updateFound(t, k, ops, opts) ==
    LET before == currentDoc(t, k)
        modify(new) == IF new = <<>> THEN Fail(t, "update")
                       ELSE IF new[1] = before THEN returnDoc(t, before, before, opts)
                       ELSE IF ~checkIDPreserved(before, new[1]) THEN Fail(t, "immutable")
                       ELSE returnDoc(bufferReplace(t, k, new[1]), before, new[1], opts)
    IN  modify(apply(before, ops, FALSE))
updateAt(t, k, filter, ops, opts) ==
    IF k # NoKey THEN updateFound(t, k, ops, opts)
    ELSE IF opts.upsert THEN upsertReturn(upsertWithUpdate(t, filter, ops), opts)
    ELSE Ok(t, Nothing)
FindOneAndUpdate(t, filter, ops, opts) ==
    IF ~CompileUpdate(ops) \/ ~compiles(filter) THEN Fail(t, "compile")
    ELSE updateAt(t, firstSorted(t, filter, opts.sort), filter, ops, opts)

replaceAt(t, k, filter, d, opts) ==
    LET before == currentDoc(t, k)
        new == withID(d, IDOf(before))
    IN  IF k = NoKey
        THEN IF opts.upsert THEN upsertReturn(upsertWithReplacement(t, filter, d), opts)
             ELSE Ok(t, Nothing)
        ELSE IF new = <<>> THEN Fail(t, "immutable")
        ELSE returnDoc(IF new[1] = before THEN t ELSE bufferReplace(t, k, new[1]),
                       before, new[1], opts)
FindOneAndReplace(t, filter, d, opts) ==
    IF ~compiles(filter) THEN Fail(t, "compile")
    ELSE replaceAt(t, firstSorted(t, filter, opts.sort), filter, d, opts)

FindOneAndDelete(t, filter, opts) ==
    LET delete(k) == IF k = NoKey THEN Ok(t, Nothing)
                     ELSE projectReturn(bufferDelete(t, k), currentDoc(t, k), opts)
    IN  IF ~compiles(filter) THEN Fail(t, "compile")
        ELSE delete(firstSorted(t, filter, opts.sort))

-----------------------------------------------------------------------------
(* Batches: InsertMany, BulkWrite, $out and $merge.                         *)

\* Every operation is tried, or those up to the first failure; the counts
\* are of the operations that succeeded.
tried(r, s) == [t |-> s.t, err |-> IF r.err # "" THEN r.err ELSE s.err,
                out |-> IF s.err # "" THEN r.out ELSE Counts(r.out, s.out)]

RECURSIVE insertEach(_, _, _)
insertEach(r, docs, ordered) ==
    IF docs = <<>> \/ (ordered /\ r.err # "") THEN r
    ELSE insertEach(tried(r, insertBuffered(r.t, docs[1])), Tail(docs), ordered)
InsertMany(t, docs, ordered) == insertEach(Ok(t, Nothing), docs, ordered)

RECURSIVE Perform(_, _)
RECURSIVE bulkEach(_, _, _)
bulkEach(r, ops, ordered) ==
    IF ops = <<>> \/ (ordered /\ r.err # "") THEN r
    ELSE bulkEach(tried(r, Perform(r.t, ops[1])), Tail(ops), ordered)
BulkWrite(t, ops, ordered) == bulkEach(Ok(t, Nothing), ops, ordered)

\* aggOut, aggMerge and the operations of a bulk write call the methods.
aggOut(t, docs) ==
    LET insert(r) == IF r.err # "" THEN r
                     ELSE Perform(r.t, [do |-> "insertMany", docs |-> docs, ordered |-> TRUE])
    IN  insert(Perform(t, [do |-> "deleteMany", filter |-> <<>>]))

\* mergeFilter: an equality on every on-field, <<>> when one is missing.
mergeFilter(d, on) ==
    IF \E i \in 1..Len(on) : ~HasField(d, on[i]) THEN <<>>
    ELSE <<[i \in 1..Len(on) |-> [k |-> "field", path |-> <<on[i]>>,
               ops |-> <<[op |-> "$eq", arg |-> Lookup(d, on[i])]>>]]>>

\* The incoming fields over the existing ones in place, new ones at the end.
mergeDocs(existing, incoming) ==
    Object([i \in 1..Len(existing.f) |->
               IF HasField(incoming, existing.f[i].k)
               THEN Field(existing.f[i].k, Lookup(incoming, existing.f[i].k)) ELSE existing.f[i]]
           \o SelectSeq(incoming.f, LAMBDA x : ~HasField(existing, x.k)))

mergeUnmatched(t, d, when) ==
    CASE when = "insert" -> Perform(t, [do |-> "insertOne", doc |-> d])
      [] when = "discard" -> Ok(t, Nothing)
      [] OTHER -> Fail(t, "merge")
mergeMatched(t, filter, existing, d, when) ==
    CASE when \in {"merge", "replace"} ->
            Perform(t, [do |-> "replaceOne", filter |-> filter, upsert |-> FALSE,
                        doc |-> IF when = "merge" THEN mergeDocs(existing, d) ELSE d])
      [] when = "keepExisting" -> Ok(t, Nothing)
      [] OTHER -> Fail(t, "merge")

mergeOne(t, d, filter, req) ==
    LET merge(k) == IF k = NoKey THEN mergeUnmatched(t, d, req.notMatched)
                    ELSE mergeMatched(t, filter[1], currentDoc(t, k), d, req.matched)
    IN  IF filter = <<>> THEN Fail(t, "merge") ELSE merge(findMatch(t, filter[1]))
RECURSIVE mergeEach(_, _, _)
mergeEach(r, docs, req) ==
    IF r.err # "" \/ docs = <<>> THEN r
    ELSE mergeEach(then(r, mergeOne(r.t, docs[1], mergeFilter(docs[1], req.on), req)), Tail(docs), req)
aggMerge(t, req) == mergeEach(Ok(t, Nothing), req.docs, req)

-----------------------------------------------------------------------------
(* Reads, expiry and the dispatch of an operation.                          *)

FindOne(t, filter) ==
    IF ~compiles(filter) THEN Fail(t, "compile")
    ELSE Ok(t, [Nothing EXCEPT !.doc = currentDoc(t, findMatch(t, filter))])

\* Mutant: a document that expires now does not expire.
expiredUnder_after(d, specs, now) ==
    \E s \in specs : /\ HasField(d, s.field)
                     /\ Lookup(d, s.field).t = "date"
                     /\ Lookup(d, s.field).n < now - s.after

\* expiredUnder: only a date counts; specs are [field, after].
expiredUnder(d, specs, now) ==
    \E s \in specs : /\ HasField(d, s.field)
                     /\ Lookup(d, s.field).t = "date"
                     /\ Lookup(d, s.field).n <= now - s.after

collectExpired(t, specs, now) ==
    LET ks == SelectSeq(liveKeysInOrder(t), LAMBDA k : expiredUnder(currentDoc(t, k), specs, now))
    IN  [i \in 1..Len(ks) |-> IDOf(currentDoc(t, ks[i]))]

\* deleteTTL: by _id, past the capped guard.
deleteTTL(t, id) ==
    LET k == overlayKey(id) IN IF currentDoc(t, k) = NoDoc THEN t ELSE bufferDelete(t, k)

\* The operations of a bulk write (applyBulkOp) and the methods of their own.
Perform(t, op) ==
    CASE op.do = "insertOne" -> insertBuffered(t, op.doc)
      [] op.do = "updateOne" -> updateOne(t, op.filter, op.update, op.upsert)
      [] op.do = "updateMany" -> UpdateMany(t, op.filter, op.update, op.upsert)
      [] op.do = "replaceOne" -> ReplaceOne(t, op.filter, op.doc, op.upsert)
      [] op.do = "deleteOne" -> DeleteOne(t, op.filter)
      [] op.do = "deleteMany" -> DeleteMany(t, op.filter)
      [] op.do = "findOne" -> FindOne(t, op.filter)
      [] op.do = "findAndUpdate" -> FindOneAndUpdate(t, op.filter, op.update, op.opts)
      [] op.do = "findAndReplace" -> FindOneAndReplace(t, op.filter, op.doc, op.opts)
      [] op.do = "findAndDelete" -> FindOneAndDelete(t, op.filter, op.opts)
      [] op.do = "insertMany" -> InsertMany(t, op.docs, op.ordered)
      [] op.do = "bulkWrite" -> BulkWrite(t, op.ops, op.ordered)
      [] op.do = "$out" -> aggOut(t, op.docs)
      [] op.do = "$merge" -> aggMerge(t, op)
=============================================================================
