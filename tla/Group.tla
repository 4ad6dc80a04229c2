------------------------------- MODULE Group --------------------------------
(* Sorting, grouping and bucketing of documents (agg/sort.go, group.go,     *)
(* bucket.go, sample.go).                                                   *)
(*                                                                          *)
(* An accumulator is [field, acc, arg, n, by]: the operator, its expression *)
(* and, for the operators that take them, the expression of n and the sort  *)
(* keys [path, dir].  Results are <<value>>, or <<>> for an error.          *)
EXTENDS Expr

-----------------------------------------------------------------------------
(* Sort.                                                                    *)

sortedBy(s, Less(_, _)) ==
    LET order == SetToSortSeq(DOMAIN s, LAMBDA i, j :
                    Less(s[i], s[j]) \/ (~Less(s[j], s[i]) /\ i < j))
    IN  [i \in DOMAIN s |-> s[order[i]]]

\* sortSpec.compare: the first key that differs decides, missing as null.
specCompare(keys, a, b) ==
    LET c(k) == k.dir * opCmp(resolvePath(a, k.path), resolvePath(b, k.path))
        D == {i \in DOMAIN keys : c(keys[i]) # 0}
    IN  IF D = {} THEN 0 ELSE c(keys[CHOOSE i \in D : \A j \in D : i <= j])
stableSort(keys, docs) == sortedBy(docs, LAMBDA a, b : specCompare(keys, a, b) < 0)

\* The heap of package container/heap, the document that sorts last on top.
swapped(h, i, j) == [h EXCEPT ![i] = h[j], ![j] = h[i]]
worse(keys, h, i, j) == specCompare(keys, h[i], h[j]) > 0
RECURSIVE heapUp(_, _, _)
heapUp(keys, h, j) ==
    IF j > 1 /\ worse(keys, h, j, j \div 2) THEN heapUp(keys, swapped(h, j, j \div 2), j \div 2) ELSE h
RECURSIVE heapDown(_, _, _)
heapDown(keys, h, i) ==
    LET l == 2 * i
        c == IF l + 1 <= Len(h) /\ worse(keys, h, l + 1, l) THEN l + 1 ELSE l
    IN  IF l <= Len(h) /\ worse(keys, h, c, i) THEN heapDown(keys, swapped(h, c, i), c) ELSE h

\* loadTopK: a full heap takes a document only in place of its worst.
topKStep(keys, k, h, d) ==
    IF Len(h) < k THEN heapUp(keys, Append(h, d), Len(h) + 1)
    ELSE IF specCompare(keys, d, h[1]) < 0 THEN heapDown(keys, [h EXCEPT ![1] = d], 1) ELSE h
RECURSIVE popAll(_, _)
popAll(keys, h) ==
    IF h = <<>> THEN <<>>
    ELSE LET last == swapped(h, 1, Len(h))
         IN  Append(popAll(keys, heapDown(keys, Front(last), 1)), h[1])
topK(keys, k, docs) ==
    popAll(keys, FoldLeft(LAMBDA h, d : topKStep(keys, k, h, d), <<>>, docs))

-----------------------------------------------------------------------------
(* Group keys: strings over a small alphabet.  Letters stand for the tags   *)
(* and separators of the code; a formatted number is one letter.            *)

Comma == 44
Equals == 61
numberLetter(n) == 1000 + n
bitsLetter(b) == 2000 + b
\* writeNumKey: an integral double has the key of the integer.
writeNumKey(v) ==
    IF v.t = "double"
    THEN IF v.bits % SignBit < InfMagnitude /\ FloatValue(v.bits) % 2 = 0
         THEN <<73, numberLetter(FloatValue(v.bits) \div 2)>> ELSE <<70, bitsLetter(v.bits)>>
    ELSE <<73, numberLetter(v.n)>>

RECURSIVE groupKey(_)
groupKey(v) ==
    CASE v.t \in {"missing", "null", "undefined"} -> <<90>>
      [] isNumber(v) -> writeNumKey(v)
      [] v.t = "bool" -> <<66, IF v.b THEN 49 ELSE 48>>
      [] v.t = "string" -> <<83>> \o v.s
      [] v.t = "object" ->
            <<123>> \o FlattenSeq([i \in DOMAIN v.f |->
                nameBytes(v.f[i].k) \o <<Equals>> \o groupKey(v.f[i].v) \o <<Comma>>]) \o <<125>>
      [] v.t = "array" ->
            <<91>> \o FlattenSeq([i \in DOMAIN v.e |-> groupKey(v.e[i]) \o <<Comma>>]) \o <<93>>
      [] OTHER -> <<82, CanonicalType(v.t)>> \o (IF "n" \in DOMAIN v THEN <<numberLetter(v.n)>> ELSE <<>>)

-----------------------------------------------------------------------------
(* Accumulators, over the documents of a group in stream order.             *)

numbersOf(vals) == SelectSeq(vals, LAMBDA v : isNumber(v))
presentOf(vals) == SelectSeq(vals, LAMBDA v : v.t # "missing")
floatSum(nums) == FoldLeft(LAMBDA acc, v : floatOp(acc, v, FALSE), Double(0), nums)

\* sumAcc: other values are skipped; the float total counts once a double was
\* seen.
sumAcc(vals) ==
    LET nums == numbersOf(vals)
    IN  mkNum(foldInts(nums, 0, LAMBDA x, y : x + y), floatSum(nums), widen(nums))
avgAcc(vals) ==
    LET nums == numbersOf(vals)
        f == floatSum(nums)
    IN  IF nums = <<>> THEN Null
        ELSE IF IsNaN(f) \/ f.bits % SignBit = InfMagnitude THEN f
        ELSE DoubleOf(quo(FloatValue(f.bits), Len(nums)))
\* minMaxAcc: the first of the best values, missing ones apart.
minMaxAcc(vals, max) ==
    LET p == presentOf(vals)
        better(v, w) == IF max THEN Compare(v, w) > 0 ELSE Compare(v, w) < 0
    IN  IF p = <<>> THEN Null
        ELSE FoldLeft(LAMBDA best, v : IF better(v, best) THEN v ELSE best, p[1], Tail(p))

\* topBottomAcc: the outputs in sort order, reversed for the bottom.
topBottom(docs, outs, keys, bottom) ==
    LET order == SetToSortSeq(DOMAIN docs, LAMBDA i, j :
                    LET c == specCompare(keys, docs[i], docs[j]) IN c < 0 \/ (c = 0 /\ i < j))
        ranked == IF bottom THEN Reverse(order) ELSE order
    IN  [i \in DOMAIN docs |-> outs[ranked[i]]]

takeFirst(s, n) == SubSeq(s, 1, IF n < Len(s) THEN n ELSE Len(s))
takeLast(s, n) == SubSeq(s, IF n < Len(s) THEN Len(s) - n + 1 ELSE 1, Len(s))

WithN == {"$topN", "$bottomN", "$firstN", "$lastN", "$maxN", "$minN"}
\* The step of every document, then the result.  n is read off the group's
\* first document and must be a positive number.
accumulate(a, docs, vars) ==
    LET ctx(i) == docCtx(docs[i], vars)
        vals == [i \in DOMAIN docs |-> eval(a.arg, ctx(i))]
        n == IF a.acc \in WithN THEN eval(a.n, ctx(1)) ELSE Int32(1)
        present == presentOf(vals)
        solid == SelectSeq(vals, LAMBDA v : ~isNullish(v))
    IN  IF ~isNumber(n) THEN <<>> ELSE IF intArg(n) <= 0 THEN <<>>
        ELSE CASE a.acc = "$sum" -> <<sumAcc(vals)>>
               [] a.acc = "$avg" -> <<avgAcc(vals)>>
               [] a.acc = "$min" -> <<minMaxAcc(vals, FALSE)>>
               [] a.acc = "$max" -> <<minMaxAcc(vals, TRUE)>>
               [] a.acc = "$first" -> <<vals[1]>>
               [] a.acc = "$last" -> <<Last(vals)>>
               [] a.acc = "$push" -> <<Array(present)>>
               [] a.acc = "$addToSet" -> <<Array(dedupe(present))>>
               [] a.acc = "$mergeObjects" ->
                     IF \E i \in DOMAIN solid : solid[i].t # "object" THEN <<>>
                     ELSE <<opMergeObjects(solid)>>
               [] a.acc = "$count" -> <<mkNum(Len(docs), Double(0), "int")>>
               [] a.acc \in {"$top", "$bottom"} -> <<topBottom(docs, vals, a.by, a.acc = "$bottom")[1]>>
               [] a.acc \in {"$topN", "$bottomN"} ->
                     <<Array(takeFirst(topBottom(docs, vals, a.by, a.acc = "$bottomN"), intArg(n)))>>
               [] a.acc = "$firstN" -> <<Array(takeFirst(vals, intArg(n)))>>
               [] a.acc = "$lastN" -> <<Array(takeLast(vals, intArg(n)))>>
               [] a.acc \in {"$maxN", "$minN"} ->
                     <<Array(takeFirst(sortedBy(solid, LAMBDA v, w :
                           IF a.acc = "$maxN" THEN Compare(v, w) > 0 ELSE Compare(v, w) < 0), intArg(n)))>>

\* The documents by group key, groups in the order they were first seen.
partition(docs, ids) ==
    LET keys == [i \in DOMAIN docs |-> groupKey(ids[i])]
        firsts == SelectSeq([i \in DOMAIN docs |-> i], LAMBDA i : \A j \in 1..(i - 1) : keys[j] # keys[i])
        members(i) == SelectSeq([j \in DOMAIN docs |-> j], LAMBDA j : keys[j] = keys[i])
    IN  [g \in DOMAIN firsts |->
            [id |-> ids[firsts[g]],
             docs |-> [j \in DOMAIN members(firsts[g]) |-> docs[members(firsts[g])[j]]]]]

\* The accumulators' fields, <<>> when one of them fails.
accFields(docs, accs, vars) ==
    LET rs == [i \in DOMAIN accs |-> accumulate(accs[i], docs, vars)]
    IN  IF \E i \in DOMAIN rs : rs[i] = <<>> THEN <<>>
        ELSE <<[i \in DOMAIN accs |-> Field(accs[i].field, rs[i][1])]>>
\* A group leaves out a missing result; a bucket writes it.
groupDoc(id, docs, accs, vars) ==
    LET fs == accFields(docs, accs, vars)
    IN  IF fs = <<>> THEN <<>>
        ELSE <<Object(<<Field("_id", id)>> \o SelectSeq(fs[1], LAMBDA f : f.v.t # "missing"))>>
bucketDoc(id, docs, accs, vars) ==
    LET fs == accFields(docs, accs, vars)
    IN  IF fs = <<>> THEN <<>> ELSE <<Object(<<Field("_id", id)>> \o fs[1])>>

\* A blocking stage's output, or the error of one of its rows.
Stream(docs, err) == [docs |-> docs, err |-> err]
Failed == Stream(<<>>, TRUE)
allOrFail(rows) ==
    IF \E i \in DOMAIN rows : rows[i] = <<>> THEN Failed
    ELSE Stream([i \in DOMAIN rows |-> rows[i][1]], FALSE)

groupStage(docs, key, accs, vars) ==
    LET gs == partition(docs, [i \in DOMAIN docs |-> orNull(eval(key, docCtx(docs[i], vars)))])
    IN  allOrFail([g \in DOMAIN gs |-> groupDoc(gs[g].id, gs[g].docs, accs, vars)])

-----------------------------------------------------------------------------
(* Buckets.                                                                 *)

countAcc == [field |-> "count", acc |-> "$sum", arg |-> Const(Int32(1))]

bucketCompiles(bounds) ==
    Len(bounds) >= 2 /\ \A i \in 2..Len(bounds) : Compare(bounds[i - 1], bounds[i]) < 0

\* bucketID: the boundary below v, or the default, <<>> without one.
bucketID(bounds, default, v) ==
    LET hits == {i \in 1..(Len(bounds) - 1) :
                    Compare(v, bounds[i]) >= 0 /\ Compare(v, bounds[i + 1]) < 0}
    IN  IF hits # {} THEN <<bounds[CHOOSE i \in hits : \A j \in hits : i <= j]>> ELSE default

bucketStage(docs, groupBy, bounds, default, accs, vars) ==
    LET ids == [i \in DOMAIN docs |-> bucketID(bounds, default, eval(groupBy, docCtx(docs[i], vars)))]
        gs == partition(docs, [i \in DOMAIN docs |-> ids[i][1]])
        ordered == sortedBy(gs, LAMBDA g, h : Compare(g.id, h.id) < 0)
    IN  IF \E i \in DOMAIN docs : ids[i] = <<>> THEN Failed
        ELSE allOrFail([g \in DOMAIN ordered |-> bucketDoc(ordered[g].id, ordered[g].docs, accs, vars)])

\* emit: the buckets of sorted rows [v, d] as [from, to) positions counted
\* from 0.  A bucket grows over the values equal to its last; the ones after
\* it still take their full size, so the last may end past the rows.
RECURSIVE autoRanges(_, _, _, _)
autoRanges(rows, buckets, b, start) ==
    LET n == Len(rows)
        size == (n \div buckets) + (IF b < n % buckets THEN 1 ELSE 0)
        grown == CHOOSE e \in (start + size)..(n + size) :
                    /\ e >= n \/ Compare(rows[e].v, rows[e + 1].v) # 0
                    /\ \A x \in (start + size)..(e - 1) : x < n /\ Compare(rows[x].v, rows[x + 1].v) = 0
    IN  IF b >= buckets \/ start >= n THEN <<>>
        ELSE IF size = 0 THEN autoRanges(rows, buckets, b + 1, start)
        ELSE <<[from |-> start, to |-> grown]>> \o autoRanges(rows, buckets, b + 1, grown)

\* A range past the rows reads beyond the slice: the stage panics.
bucketAutoStage(docs, groupBy, buckets, accs, vars) ==
    LET rows == sortedBy([i \in DOMAIN docs |-> [v |-> eval(groupBy, docCtx(docs[i], vars)), d |-> docs[i]]],
                         LAMBDA x, y : Compare(x.v, y.v) < 0)
        rs == autoRanges(rows, buckets, 0, 0)
        id(r) == Object(<<Field("min", rows[r.from + 1].v),
                          Field("max", rows[IF r.to < Len(rows) THEN r.to + 1 ELSE Len(rows)].v)>>)
        members(r) == [i \in 1..(r.to - r.from) |-> rows[r.from + i].d]
    IN  IF \E i \in DOMAIN rs : rs[i].to > Len(rows) THEN Failed
        ELSE allOrFail([i \in DOMAIN rs |-> bucketDoc(id(rs[i]), members(rs[i]), accs, vars)])

-----------------------------------------------------------------------------
(* $sample: the reservoir after n documents, for a sequence of draws; draw  *)
(* i, made when i - 1 documents were seen, is one of 0..(i - 1).            *)

drawRange(i) == 0..(i - 1)
reservoir(size, draws) ==
    FoldLeft(LAMBDA res, i :
                IF Len(res) < size THEN Append(res, i)
                ELSE IF draws[i] < size THEN [res EXCEPT ![draws[i] + 1] = i] ELSE res,
             <<>>, [i \in DOMAIN draws |-> i])
Draws(size, n) == {d \in [1..n -> 0..(n - 1)] : \A i \in 1..n : IF i <= size THEN d[i] = 0 ELSE d[i] \in drawRange(i)}
=============================================================================
