------------------------------ MODULE Columns -------------------------------
(* The columnar projection of a collection (colstore/) and the aggregations *)
(* routed to it (collection/columnstore.go, columngroup.go).                *)
(*                                                                          *)
(* A column value is [kind, ...].  An encoded stream keeps the structure of *)
(* the bytes: values, runs, dictionaries, and bit-packed integers as bits   *)
(* padded to whole bytes.  Integers are int64 of Int64Max.  Decoding gives  *)
(* <<values>>, or <<>> for a corrupt column.                                *)
EXTENDS Pipeline

CONSTANT SegmentSize     \* rows in a full segment

ASSUME SegmentSizeAssumption == SegmentSize \in Nat \ {0}

-----------------------------------------------------------------------------
(* Values.                                                                  *)

NullValue == [kind |-> "null"]
FromRawValue(v) ==
    CASE v.t \in {"missing", "null", "undefined"} -> NullValue
      [] v.t = "bool" -> [kind |-> "bool", i |-> IF v.b THEN 1 ELSE 0]
      [] v.t \in {"int", "long", "date", "timestamp"} -> [kind |-> "int", i |-> v.n]
      [] v.t = "double" -> [kind |-> "float", f |-> v.bits]
      [] v.t = "string" -> [kind |-> "string", s |-> v.s]
      [] OTHER -> [kind |-> "other", raw |-> v]
FromField(d, f) == IF HasField(d, f) THEN FromRawValue(Lookup(d, f)) ELSE NullValue
\* Every integer type comes back as an int64.
ToRawValue(v) ==
    CASE v.kind = "bool" -> Bool(v.i # 0)
      [] v.kind = "int" -> Int64(v.i)
      [] v.kind = "float" -> Double(v.f)
      [] v.kind = "string" -> String(v.s)
      [] v.kind = "other" -> v.raw
      [] OTHER -> Null

\* AsFloat: the bits of a number or a boolean, else <<>>.
AsFloat(v) == CASE v.kind \in {"int", "bool"} -> <<FloatOf(v.i)>>
                [] v.kind = "float" -> <<v.f>>
                [] OTHER -> <<>>
hashKey(v) == IF AsFloat(v) = <<>> THEN v ELSE [kind |-> "number", f |-> AsFloat(v)[1]]
\* The key by exact kind and payload: the value itself.
strictKey(v) == v

\* A comparison of floats in Go: NaN is neither below nor above.
cmpFloats(x, y) == IF NaNMagnitude \in {x % SignBit, y % SignBit} THEN 0
                   ELSE cmpInt(FloatValue(x), FloatValue(y))
\* <<order>> of two numbers or two strings, else <<>>.
compareNumericOrString(a, b) ==
    IF AsFloat(a) # <<>> THEN IF AsFloat(b) = <<>> THEN <<>> ELSE <<cmpFloats(AsFloat(a)[1], AsFloat(b)[1])>>
    ELSE IF a.kind = "string" /\ b.kind = "string" THEN <<cmpBytes(a.s, b.s)>> ELSE <<>>
comparableForZone(v) == AsFloat(v) # <<>> \/ v.kind = "string"

\* The sequence with its elements evaluated once.
listed(s) == s \o <<>>

-----------------------------------------------------------------------------
(* Bit packing.                                                             *)

ByteBits == 8
unsigned(n) == n % (2 * (Int64Max + 1))
zigzag(n) == IF n < 0 THEN -2 * n - 1 ELSE 2 * n
unzigzag(u) == IF u % 2 = 0 THEN u \div 2 ELSE -((u + 1) \div 2)
bitWidth(max) == CHOOSE w \in 0..max : 2^w > max /\ \A x \in 0..(w - 1) : 2^x <= max
largest(us) == FoldLeft(LAMBDA m, u : IF u > m THEN u ELSE m, 0, us)
wholeBytes(n) == (n + ByteBits - 1) \div ByteBits

packBits(us, w) ==
    [b \in 1..(ByteBits * wholeBytes(w * Len(us))) |->
        IF b > w * Len(us) THEN 0 ELSE (us[((b - 1) \div w) + 1] \div 2^((b - 1) % w)) % 2]
unpackBits(bits, w, count) ==
    LET value(i) == FoldLeft(LAMBDA v, b : v + bits[(i - 1) * w + b] * 2^(b - 1), 0, [b \in 1..w |-> b])
    IN  IF Len(bits) < ByteBits * wholeBytes(w * count) THEN <<>> ELSE <<listed([i \in 1..count |-> value(i)])>>

-----------------------------------------------------------------------------
(* The six encodings of the values that are not null.                       *)

encodePlain(vals) == [tag |-> "plain", vals |-> vals]
decodePlain(e, m) == IF Len(e.vals) < m THEN <<>> ELSE <<SubSeq(e.vals, 1, m)>>

encodeRLE(vals) ==
    LET starts == SelectSeq([i \in DOMAIN vals |-> i],
                            LAMBDA i : i = 1 \/ strictKey(vals[i]) # strictKey(vals[i - 1]))
        stop(r) == IF r = Len(starts) THEN Len(vals) ELSE starts[r + 1] - 1
    IN  [tag |-> "rle", runs |-> [r \in DOMAIN starts |->
            [v |-> vals[starts[r]], n |-> stop(r) - starts[r] + 1]]]
decodeRLE(e, m) ==
    LET out == FlattenSeq([r \in DOMAIN e.runs |-> [i \in 1..e.runs[r].n |-> e.runs[r].v]])
    IN  IF Len(out) # m THEN <<>> ELSE <<out>>

\* The codes are positions in the dictionary counted from 0.
encodeDict(vals) ==
    LET dict == FoldLeft(LAMBDA d, v : IF v \in ToSet(d) THEN d ELSE Append(d, v), <<>>, vals)
        code(v) == (CHOOSE c \in DOMAIN dict : strictKey(dict[c]) = strictKey(v)) - 1
        w == IF Len(dict) > 1 THEN bitWidth(Len(dict) - 1) ELSE 0
    IN  [tag |-> "dict", dict |-> dict, w |-> w, bits |-> packBits([i \in DOMAIN vals |-> code(vals[i])], w)]
decodeDict(e, m) ==
    LET codes == unpackBits(e.bits, e.w, m)
    IN  IF codes = <<>> THEN <<>>
        ELSE IF \E i \in 1..m : codes[1][i] >= Len(e.dict) THEN <<>>
        ELSE <<[i \in 1..m |-> e.dict[codes[1][i] + 1]]>>

homogeneousInts(vals) ==
    vals # <<>> /\ vals[1].kind \in {"int", "bool"} /\ \A i \in DOMAIN vals : vals[i].kind = vals[1].kind
restored(rk, ns) == [i \in DOMAIN ns |-> [kind |-> rk, i |-> ns[i]]]
packed(us) == [w |-> bitWidth(largest(us)), bits |-> packBits(us, bitWidth(largest(us)))]

encodeBitpack(vals) == [tag |-> "bitpack", rk |-> vals[1].kind,
                        p |-> packed([i \in DOMAIN vals |-> zigzag(vals[i].i)])]
decodeBitpack(e, m) ==
    LET us == unpackBits(e.p.bits, e.p.w, m)
    IN  IF us = <<>> THEN <<>> ELSE <<restored(e.rk, [i \in 1..m |-> unzigzag(us[1][i])])>>

encodeFOR(vals) ==
    LET base == FoldLeft(LAMBDA b, v : IF v.i < b THEN v.i ELSE b, vals[1].i, vals)
    IN  [tag |-> "for", rk |-> vals[1].kind, base |-> base,
         p |-> packed([i \in DOMAIN vals |-> unsigned(vals[i].i - base)])]
decodeFOR(e, m) ==
    LET us == unpackBits(e.p.bits, e.p.w, m)
    IN  IF us = <<>> THEN <<>> ELSE <<restored(e.rk, [i \in 1..m |-> wrap64(e.base + us[1][i])])>>

\* Both the differences and the running sum wrap.
encodeDelta(vals) ==
    [tag |-> "delta", rk |-> vals[1].kind, first |-> vals[1].i,
     p |-> packed([i \in 1..(Len(vals) - 1) |-> zigzag(wrap64(vals[i + 1].i - vals[i].i))])]
decodeDelta(e, m) ==
    LET us == unpackBits(e.p.bits, e.p.w, m - 1)
    IN  IF m = 0 THEN <<<<>>>>
        ELSE IF us = <<>> THEN <<>>
        ELSE <<restored(e.rk, FoldLeft(LAMBDA ns, u : Append(ns, wrap64(Last(ns) + unzigzag(u))),
                                       <<e.first>>, us[1]))>>

\* Bytes: a kind, then a varint, a double, or a length and payload; the
\* varints of these bounds take one byte.
valueSize(v) == CASE v.kind \in {"bool", "int"} -> 2 [] v.kind = "float" -> 9
                  [] v.kind = "string" -> 2 + Len(v.s) [] OTHER -> 4
valuesSize(vals) == FoldLeft(LAMBDA n, v : n + valueSize(v), 0, vals)
encodedSize(e) ==
    CASE e.tag = "plain" -> 1 + valuesSize(e.vals)
      [] e.tag = "rle" -> 2 + Len(e.runs) + valuesSize([r \in DOMAIN e.runs |-> e.runs[r].v])
      [] e.tag = "dict" -> 3 + valuesSize(e.dict) + (Len(e.bits) \div ByteBits)
      [] e.tag = "bitpack" -> 3 + (Len(e.p.bits) \div ByteBits)
      [] OTHER -> 4 + (Len(e.p.bits) \div ByteBits)

applicable(vals) ==
    <<encodePlain(vals), encodeRLE(vals), encodeDict(vals)>>
    \o (IF homogeneousInts(vals) THEN <<encodeBitpack(vals), encodeFOR(vals), encodeDelta(vals)>> ELSE <<>>)
chooseEncoding(vals) ==
    LET all == applicable(vals)
    IN  FoldLeft(LAMBDA best, e : IF encodedSize(e) < encodedSize(best) THEN e ELSE best, all[1], Tail(all))
decodeStream(e, m) ==
    CASE e.tag = "plain" -> decodePlain(e, m)
      [] e.tag = "rle" -> decodeRLE(e, m)
      [] e.tag = "dict" -> decodeDict(e, m)
      [] e.tag = "bitpack" -> decodeBitpack(e, m)
      [] e.tag = "for" -> decodeFOR(e, m)
      [] e.tag = "delta" -> decodeDelta(e, m)

EncodeColumn(vals) ==
    [nulls |-> [i \in DOMAIN vals |-> vals[i].kind = "null"],
     stream |-> chooseEncoding(SelectSeq(vals, LAMBDA v : v.kind # "null"))]
\* The values go back to the positions that are not null.
DecodeColumn(c) ==
    LET n == Len(c.nulls)
        at(i) == Cardinality({j \in 1..i : ~c.nulls[j]})
        out == decodeStream(c.stream, at(n))
    IN  IF out = <<>> THEN <<>> ELSE <<[i \in 1..n |-> IF c.nulls[i] THEN NullValue ELSE out[1][at(i)]]>>

-----------------------------------------------------------------------------
(* The segments of a column store, its maintenance, its scans and the       *)
(* grouping done over the columns (colstore/segment.go, store.go,           *)
(* aggregate.go, reconstruct.go, group.go) and which aggregations are       *)
(* routed to it (collection/columnstore.go, columngroup.go).                *)

-----------------------------------------------------------------------------
(* Segments.                                                                *)

\* <<min, max>> when all values that are not null are numbers or strings.
computeZone(vals) ==
    LET solid == SelectSeq(vals, LAMBDA v : v.kind # "null")
        beyond(v, w, sign) == LET c == compareNumericOrString(v, w) IN c # <<>> /\ c[1] = sign
    IN  IF solid = <<>> \/ \E i \in DOMAIN solid : ~comparableForZone(solid[i]) THEN <<>>
        ELSE FoldLeft(LAMBDA z, v : <<IF beyond(v, z[1], -1) THEN v ELSE z[1],
                                      IF beyond(v, z[2], 1) THEN v ELSE z[2]>>,
                      <<solid[1], solid[1]>>, Tail(solid))
buildSegment(vals, rids, write, del) ==
    [enc |-> EncodeColumn(vals), rids |-> rids, write |-> write, del |-> del, zone |-> computeZone(vals)]
Values(seg) == listed(DecodeColumn(seg.enc)[1])

visibleStamps(write, del, snap) == write <= snap /\ (del = 0 \/ del > snap)
visible(seg, i, snap) == visibleStamps(seg.write[i], seg.del[i], snap)

\* A predicate is [field, op, bound].
holds(op, c) == CASE op = "$gt" -> c > 0 [] op = "$gte" -> c >= 0 [] op = "$lt" -> c < 0
                  [] op = "$lte" -> c <= 0 [] op = "$eq" -> c = 0
predMatches(pred, v) ==
    LET c == compareNumericOrString(v, pred.bound) IN c # <<>> /\ holds(pred.op, c[1])
\* The segment's best value for the operator does not satisfy it.
skipForRange(seg, pred) ==
    /\ seg.zone # <<>> /\ pred.op # "$eq"
    /\ LET c == compareNumericOrString(seg.zone[IF pred.op \in {"$gt", "$gte"} THEN 2 ELSE 1], pred.bound)
       IN  c # <<>> /\ ~holds(pred.op, c[1])

\* The serialized form: row ids as gaps from the first.
MarshalBinary(seg) ==
    [first |-> seg.rids[1], enc |-> seg.enc, write |-> seg.write, del |-> seg.del, zone |-> seg.zone,
     gaps |-> [i \in DOMAIN seg.rids |-> seg.rids[i] - seg.rids[IF i = 1 THEN 1 ELSE i - 1]]]
UnmarshalSegment(b) ==
    [enc |-> b.enc, write |-> b.write, del |-> b.del, zone |-> b.zone,
     rids |-> [i \in DOMAIN b.gaps |-> FoldLeft(+, b.first, SubSeq(b.gaps, 1, i))]]

-----------------------------------------------------------------------------
(* The store: per field the flushed segments and the buffer, one timeline   *)
(* of row ids for all fields, and the live row of every _id.                *)

NewStore(mode, fields) ==
    [mode |-> mode, fields |-> fields, segs |-> [f \in ToSet(fields) |-> <<>>], bounds |-> <<>>,
     bufVals |-> [f \in ToSet(fields) |-> <<>>], bufRIDs |-> <<>>, bufWrite |-> <<>>, bufDel |-> <<>>,
     live |-> <<>>, nextRID |-> 0]
NoKey == [kind |-> "none"]
idKey(d) == IF HasField(d, "_id") THEN strictKey(FromRawValue(Lookup(d, "_id"))) ELSE NoKey

flushLocked(s) ==
    IF s.bufRIDs = <<>> THEN s
    ELSE [s EXCEPT
            !.segs = [f \in DOMAIN s.segs |->
                         Append(s.segs[f], buildSegment(s.bufVals[f], s.bufRIDs, s.bufWrite, s.bufDel))],
            !.bounds = Append(@, [first |-> s.bufRIDs[1], n |-> Len(s.bufRIDs)]),
            !.bufVals = [f \in DOMAIN s.bufVals |-> <<>>],
            !.bufRIDs = <<>>, !.bufWrite = <<>>, !.bufDel = <<>>]

insertLocked(s, d, ver) ==
    LET key == idKey(d)
        s1 == [s EXCEPT !.nextRID = @ + 1,
                        !.bufVals = [f \in DOMAIN @ |-> Append(@[f], FromField(d, f))],
                        !.bufRIDs = Append(@, s.nextRID), !.bufWrite = Append(@, ver), !.bufDel = Append(@, 0),
                        !.live = IF key = NoKey THEN @ ELSE (key :> s.nextRID) @@ @]
    IN  IF Len(s1.bufRIDs) >= SegmentSize THEN flushLocked(s1) ELSE s1

\* locateBound: the position of the boundary that holds a row, or 0.
locateBound(s, rid) ==
    LET past == {k \in DOMAIN s.bounds : s.bounds[k].first + s.bounds[k].n > rid}
    IN  IF past = {} THEN 0 ELSE IF rid >= s.bounds[least(past)].first THEN least(past) ELSE 0
\* A row is deleted once, in the buffer or in the segments of every field.
tombstoneLocked(s, rid, ver) ==
    LET k == locateBound(s, rid)
        stamp(del, first) == LET off == rid - first + 1 IN
            IF off \in DOMAIN del THEN [del EXCEPT ![off] = IF @ = 0 THEN ver ELSE @] ELSE del
    IN  IF s.bufRIDs # <<>> /\ rid >= s.bufRIDs[1]
        THEN [s EXCEPT !.bufDel = stamp(@, s.bufRIDs[1])]
        ELSE IF k = 0 THEN s
        ELSE [s EXCEPT !.segs = [f \in DOMAIN @ |-> [@[f] EXCEPT ![k].del = stamp(@, s.bounds[k].first)]]]

Insert(s, d, ver) == insertLocked(s, d, ver)
Update(s, old, d, ver) ==
    insertLocked(IF idKey(old) \in DOMAIN s.live THEN tombstoneLocked(s, s.live[idKey(old)], ver) ELSE s, d, ver)
Delete(s, old, ver) ==
    LET key == idKey(old)
    IN  IF key \notin DOMAIN s.live THEN s
        ELSE [tombstoneLocked(s, s.live[key], ver) EXCEPT !.live = [x \in DOMAIN @ \ {key} |-> @[x]]]
Rebuild(s, docs, ver) ==
    flushLocked(FoldLeft(LAMBDA t, d : insertLocked(t, d, ver), NewStore(s.mode, s.fields), docs))

Covers(s, need) == ToSet(need) \subseteq ToSet(s.fields)
RowCount(s, snap) ==
    LET f == s.fields[1]
        liveCount(seg) == Cardinality({i \in DOMAIN seg.rids : visible(seg, i, snap)})
        flushed == FoldLeft(LAMBDA n, seg : n + liveCount(seg), 0, s.segs[f])
    IN  (IF s.fields = <<>> THEN 0 ELSE flushed)
        + Cardinality({i \in DOMAIN s.bufRIDs : visibleStamps(s.bufWrite[i], s.bufDel[i], snap)})

-----------------------------------------------------------------------------
(* Scans and aggregations over a column store (colstore/aggregate.go,       *)
(* reconstruct.go, group.go) and the aggregations that are routed to it     *)
(* (collection/columnstore.go, columngroup.go).                             *)
(*                                                                          *)
(* A predicate is <<>> or <<[field, op, bound]>>.                           *)

skipped(s, k, pred) ==
    pred # <<>> /\ pred[1].field \in DOMAIN s.segs /\ skipForRange(s.segs[pred[1].field][k], pred[1])
\* The positions of block k a scan visits, in order; the buffer is block 0.
visited(s, k, snap, pred) ==
    LET vis == s.segs[s.fields[1]][k]
        predCol == Values(s.segs[pred[1].field][k])
        buffered(i) == /\ visibleStamps(s.bufWrite[i], s.bufDel[i], snap)
                       /\ pred = <<>> \/ predMatches(pred[1], s.bufVals[pred[1].field][i])
        flushed(i) == visible(vis, i, snap) /\ (pred = <<>> \/ predMatches(pred[1], predCol[i]))
        order(n) == [i \in 1..n |-> i]
    IN  IF k = 0 THEN SelectSeq(order(Len(s.bufRIDs)), buffered)
        ELSE IF skipped(s, k, pred) THEN <<>>
        ELSE SelectSeq(order(Len(vis.rids)), flushed)
column(s, k, f) == IF k = 0 THEN s.bufVals[f] ELSE Values(s.segs[f][k])
blocks(s) == Append([k \in DOMAIN s.bounds |-> k], 0)

\* scan: the rows, each with the values of the fields it needs in order.  No
\* field needed, no row.
scan(s, snap, need, pred) ==
    LET rowsOf(k) == LET at == visited(s, k, snap, pred)
                         cols == FoldLeft(LAMBDA cs, f : Append(cs, column(s, k, f)), <<>>, need)
                     IN  [i \in DOMAIN at |-> [j \in DOMAIN need |-> cols[j][at[i]]]]
    IN  IF need = <<>> THEN <<>>
        ELSE FlattenSeq([b \in DOMAIN blocks(s) |-> rowsOf(blocks(s)[b])])

NoField == ""
dedupFields(fs) ==
    FoldLeft(LAMBDA out, f : IF f = NoField \/ f \in ToSet(out) THEN out ELSE Append(out, f), <<>>, fs)
valueOf(row, need, f) ==
    IF f \in ToSet(need) THEN row[CHOOSE j \in DOMAIN need : need[j] = f] ELSE NullValue

\* A null field is left out of the document.
Reconstruct(s, snap, fields, pred) ==
    LET rows == scan(s, snap, fields, pred)
        all(r) == [j \in DOMAIN fields |-> [f |-> fields[j], v |-> r[j]]]
        kept(r) == SelectSeq(all(r), LAMBDA x : x.v.kind # "null")
    IN  [i \in DOMAIN rows |-> Object([j \in DOMAIN kept(rows[i]) |->
                                          Field(kept(rows[i])[j].f, ToRawValue(kept(rows[i])[j].v))])]

\* A segment costs one document, the set-up as many as a segment holds.
PreferOverHeap(s, snap, pred) ==
    LET skips == Cardinality({k \in DOMAIN s.bounds : skipped(s, k, pred)})
    IN  RowCount(s, snap) # 0 /\ SegmentSize + Len(s.bounds) - skips < RowCount(s, snap)

-----------------------------------------------------------------------------
(* GroupBy and SumField: the standalone accumulators.                       *)

EmptyAgg == [sum |-> Double(0), nums |-> 0, count |-> 0, ext |-> <<>>]
addTo(g, v) ==
    LET c(w) == compareNumericOrString(v, w)
        better(w, sign) == c(w) # <<>> /\ c(w)[1] = sign
        num == AsFloat(v)
    IN  [g EXCEPT !.sum = IF num = <<>> THEN @ ELSE floatOp(@, Double(num[1]), FALSE),
                  !.nums = IF num = <<>> THEN @ ELSE @ + 1,
                  !.ext = IF ~comparableForZone(v) THEN @
                          ELSE IF @ = <<>> THEN <<v, v>>
                          ELSE <<IF better(@[1], -1) THEN v ELSE @[1], IF better(@[2], 1) THEN v ELSE @[2]>>]
\* Groups as <<key, accumulators>> in the order they were first seen.
GroupBy(s, snap, groupField, valueField, pred) ==
    LET need == dedupFields(<<groupField, valueField, IF pred = <<>> THEN NoField ELSE pred[1].field>>)
        step(gs, row) ==
            LET key == valueOf(row, need, groupField)
                hits == {i \in DOMAIN gs : hashKey(gs[i].key) = hashKey(key)}
                fold(g) == LET h == [g EXCEPT !.count = @ + 1]
                           IN  IF valueField = NoField THEN h ELSE addTo(h, valueOf(row, need, valueField))
            IN  IF hits = {} THEN Append(gs, [key |-> key, agg |-> fold(EmptyAgg)])
                ELSE [gs EXCEPT ![CHOOSE i \in hits : TRUE].agg = fold(@)]
    IN  FoldLeft(step, <<>>, scan(s, snap, need, pred))

\* scanFloats: the numbers of each block are summed before the total.
SumField(s, snap, field, pred) ==
    LET batch(k) == LET at == visited(s, k, snap, pred)
                        col == column(s, k, field)
                    IN  SelectSeq([i \in DOMAIN at |-> col[at[i]]], LAMBDA v : AsFloat(v) # <<>>)
        add(x, y) == floatOp(x, y, FALSE)
        local(k) == FoldLeft(LAMBDA t, v : add(t, Double(AsFloat(v)[1])), Double(0), batch(k))
    IN  FoldLeft(LAMBDA t, k : [sum |-> add(t.sum, local(k)), nums |-> t.nums + Len(batch(k))],
                 [sum |-> Double(0), nums |-> 0], blocks(s))

-----------------------------------------------------------------------------
(* GroupExec: a group over the columns.  The specification is [key, accs]   *)
(* and an accumulator [out, acc, field, const]; a $sum without a field adds *)
(* its constant.                                                            *)

KindRank == [int |-> 1, long |-> 2, double |-> 3]
wider(a, b) == IF KindRank[a] > KindRank[b] THEN a ELSE b
ZeroState == [i |-> 0, f |-> Double(0), k |-> "int", n |-> 0, best |-> <<>>]
addNumber(st, i, f, k) == [st EXCEPT !.i = wrap64(@ + i), !.f = floatOp(@, f, FALSE), !.k = wider(@, k)]

\* numParts: <<int, float, width>>; a boolean is not a number here.
numParts(v) == CASE v.kind = "int" -> <<v.i, Double(FloatOf(v.i)), "long">>
                 [] v.kind = "float" -> <<0, Double(v.f), "double">>
                 [] OTHER -> <<>>
\* Values of one family, integers beyond ExactInt apart.
cheapCompare(a, b) ==
    LET num(v) == v.kind \in {"int", "float"}
        exact(v) == v.kind = "int" => v.i \in (-ExactInt)..ExactInt
    IN  IF num(a) /\ num(b)
        THEN IF exact(a) /\ exact(b) THEN <<cmpFloats(AsFloat(a)[1], AsFloat(b)[1])>> ELSE <<>>
        ELSE IF a.kind # b.kind THEN <<>>
        ELSE CASE a.kind = "string" -> <<cmpBytes(a.s, b.s)>>
               [] a.kind = "bool" -> <<cmpInt(a.i, b.i)>>
               [] OTHER -> <<>>
stepMinMax(st, v, max) ==
    LET cheap == cheapCompare(v, st.best[1])
        c == IF cheap # <<>> THEN cheap[1] ELSE Compare(ToRawValue(v), ToRawValue(st.best[1]))
    IN  IF v.kind = "null" THEN st
        ELSE IF st.best = <<>> \/ (IF max THEN c > 0 ELSE c < 0) THEN [st EXCEPT !.best = <<v>>] ELSE st
accStep(a, st, v) ==
    LET p == numParts(v)
    IN  CASE a.acc = "$sum" /\ a.field = NoField ->
                addNumber(st, a.const.n, Double(FloatOf(a.const.n)), a.const.t)
          [] a.acc = "$sum" /\ a.field # NoField -> IF p = <<>> THEN st ELSE addNumber(st, p[1], p[2], p[3])
          [] a.acc = "$avg" -> IF p = <<>> THEN st ELSE [addNumber(st, 0, p[2], "int") EXCEPT !.n = @ + 1]
          [] a.acc \in {"$min", "$max"} -> stepMinMax(st, v, a.acc = "$max")
          [] a.acc = "$count" -> [st EXCEPT !.n = @ + 1]
accResult(a, st) ==
    CASE a.acc = "$sum" -> mkNum(st.i, st.f, st.k)
      [] a.acc = "$avg" -> IF st.n = 0 THEN Null
                           ELSE IF IsNaN(st.f) \/ st.f.bits % SignBit = InfMagnitude THEN st.f
                           ELSE DoubleOf(quo(FloatValue(st.f.bits), st.n))
      [] a.acc \in {"$min", "$max"} -> IF st.best = <<>> THEN Null ELSE ToRawValue(st.best[1])
      [] a.acc = "$count" -> mkNum(st.n, Double(0), "int")

\* writeColumnKey: the key groupKey gives the reconstructed value, except that
\* an opaque value is its own key.
groupKeyOf(v) ==
    CASE v.kind = "null" -> <<"key", <<90>>>>
      [] v.kind = "int" -> <<"key", <<73, numberLetter(v.i)>>>>
      [] v.kind = "float" ->
            IF v.f % SignBit < InfMagnitude /\ FloatValue(v.f) % 2 = 0
            THEN <<"key", <<73, numberLetter(FloatValue(v.f) \div 2)>>>> ELSE <<"key", <<70, bitsLetter(v.f)>>>>
      [] v.kind = "bool" -> <<"key", <<66, 48 + v.i>>>>
      [] v.kind = "string" -> <<"key", <<83>> \o v.s>>
      [] OTHER -> <<"opaque", v.raw>>

groupNeed(spec) == dedupFields(<<spec.key>> \o [i \in DOMAIN spec.accs |-> spec.accs[i].field])
\* One group of all rows without a key field, even when there is no row.
GroupExec(s, snap, spec) ==
    LET need == groupNeed(spec)
        rows == scan(s, snap, need, <<>>)
        keyOf(row) == valueOf(row, need, spec.key)
        members(k) == SelectSeq(rows, LAMBDA row : groupKeyOf(keyOf(row)) = groupKeyOf(k))
        firsts == IF spec.key = NoField THEN <<NullValue>>
                  ELSE FoldLeft(LAMBDA ks, row : IF \E i \in DOMAIN ks : groupKeyOf(ks[i]) = groupKeyOf(keyOf(row))
                                                 THEN ks ELSE Append(ks, keyOf(row)), <<>>, rows)
        group(k) == IF spec.key = NoField THEN rows ELSE members(k)
        result(a, rs) == accResult(a, FoldLeft(LAMBDA st, row : accStep(a, st, valueOf(row, need, a.field)),
                                               ZeroState, rs))
    IN  [g \in DOMAIN firsts |->
            Object(<<Field("_id", ToRawValue(firsts[g]))>>
                   \o [i \in DOMAIN spec.accs |-> Field(spec.accs[i].out, result(spec.accs[i], group(firsts[g])))])]

-----------------------------------------------------------------------------
(* The aggregations routed to the columns.  A store is <<>> when off.       *)

\* The field of a path, <<>> for any other expression and for _id.
fieldOf(e) == IF e.x = "path" THEN IF Len(e.path) = 1 /\ e.path[1] # "_id" THEN <<e.path[1]>> ELSE <<>> ELSE <<>>
isConst(e, types) == IF e.x = "const" THEN e.v.t \in types ELSE FALSE

vectorKeyField(e) == IF isConst(e, {"null"}) THEN <<NoField>> ELSE fieldOf(e)
vectorAccumulator(a) ==
    LET spec(f, c) == <<[out |-> a.field, acc |-> a.acc, field |-> f, const |-> c]>>
        f == fieldOf(a.arg)
    IN  CASE a.acc = "$count" -> spec(NoField, Null)
          [] a.acc = "$sum" /\ isConst(a.arg, {"int", "long"}) -> spec(NoField, a.arg.v)
          [] a.acc \in {"$sum", "$avg", "$min", "$max"} /\ f # <<>> -> spec(f[1], Null)
          [] OTHER -> <<>>
\* parseVectorGroup: <<specification>>, or <<>> when a part is not vectorized.
parseVectorGroup(st) ==
    LET key == vectorKeyField(st.key)
        accs == [i \in DOMAIN st.accs |-> vectorAccumulator(st.accs[i])]
    IN  IF key = <<>> \/ \E i \in DOMAIN accs : accs[i] = <<>> THEN <<>>
        ELSE <<[key |-> key[1], accs |-> [i \in DOMAIN accs |-> accs[i][1]]]>>
columnGroup(p, s, snap) ==
    LET spec == parseVectorGroup(p[1])
    IN  IF Len(p) # 1 THEN <<>> ELSE IF p[1].s # "$group" THEN <<>> ELSE IF spec = <<>> THEN <<>>
        ELSE IF ~Covers(s, groupNeed(spec[1])) \/ ~PreferOverHeap(s, snap, <<>>) THEN <<>>
        ELSE <<GroupExec(s, snap, spec[1])>>

RangeOps == {"$gt", "$gte", "$lt", "$lte", "$eq"}
\* parseRangeMatch: one field under one operator the zone map knows.
parseRangeMatch(st) ==
    IF Len(st.filter) # 1 \/ st.expr # <<>> THEN <<>>
    ELSE LET e == st.filter[1]
         IN  IF e.k # "field" THEN <<>>
             ELSE IF Len(e.path) # 1 \/ Len(e.ops) # 1 THEN <<>>
             ELSE IF e.ops[1].op \notin RangeOps THEN <<>>
             ELSE <<[field |-> e.path[1], op |-> e.ops[1].op, bound |-> FromRawValue(e.ops[1].arg)]>>
\* parseGroupFields: the fields read, and whether all can be rebuilt.
Scalars == {"null", "bool", "int", "long", "double", "string", "date"}
parseGroupFields(st) ==
    LET args == <<st.key>> \o [i \in DOMAIN SelectSeq(st.accs, LAMBDA a : a.acc # "$count") |->
                                  SelectSeq(st.accs, LAMBDA a : a.acc # "$count")[i].arg]
        plain(e) == fieldOf(e) # <<>> \/ isConst(e, Scalars)
    IN  [ok |-> /\ \A i \in DOMAIN args : plain(args[i])
                /\ \A i \in DOMAIN st.accs : st.accs[i].acc \in {"$sum", "$avg", "$min", "$max", "$count"},
         fields |-> FlattenSeq([i \in DOMAIN args |-> fieldOf(args[i])])]

columnSource(p, s, snap) ==
    LET ranged == p[1].s = "$match"
        pred == IF ranged THEN parseRangeMatch(p[1]) ELSE <<>>
        group == p[Len(p)]
        parsed == parseGroupFields(group)
        fields == dedupFields((IF ranged THEN <<pred[1].field>> ELSE <<>>) \o parsed.fields)
    IN  IF p = <<>> \/ Len(p) > 2 THEN <<>>
        ELSE IF group.s # "$group" \/ (Len(p) = 2 /\ ~ranged) THEN <<>>
        ELSE IF ranged /\ (IF pred = <<>> THEN TRUE ELSE pred[1].field = "_id") THEN <<>>
        ELSE IF ~parsed.ok \/ ~Covers(s, fields) \/ ~PreferOverHeap(s, snap, pred) THEN <<>>
        ELSE <<Reconstruct(s, snap, fields, pred)>>

\* Txn.Aggregate: the vectorized group, the rebuilt documents or the heap's.
Aggregate(p, store, snap, heapDocs) ==
    LET fast == IF store = <<>> \/ p = <<>> THEN <<>> ELSE columnGroup(p, store[1], snap)
        docs == IF store = <<>> \/ p = <<>> THEN <<>> ELSE columnSource(p, store[1], snap)
    IN  IF fast # <<>> THEN Stream(fast[1], FALSE)
        ELSE RunWith(compiled(p), IF docs # <<>> THEN docs[1] ELSE heapDocs, <<heapDocs>>)
=============================================================================
