------------------------------ MODULE Planner -------------------------------
(* The keys an index holds for a document (catalog/spec.go), the bounds the  *)
(* planner derives from a filter, and the execution of a plan (plan/).       *)
(*                                                                           *)
(* An index is [key, sparse, partial]: key is a sequence of parts            *)
(* [field, desc] with field a split path; partial is <<>> or <<filter>>.     *)
(* A request is [filter, sort, proj, skip, limit]; sort entries are          *)
(* [path, desc], projection entries [path, keep].  rows[r] is the document   *)
(* at RID r.  Which eligible index wins is a matter of cost; the model lets  *)
(* any of them win.                                                          *)
EXTENDS KeyEncoding, Match

\* fieldValues: the values of a path with a final array fanned out, whether
\* the path was there and whether an array was met.
RECURSIVE fieldValues(_, _)
fieldValues(v, parts) ==
    LET none == [vals |-> <<>>, present |-> FALSE, sawArray |-> FALSE]
    IN  IF parts = <<>>
        THEN [vals |-> IF v.t = "array" THEN v.e ELSE <<v>>, present |-> TRUE,
              sawArray |-> v.t = "array"]
        ELSE CASE v.t = "object" ->
                    IF HasField(v, parts[1])
                    THEN fieldValues(Lookup(v, parts[1]), Tail(parts)) ELSE none
               [] v.t = "array" ->
                    LET sub == [i \in 1..Len(v.e) |-> fieldValues(v.e[i], parts)]
                    IN  [vals |-> FlattenSeq([i \in 1..Len(v.e) |-> sub[i].vals]),
                         present |-> \E i \in 1..Len(v.e) : sub[i].present,
                         sawArray |-> TRUE]
               [] OTHER -> none

\* IndexSpec.Keys: the keys of a document, one per element of the one array
\* field; a missing field or an empty array is a null.
Keys(idx, d) ==
    LET n == Len(idx.key)
        per == [i \in 1..n |-> fieldValues(d, idx.key[i].field)]
        vals(i) == IF per[i].vals = <<>> THEN <<Null>> ELSE per[i].vals
        arrays == {i \in 1..n : per[i].sawArray}
        fan == IF arrays = {} THEN 1 ELSE Len(vals(CHOOSE i \in arrays : TRUE))
        one(j) == FlattenSeq([i \in 1..n |->
                     EncodeField(vals(i)[IF i \in arrays THEN j ELSE 1], idx.key[i].desc)])
    IN  [parallel |-> Cardinality(arrays) > 1,
         multikey |-> arrays # {},
         keys |-> IF idx.sparse /\ \A i \in 1..n : ~per[i].present THEN <<>>
                  ELSE [j \in 1..fan |-> one(j)]]

\* indexableKeys: a partial index takes only the documents its filter matches.
indexableKeys(idx, d) ==
    IF idx.partial # <<>> /\ ~evalFilter(d, idx.partial[1])
    THEN [parallel |-> FALSE, multikey |-> FALSE, keys |-> <<>>]
    ELSE Keys(idx, d)

ridSuffix(r) == <<1, r>>
treeKey(field, r) == field \o ridSuffix(r)

\* The entries of an index over committed rows, and whether it is multikey.
IndexEntries(idx, rows) ==
    UNION {{[key |-> k, rid |-> r] : k \in Range(indexableKeys(idx, rows[r]).keys)}
             : r \in DOMAIN rows}
Multikey(idx, rows) == \E r \in DOMAIN rows : indexableKeys(idx, rows[r]).multikey

-----------------------------------------------------------------------------
(* Bounds.                                                                   *)

\* collectBounds: the comparisons that are global conjuncts of the filter, in
\* order; those under $or, $nor and $not are not.
RECURSIVE collectBounds(_)
collectBounds(filter) ==
    FlattenSeq([i \in 1..Len(filter) |->
        CASE filter[i].k = "field" ->
                [j \in 1..Len(filter[i].ops) |->
                    [path |-> filter[i].path, op |-> filter[i].ops[j].op,
                     arg |-> filter[i].ops[j].arg]]
          [] filter[i].k = "$and" ->
                FlattenSeq([j \in 1..Len(filter[i].subs) |->
                              collectBounds(filter[i].subs[j])])
          [] OTHER -> <<>>])

noBound == [eq |-> <<>>, lo |-> <<>>, loInc |-> FALSE, hi |-> <<>>, hiInc |-> FALSE]

\* The tighter of two lower bounds wins; of equal ones the exclusive.
mergeLo(b, v, inc) ==
    IF b.lo = <<>> \/ Compare(v, b.lo[1]) > 0 THEN [b EXCEPT !.lo = <<v>>, !.loInc = inc]
    ELSE IF Equal(v, b.lo[1]) THEN [b EXCEPT !.loInc = @ /\ inc] ELSE b
mergeHi(b, v, inc) ==
    IF b.hi = <<>> \/ Compare(v, b.hi[1]) < 0 THEN [b EXCEPT !.hi = <<v>>, !.hiInc = inc]
    ELSE IF Equal(v, b.hi[1]) THEN [b EXCEPT !.hiInc = @ /\ inc] ELSE b

\* applyOps: an equality replaces an earlier one.
applyOp(b, c) ==
    CASE c.op = "$eq" -> [b EXCEPT !.eq = <<c.arg>>]
      [] c.op = "$gt" -> mergeLo(b, c.arg, FALSE)
      [] c.op = "$gte" -> mergeLo(b, c.arg, TRUE)
      [] c.op = "$lt" -> mergeHi(b, c.arg, FALSE)
      [] c.op = "$lte" -> mergeHi(b, c.arg, TRUE)
      [] OTHER -> b

fieldBound(filter, path) ==
    FoldLeft(applyOp, noBound, SelectSeq(collectBounds(filter), LAMBDA c : c.path = path))

\* intervalOf: a point, a range with ends that may be open, or no constraint.
intervalOf(b) ==
    IF b.eq # <<>> THEN [kind |-> "point", lo |-> b.eq, hi |-> b.eq]
    ELSE IF b.lo = <<>> /\ b.hi = <<>> THEN [kind |-> "true", lo |-> <<>>, hi |-> <<>>]
    ELSE [kind |-> "range", lo |-> b.lo, hi |-> b.hi]

\* Mutant: the ends are not exchanged for a descending field.
encodeRange_noSwap(iv, desc) ==
    [lo |-> IF iv.lo = <<>> THEN EncodeBoundMin(desc) ELSE EncodeField(iv.lo[1], desc),
     hi |-> IF iv.hi = <<>> THEN EncodeBoundMax(desc) ELSE EncodeField(iv.hi[1], desc)]

\* encodeRange: descending, the high value gives the low bytes.
encodeRange(iv, desc) ==
    LET low == IF desc THEN iv.hi ELSE iv.lo
        high == IF desc THEN iv.lo ELSE iv.hi
    IN  [lo |-> IF low = <<>> THEN EncodeBoundMin(desc) ELSE EncodeField(low[1], desc),
         hi |-> IF high = <<>> THEN EncodeBoundMax(desc) ELSE EncodeField(high[1], desc)]

\* buildScanBounds: points chain, the first field that is no point ends the
\* tightening, and what follows it spans everything.
buildScanBounds(key, filter) ==
    LET n == Len(key)
        iv == [i \in 1..n |-> intervalOf(fieldBound(filter, key[i].field))]
        stop == SelectInSeq(iv, LAMBDA x : x.kind # "point")
        end(i) == IF stop = 0 \/ i < stop \/ (i = stop /\ iv[i].kind = "range")
                  THEN encodeRange(iv[i], key[i].desc)
                  ELSE [lo |-> EncodeBoundMin(key[i].desc), hi |-> EncodeBoundMax(key[i].desc)]
    IN  [lo |-> FlattenSeq([i \in 1..n |-> end(i).lo]),
         hi |-> FlattenSeq([i \in 1..n |-> end(i).hi]),
         usable |-> iv[1].kind # "true"]

\* BTree.Scan between field bounds, both inclusive, in tree key order.
IndexScan(entries, lo, hi) ==
    LET inRange(e) == /\ cmpBytes(treeKey(e.key, e.rid), lo \o <<0, 0>>) >= 0
                      /\ cmpBytes(e.key, hi) <= 0
    IN  SetToSortSeq({e \in entries : inRange(e)},
            LAMBDA a, b : cmpBytes(treeKey(a.key, a.rid), treeKey(b.key, b.rid)) < 0)

-----------------------------------------------------------------------------
(* Which index may serve a request, and how.                                *)

providesSort(key, sort) ==
    /\ sort # <<>>
    /\ Len(sort) <= Len(key)
    /\ \A i \in 1..Len(sort) : key[i].field = sort[i].path /\ key[i].desc = sort[i].desc

\* A projection an index covers: inclusions of key fields, _id excluded
\* unless it is one.
projectionCoverable(proj, keyset) ==
    /\ proj # <<>>
    /\ \A i \in 1..Len(proj) :
          proj[i].path # <<"_id">> => proj[i].keep /\ proj[i].path \in keyset
    /\ \/ <<"_id">> \in keyset
       \/ \E i \in 1..Len(proj) : proj[i].path = <<"_id">> /\ ~proj[i].keep

RECURSIVE collectFilterFields(_)
collectFilterFields(filter) ==
    UNION {IF filter[i].k = "field" THEN {filter[i].path}
           ELSE UNION {collectFilterFields(filter[i].subs[j]) : j \in 1..Len(filter[i].subs)}
             : i \in 1..Len(filter)}
RECURSIVE hasElemMatch(_)
hasElemMatch(filter) ==
    \E i \in 1..Len(filter) :
        IF filter[i].k = "field" THEN \E j \in 1..Len(filter[i].ops) : filter[i].ops[j].op = "$elemMatch"
        ELSE \E j \in 1..Len(filter[i].subs) : hasElemMatch(filter[i].subs[j])

canCover(req, idx, multikey) ==
    LET keyset == {idx.key[i].field : i \in 1..Len(idx.key)}
    IN  /\ ~multikey
        /\ \A path \in keyset : Len(path) = 1
        /\ projectionCoverable(req.proj, keyset)
        /\ ~hasElemMatch(req.filter)
        /\ collectFilterFields(req.filter) \subseteq keyset
        /\ {req.sort[i].path : i \in 1..Len(req.sort)} \subseteq keyset

\* chooseIndex, short of the cost: the index narrows the scan or supplies the
\* order, and is not partial.
eligible(req, idx) ==
    /\ idx.partial = <<>>
    /\ buildScanBounds(idx.key, req.filter).usable \/ providesSort(idx.key, req.sort)

-----------------------------------------------------------------------------
(* Execution, stage by stage; an error is <<"error">>.                      *)

\* FetchStage: the document of each RID once.
Fetch(scan, rows) ==
    LET first(i) == \A j \in 1..(i - 1) : scan[j].rid # scan[i].rid
        at == SetToSortSeq({i \in 1..Len(scan) : first(i)}, <)
    IN  [i \in 1..Len(at) |-> rows[scan[at[i]].rid]]

\* decodeKey: the indexed fields rebuilt from a key, <<>> on an error.
RECURSIVE decodeFields(_, _)
decodeFields(key, parts) ==
    IF parts = <<>> THEN IF key = <<>> THEN <<Object(<<>>)>> ELSE <<>>
    ELSE LET r == AppendDecodedField(key, parts[1].desc)
         IN  IF r = <<>> THEN <<>>
             ELSE LET rest == decodeFields(SubSeq(key, r[2] + 1, Len(key)), Tail(parts))
                  IN  IF rest = <<>> THEN <<>>
                      ELSE <<Object(<<Field(parts[1].field[1], r[1])>> \o rest[1].f)>>

\* SKIP and LIMIT; a negative limit counts as its magnitude, zero as none.
skipLimit(docs, skip, limit) ==
    LET lim == IF limit < 0 THEN 0 - limit ELSE limit
        rest == SubSeq(docs, skip + 1, Len(docs))
    IN  IF lim > 0 /\ lim < Len(rest) THEN SubSeq(rest, 1, lim) ELSE rest

\* The stages above the access path, in the order buildTree stacks them.
upperStages(req, docs, sorted) ==
    LET filtered == SelectSeq(docs, LAMBDA d : evalFilter(d, req.filter))
        ordered == IF req.sort # <<>> /\ ~sorted THEN SortApply(req.sort, filtered)
                   ELSE filtered
        cut == skipLimit(ordered, req.skip, req.limit)
    IN  [i \in 1..Len(cut) |-> ProjectionApply(req.proj, cut[i])]

CollectionScan(req, rows) == upperStages(req, rows, FALSE)

\* Plan.Execute over an index.
IndexPlan(req, idx, rows) ==
    LET sb == buildScanBounds(idx.key, req.filter)
        scan == IndexScan(IndexEntries(idx, rows), sb.lo, sb.hi)
        decoded == [i \in 1..Len(scan) |-> decodeFields(scan[i].key, idx.key)]
        sorted == providesSort(idx.key, req.sort)
    IN  IF ~canCover(req, idx, Multikey(idx, rows))
        THEN upperStages(req, Fetch(scan, rows), sorted)
        ELSE IF \E i \in 1..Len(scan) : decoded[i] = <<>> THEN <<"error">>
        ELSE upperStages(req, [i \in 1..Len(scan) |-> decoded[i][1]], sorted)
=============================================================================
