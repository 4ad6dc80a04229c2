----------------------------- MODULE UpdateOps ------------------------------
(* Update operators on documents (update/).                                  *)
(*                                                                           *)
(* A compiled update is a sequence of operations [kind, path, arg,           *)
(* onlyInsert], where arg is the operand of the kind: a value, the           *)
(* destination path of a rename, [each, sort, slice, position] of a push     *)
(* (each of the last three <<>> or a one-element sequence), the values of    *)
(* addToSet and pullAll, [value |-> v], [ops |-> ...] or [filter |-> ...] of *)
(* a pull, [op, mask] of a bit.  Results are <<document>>, or <<>> for an    *)
(* error.  Integers wrap at Int64Max, which stands for the largest int64,    *)
(* and an int32 overflows at Int32Max.  An array is its elements: an element *)
(* stored under a key that is not its position is outside the model.         *)
EXTENDS Match
LOCAL INSTANCE Bitwise

-----------------------------------------------------------------------------
(* Containers: documents by name, arrays by index.                          *)

\* container.find: 0 when absent.
find(c, k) ==
    IF c.t = "object" THEN FieldPos(c, k)
    ELSE IF k \in DOMAIN ArrayIndexes /\ ArrayIndexes[k] < Len(c.e) THEN ArrayIndexes[k] + 1
    ELSE 0

leafValue(c, k) ==
    LET value(i) == IF c.t = "object" THEN c.f[i].v ELSE c.e[i] IN value(find(c, k))

\* setLeaf and setNode: replace in place, or append at the end.
setLeaf(c, k, v) ==
    LET set(i) ==
            IF c.t = "object"
            THEN [c EXCEPT !.f = IF i = 0 THEN Append(@, Field(k, v)) ELSE [@ EXCEPT ![i].v = v]]
            ELSE [c EXCEPT !.e = IF i = 0 THEN Append(@, v) ELSE [@ EXCEPT ![i] = v]]
    IN  set(find(c, k))

remove(c, k) == [c EXCEPT !.f = IF find(c, k) = 0 THEN @ ELSE RemoveAt(@, find(c, k))]

\* resolve and child: walk to the container that holds the last component.
\* <<"ok", c>> is the container with the intermediate documents that had to
\* be created, <<"miss">> a path that is not there, <<"error">> a scalar in
\* the way, an array that would have to grow, or an array met by a rename.
RECURSIVE resolve(_, _, _, _)
resolve(c, path, create, forbidArray) ==
    IF forbidArray /\ c.t = "array" THEN <<"error">>
    ELSE IF path = <<>> THEN <<"ok", c>>
    ELSE IF find(c, path[1]) = 0 /\ ~create THEN <<"miss">>
    ELSE IF find(c, path[1]) = 0 /\ c.t = "array" THEN <<"error">>
    ELSE LET over(r) == IF r[1] = "ok" THEN <<"ok", setLeaf(c, path[1], r[2])>> ELSE r
             into(v) == IF v.t \notin {"object", "array"} THEN <<"error">>
                        ELSE over(resolve(v, Tail(path), create, forbidArray))
         IN  into(IF find(c, path[1]) = 0 THEN Object(<<>>) ELSE leafValue(c, path[1]))

RECURSIVE at(_, _)
at(c, path) == IF path = <<>> THEN c ELSE at(leafValue(c, path[1]), Tail(path))
RECURSIVE put(_, _, _)
put(c, path, p) ==
    IF path = <<>> THEN p
    ELSE setLeaf(c, path[1], put(leafValue(c, path[1]), Tail(path), p))

\* The document with container p at the path, <<>> when there is none.
replaced(c, path, p) == IF p = <<>> THEN <<>> ELSE <<put(c, path, p[1])>>

-----------------------------------------------------------------------------
(* Numbers.                                                                 *)

\* arith: any double makes a double, else any int64 an int64 that wraps, else
\* an int32 that must fit.
arith(cur, arg, product) ==
    IF ~IsMachineNumber(cur) \/ ~IsMachineNumber(arg) THEN <<>>
    ELSE IF cur.t = "double" \/ arg.t = "double"
    THEN <<floatOp(cur, arg, product)>>
    ELSE LET r == IF product THEN cur.n * arg.n ELSE cur.n + arg.n
         IN  IF cur.t = "long" \/ arg.t = "long" THEN <<Int64(wrap64(r))>>
             ELSE IF r < 0 - Int32Max - 1 \/ r > Int32Max THEN <<>>
             ELSE <<Int32(r)>>

zeroLike(arg) ==
    CASE arg.t = "long" -> Int64(0) [] arg.t = "double" -> Double(0) [] OTHER -> Int32(0)

applyArith(p, k, arg, product) ==
    LET set(r) == IF r = <<>> THEN <<>> ELSE <<setLeaf(p, k, r[1])>>
    IN  set(arith(IF find(p, k) = 0 THEN zeroLike(arg) ELSE leafValue(p, k), arg, product))

\* applyBit: an integer field that is there; the result keeps its width.
bitApply(b, n) ==
    CASE b.op = "and" -> n & b.mask [] b.op = "or" -> n | b.mask [] OTHER -> n ^^ b.mask
applyBit(p, k, b) ==
    IF find(p, k) = 0 THEN <<>>
    ELSE IF leafValue(p, k).t \notin {"int", "long"} THEN <<>>
    ELSE <<setLeaf(p, k, [leafValue(p, k) EXCEPT !.n = bitApply(b, @)])>>

-----------------------------------------------------------------------------
(* Fields.                                                                  *)

\* An unset array element becomes null, so that the others keep their places.
applyUnset(p, k) ==
    IF p.t = "object" THEN remove(p, k)
    ELSE IF find(p, k) # 0 THEN setLeaf(p, k, Null) ELSE p

applyMinMax(p, k, arg, isMin) ==
    IF find(p, k) = 0 THEN setLeaf(p, k, arg)
    ELSE LET keeps(c) == IF isMin THEN c >= 0 ELSE c <= 0
         IN  IF keeps(Compare(arg, leafValue(p, k))) THEN p ELSE setLeaf(p, k, arg)

\* applySet, and the second half of a rename, which meets no array.
applySet(root, path, v, forbidArray) ==
    LET set(r) == IF r[1] = "error" THEN <<>>
                  ELSE <<put(r[2], Front(path), setLeaf(at(r[2], Front(path)), Last(path), v))>>
    IN  set(resolve(root, Front(path), TRUE, forbidArray))

\* applyRename: take the value out, then put it at the destination.
applyRename(root, src, dest) ==
    LET r == resolve(root, Front(src), FALSE, TRUE)
        p == at(root, Front(src))
    IN  IF r[1] = "error" THEN <<>>
        ELSE IF r[1] = "miss" THEN <<root>>
        ELSE IF find(p, Last(src)) = 0 THEN <<root>>
        ELSE applySet(put(root, Front(src), remove(p, Last(src))), dest, leafValue(p, Last(src)), TRUE)

-----------------------------------------------------------------------------
(* Arrays.                                                                  *)

containsValue(vals, v) == \E i \in 1..Len(vals) : Equal(vals[i], v)

\* insertAt: before position at, clamped to the end.
insertAt(arr, add, at0) ==
    IF at0 = <<>> \/ at0[1] >= Len(arr) THEN arr \o add
    ELSE SubSeq(arr, 1, at0[1]) \o add \o SubSeq(arr, at0[1] + 1, Len(arr))

\* The key of an element under $sort; an absent sub-field is a value of no
\* type, which ranks with MaxKey.
subField(v, field) ==
    IF field = "" THEN v
    ELSE IF v.t = "object" /\ HasField(v, field) THEN Lookup(v, field) ELSE MaxKey
sortArray(arr, s) ==
    LET arranged(order) == [i \in 1..Len(arr) |-> arr[order[i]]]
        before(c, i, j) == c < 0 \/ (c = 0 /\ i < j)
    IN  arranged(SetToSortSeq(1..Len(arr), LAMBDA i, j :
            before(s.dir * Compare(subField(arr[i], s.field), subField(arr[j], s.field)), i, j)))

sliceArray(arr, n) ==
    CASE n >= 0 -> SubSeq(arr, 1, IF n < Len(arr) THEN n ELSE Len(arr))
      [] n < 0 -> IF 0 - n >= Len(arr) THEN arr ELSE SubSeq(arr, Len(arr) + n + 1, Len(arr))

applyPush(arr, ps) ==
    LET sorted(all) == IF ps.sort = <<>> THEN all ELSE sortArray(all, ps.sort[1])
        sliced(all) == IF ps.slice = <<>> THEN all ELSE sliceArray(all, ps.slice[1])
    IN  sliced(sorted(insertAt(arr, ps.each, ps.position)))

applyAddToSet(arr, vals) ==
    FoldLeft(LAMBDA acc, v : IF containsValue(acc, v) THEN acc ELSE Append(acc, v), arr, vals)

applyPop(arr, dir) == IF arr = <<>> THEN arr ELSE IF dir = 1 THEN Front(arr) ELSE Tail(arr)

\* pullMatches: by equality, by operators on the wrapped element, or by a
\* filter on document elements.
pullMatches(pl, v) ==
    IF "value" \in DOMAIN pl THEN Equal(v, pl.value)
    ELSE LET wrap == "ops" \in DOMAIN pl
         IN  /\ wrap \/ v.t = "object"
             /\ evalFilter(IF wrap THEN Object(<<Field("", v)>>) ELSE v,
                           IF wrap THEN <<[k |-> "field", path |-> <<"">>, ops |-> pl.ops]>>
                           ELSE pl.filter)

applyPull(arr, pl) == SelectSeq(arr, LAMBDA v : ~pullMatches(pl, v))
applyPullAll(arr, vals) == SelectSeq(arr, LAMBDA v : ~containsValue(vals, v))

creatingArray == {"$push", "$addToSet"}
onArray(arr, op) ==
    CASE op.kind = "$push" -> applyPush(arr, op.arg)
      [] op.kind = "$addToSet" -> applyAddToSet(arr, op.arg)
      [] op.kind = "$pop" -> applyPop(arr, op.arg)
      [] op.kind = "$pull" -> applyPull(arr, op.arg)
      [] op.kind = "$pullAll" -> applyPullAll(arr, op.arg)

\* currentArray and buildArray: $push and $addToSet create the array, the
\* others leave a missing field missing; a field that is no array is an error.
overArray(p, k, v, op) == IF v.t # "array" THEN <<>> ELSE <<setLeaf(p, k, Array(onArray(v.e, op)))>>
withArray(p, k, op) ==
    IF find(p, k) = 0 /\ op.kind \notin creatingArray THEN <<p>>
    ELSE overArray(p, k, IF find(p, k) = 0 THEN Array(<<>>) ELSE leafValue(p, k), op)

-----------------------------------------------------------------------------
(* An update.                                                               *)

\* compileOperator's checks on the operand.
compilesUpdate(op) ==
    /\ op.path # <<>>
    /\ op.kind \in {"$inc", "$mul"} => CanonicalType(op.arg.t) = Rank.int
    /\ op.kind = "$pop" => op.arg \in {-1, 1}
    /\ op.kind = "$push" => op.arg.position = <<>> \/ op.arg.position[1] >= 0

\* Mutant: only the same path conflicts, not a prefix of it.
pathPrefixConflict_equal(p, q) == p = q

pathPrefixConflict(p, q) == \A i \in 1..Len(p) : i <= Len(q) => p[i] = q[i]

touched(op) == IF op.kind = "$rename" THEN <<op.path, op.arg>> ELSE <<op.path>>
\* checkConflicts: no path twice, none inside another.
conflicting(ops) ==
    LET paths == FlattenSeq([i \in 1..Len(ops) |-> touched(ops[i])])
    IN  \E i, j \in 1..Len(paths) : i < j /\ pathPrefixConflict(paths[i], paths[j])

\* The operator at the container that holds the path's last component k.
applyLeaf(p, k, op) ==
    CASE op.kind = "$unset" -> <<applyUnset(p, k)>>
      [] op.kind \in {"$inc", "$mul"} -> applyArith(p, k, op.arg, op.kind = "$mul")
      [] op.kind \in {"$min", "$max"} -> <<applyMinMax(p, k, op.arg, op.kind = "$min")>>
      [] op.kind = "$bit" -> applyBit(p, k, op.arg)
      [] OTHER -> withArray(p, k, op)

\* The operator where resolve led; a path that is not there leaves the
\* document as it is.
applyAt(root, r, op) ==
    CASE r[1] = "error" -> <<>>
      [] r[1] = "miss" -> <<root>>
      [] r[1] = "ok" -> replaced(r[2], Front(op.path),
                                 applyLeaf(at(r[2], Front(op.path)), Last(op.path), op))
applyOperation(root, op) ==
    LET creates == op.kind \in {"$inc", "$mul", "$min", "$max"} \cup creatingArray
    IN  CASE op.kind = "$set" -> applySet(root, op.path, op.arg, FALSE)
          [] op.kind = "$currentDate" -> applySet(root, op.path, [t |-> op.arg, n |-> Now], FALSE)
          [] op.kind = "$rename" -> applyRename(root, op.path, op.arg)
          [] OTHER -> applyAt(root, resolve(root, Front(op.path), creates, FALSE), op)

\* Update.apply: the operations in order on a copy; $setOnInsert only when an
\* upsert inserts.
RECURSIVE apply(_, _, _)
apply(root, ops, insert) ==
    IF ops = <<>> THEN <<root>>
    ELSE IF ops[1].onlyInsert /\ ~insert THEN apply(root, Tail(ops), insert)
    ELSE LET rest(r) == IF r = <<>> THEN <<>> ELSE apply(r[1], Tail(ops), insert)
         IN  rest(applyOperation(root, ops[1]))

\* Compile: at least one operation, well formed and free of conflicts.
CompileUpdate(ops) ==
    /\ ops # <<>>
    /\ ~conflicting(ops)
    /\ \A i \in 1..Len(ops) : compilesUpdate(ops[i])

UpdateDoc(doc, ops) == IF CompileUpdate(ops) THEN apply(doc, ops, FALSE) ELSE <<>>
=============================================================================
