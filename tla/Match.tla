------------------------------- MODULE Match --------------------------------
(* Filters, sorts, projections and distinct (query/).                        *)
(*                                                                           *)
(* A filter is a sequence of elements.  [k |-> "field", path, ops] is a      *)
(* dotted path, already split, with its operators (a plain value is one      *)
(* $eq); [k |-> "$and" | "$or" | "$nor", subs] holds sub-filters.  An        *)
(* operator is [op, arg]; the argument of $elemMatch and $not is             *)
(* [ops |-> ...] or [filter |-> ...].                                        *)
EXTENDS Bson

\* arrayIndex: the names that are canonical decimal indexes.
ArrayIndexes == ("0" :> 0) @@ ("1" :> 1) @@ ("2" :> 2) @@ ("3" :> 3)

\* arrayElems: the values of an array, or of a document, in stored order.
arrayElems(v) ==
    CASE v.t = "array" -> v.e
      [] v.t = "object" -> [i \in 1..Len(v.f) |-> v.f[i].v]
      [] OTHER -> <<>>

\* Every value a dotted path reaches: a name steps into a document; at an
\* array an index steps into one element and the whole path is also tried on
\* every element.  The path resolved when the result is not empty.
RECURSIVE descend(_, _)
descend(v, path) ==
    IF path = <<>> THEN <<v>>
    ELSE CASE v.t = "object" ->
                IF HasField(v, path[1]) THEN descend(Lookup(v, path[1]), Tail(path))
                ELSE <<>>
           [] v.t = "array" ->
                (IF path[1] \in DOMAIN ArrayIndexes /\ ArrayIndexes[path[1]] < Len(v.e)
                 THEN descend(v.e[ArrayIndexes[path[1]] + 1], Tail(path)) ELSE <<>>)
                \o FlattenSeq([i \in 1..Len(v.e) |-> descend(v.e[i], path)])
           [] OTHER -> <<>>
traverse(d, path) == descend(d, path)

\* The walk through plain documents only: <<"array">> as soon as it meets an
\* array with path left, <<"miss">>, or <<"found", value>>.
RECURSIVE traverseSingle(_, _)
traverseSingle(v, path) ==
    IF path = <<>> THEN <<"found", v>>
    ELSE IF v.t = "array" THEN <<"array">>
    ELSE IF v.t # "object" THEN <<"miss">>
    ELSE IF ~HasField(v, path[1]) THEN <<"miss">>
    ELSE traverseSingle(Lookup(v, path[1]), Tail(path))

-----------------------------------------------------------------------------
(* Leaves: what one operator says of a value and of a missing field.        *)

isNullOperand(v) == v.t \in {"null", "undefined"}

\* $gt, $gte, $lt, $lte hold only inside the operand's type bracket.
cmpLeaf(op, v, want) ==
    /\ CanonicalType(v.t) = CanonicalType(want.t)
    /\ LET holds(c) == CASE op = "$gt" -> c > 0 [] op = "$gte" -> c >= 0
                         [] op = "$lt" -> c < 0 [] op = "$lte" -> c <= 0
       IN  holds(Compare(v, want))

inLeaf(v, wants) == \E i \in 1..Len(wants) : Equal(v, wants[i])

\* resolveTypeArg: "number" stands for the four numeric types.
resolveTypeArg(alias) ==
    IF alias = "number" THEN {"double", "int", "long", "decimal"} ELSE {alias}
typeLeaf(v, aliases) == \E i \in 1..Len(aliases) : v.t \in resolveTypeArg(aliases[i])

\* $all: every operand equals the value or one of its elements; an empty list
\* matches nothing.
allLeaf(v, wants) ==
    /\ wants # <<>>
    /\ \A i \in 1..Len(wants) :
          \E w \in {v} \cup (IF v.t = "array" THEN Range(v.e) ELSE {}) : Equal(w, wants[i])

matchMissing(c) ==
    CASE c.op \in {"$eq", "$ne"} -> isNullOperand(c.arg)
      [] c.op \in {"$in", "$nin"} -> \E i \in 1..Len(c.arg.e) : isNullOperand(c.arg.e[i])
      [] c.op = "$exists" -> ~truthy(c.arg)
      [] OTHER -> FALSE

elementWise(c) == c.op \notin {"$exists", "$size", "$all", "$elemMatch"}

RECURSIVE evalFilter(_, _)
RECURSIVE evalOps(_, _, _)

\* $elemMatch: some element meets the operators, through a wrapper document
\* whose only field has the empty name, or some document element meets the
\* sub-filter.
elemMatchLeaf(v, arg) ==
    /\ v.t = "array"
    /\ \E i \in 1..Len(v.e) :
          IF "ops" \in DOMAIN arg
          THEN evalOps(Object(<<Field("", v.e[i])>>), <<"">>, arg.ops)
          ELSE v.e[i].t = "object" /\ evalFilter(v.e[i], arg.filter)

matchValue(c, v) ==
    CASE c.op \in {"$eq", "$ne"} -> Equal(v, c.arg)
      [] c.op \in {"$gt", "$gte", "$lt", "$lte"} -> cmpLeaf(c.op, v, c.arg)
      [] c.op \in {"$in", "$nin"} -> inLeaf(v, c.arg.e)
      [] c.op = "$exists" -> truthy(c.arg)
      [] c.op = "$type" -> typeLeaf(v, c.arg.aliases)
      [] c.op = "$size" -> v.t = "array" /\ Len(v.e) = FloatValue(AsFloat64(c.arg)) \div 2
      [] c.op = "$all" -> allLeaf(v, c.arg.e)
      [] c.op = "$elemMatch" -> elemMatchLeaf(v, c.arg)

\* A value satisfies a leaf itself or, for most, through one of its elements.
satisfies(c, v) ==
    \E w \in {v} \cup (IF elementWise(c) /\ v.t = "array" THEN Range(v.e) ELSE {}) :
        matchValue(c, w)

\* What fieldPred.eval says of the values it reached.
evalReached(values, c) ==
    IF values = <<>> THEN matchMissing(c)
    ELSE \E i \in 1..Len(values) : satisfies(c, values[i])

\* fieldPred.eval by the traversal that collects every value.
evalTraversed(d, path, c) == evalReached(traverse(d, path), c)

\* fieldPred.eval: the walk without fan-out when it is enough.
fieldPred(d, path, c) ==
    LET reached(s) == CASE s[1] = "miss" -> <<>>
                        [] s[1] = "found" -> <<s[2]>>
                        [] s[1] = "array" -> traverse(d, path)
    IN  evalReached(reached(traverseSingle(d, path)), c)

\* compileOperator, as the predicate it builds: $ne, $nin and $not negate.
evalOp(d, path, c) ==
    IF c.op = "$not" THEN ~evalOps(d, path, c.arg.ops)
    ELSE (c.op \in {"$ne", "$nin"}) # fieldPred(d, path, c)

evalOps(d, path, ops) == \A i \in 1..Len(ops) : evalOp(d, path, ops[i])

evalElement(d, e) ==
    CASE e.k = "field" -> evalOps(d, e.path, e.ops)
      [] e.k = "$and" -> \A i \in 1..Len(e.subs) : evalFilter(d, e.subs[i])
      [] e.k = "$or" -> \E i \in 1..Len(e.subs) : evalFilter(d, e.subs[i])
      [] e.k = "$nor" -> ~\E i \in 1..Len(e.subs) : evalFilter(d, e.subs[i])

\* Matcher.Match of a compiled filter.
evalFilter(d, filter) == \A i \in 1..Len(filter) : evalElement(d, filter[i])

\* compileDoc's errors: an empty logical list, an operator it does not know,
\* an argument of the wrong shape.
RECURSIVE compiles(_)
RECURSIVE compilesOps(_)
compilesOps(ops) ==
    \A i \in 1..Len(ops) :
        LET c == ops[i]
        IN  CASE c.op \in {"$eq", "$ne", "$gt", "$gte", "$lt", "$lte", "$exists"} -> TRUE
              [] c.op \in {"$in", "$nin", "$all"} -> c.arg.t = "array"
              [] c.op = "$type" -> \A j \in 1..Len(c.arg.aliases) :
                                     c.arg.aliases[j] \in DOMAIN Rank \cup {"number"}
              [] c.op = "$size" -> /\ IsMachineNumber(c.arg) /\ ~IsNaN(c.arg)
                                   /\ FloatValue(AsFloat64(c.arg)) >= 0
                                   /\ FloatValue(AsFloat64(c.arg)) % 2 = 0
              [] c.op = "$not" -> "ops" \in DOMAIN c.arg /\ compilesOps(c.arg.ops)
              [] c.op = "$elemMatch" -> IF "ops" \in DOMAIN c.arg THEN compilesOps(c.arg.ops)
                                        ELSE compiles(c.arg.filter)
              [] OTHER -> FALSE
compiles(filter) ==
    \A i \in 1..Len(filter) :
        IF filter[i].k = "field" THEN compilesOps(filter[i].ops)
        ELSE /\ filter[i].k \in {"$and", "$or", "$nor"}
             /\ filter[i].subs # <<>>
             /\ \A j \in 1..Len(filter[i].subs) : compiles(filter[i].subs[j])

-----------------------------------------------------------------------------
(* Sort: keys [path, desc], a missing field as null, an array-valued path by *)
(* the least value it reaches; stable.                                       *)

sortValue(d, path) ==
    LET values == traverse(d, path)
    IN  IF values = <<>> THEN Null
        ELSE values[CHOOSE i \in 1..Len(values) :
                      /\ \A j \in 1..Len(values) : Compare(values[i], values[j]) <= 0
                      /\ \A j \in 1..(i - 1) : Compare(values[i], values[j]) < 0]

sortCompare(k, a, b) ==
    (IF k.desc THEN -1 ELSE 1) * Compare(sortValue(a, k.path), sortValue(b, k.path))

sortOrder(keys, a, b) ==
    LET first(c) == IF c = <<>> \/ Range(c) = {0} THEN 0
                    ELSE c[CHOOSE i \in DOMAIN c : c[i] # 0 /\ \A j \in 1..(i - 1) : c[j] = 0]
    IN  first([i \in 1..Len(keys) |-> sortCompare(keys[i], a, b)])
sortLess(keys, a, b) == sortOrder(keys, a, b) < 0

SortApply(keys, docs) ==
    LET arranged(order) == [i \in 1..Len(docs) |-> docs[order[i]]]
        before(c, i, j) == c < 0 \/ (c = 0 /\ i < j)
    IN  arranged(SetToSortSeq(1..Len(docs),
                     LAMBDA i, j : before(sortOrder(keys, docs[i], docs[j]), i, j)))

-----------------------------------------------------------------------------
(* Projection: entries [path, keep] in document order, of whole top-level   *)
(* fields; _id stays unless it is excluded by name.                         *)

projected(p) == SelectSeq(p, LAMBDA x : x.path # <<"_id">>)
projectionInclude(p) ==
    IF projected(p) # <<>> THEN projected(p)[1].keep
    ELSE \A i \in 1..Len(p) : p[i].keep
projectionCompiles(p) ==
    \A i \in 1..Len(projected(p)) : projected(p)[i].keep = projectionInclude(p)
projectionKeepID(p) ==
    LET ids == SelectSeq(p, LAMBDA x : x.path = <<"_id">>)
    IN  ids = <<>> \/ ids[Len(ids)].keep
named(p, k) == \E i \in 1..Len(projected(p)) : projected(p)[i].path[1] = k

ProjectionApply(p, d) ==
    IF p = <<>> THEN d
    ELSE Object(SelectSeq(d.f, LAMBDA x :
            IF x.k = "_id" THEN projectionKeepID(p)
            ELSE projectionInclude(p) <=> named(p, x.k)))

\* The values distinct reports of one document: arrays are unwound once.
Distinct(d, path) ==
    LET values == traverse(d, path)
    IN  FlattenSeq([i \in 1..Len(values) |->
            IF values[i].t = "array" THEN values[i].e ELSE <<values[i]>>])
=============================================================================
