----------------------------- MODULE MCQueries -----------------------------
(* Values, keys, filters, plans, updates, expressions and pipelines over    *)
(* small inputs.  A behaviour chooses a question and half of its input,     *)
(* then the other half, and then answers it; the properties say that the    *)
(* answers agree when that is done.                                         *)
EXTENDS Planner, UpdateOps, Validator, ColumnMaint

-----------------------------------------------------------------------------
(* Values, keys, filters, plans, updates and validators.                    *)

MCNameOrder == <<"", "0", "2", "_id", "a", "b", "count", "k", "max", "min", "v">>

VARIABLES kind, half, rest, chosen

Numbers == {Int32(0), Int32(3), Int64(5), Int64(4), Int64(6), Int32(-2), Int64(-5),
            Double(8), Double(9), Double(0), Double(SignBit + 3), Double(SignBit + 8),
            Double(InfMagnitude), Double(SignBit + InfMagnitude), Double(NaNMagnitude)}
NegativeZero == Double(SignBit)
Decimals == {[t |-> "decimal", hi |-> 1, lo |-> 0], [t |-> "decimal", hi |-> 129, lo |-> 2]}
Strings == {String(<<>>), String(<<0>>), String(<<1>>), String(<<1, 0>>), String(<<255>>)}
Binaries == {[t |-> "binData", sub |-> s, data |-> d] : s \in 0..1, d \in {<<>>, <<0>>, <<2>>}}
ScalarValues == Numbers \cup Strings
    \cup {Null, MinKey, MaxKey, Bool(FALSE), Bool(TRUE), Date(-3), Date(2),
          [t |-> "objectId", n |-> 7], [t |-> "timestamp", n |-> 1],
          [t |-> "timestamp", n |-> 256],
          [t |-> "regex", p |-> <<1>>, o |-> <<>>], [t |-> "regex", p |-> <<1, 2>>, o |-> <<1>>]}
Arrays == {Array(<<>>), Array(<<Int32(3)>>), Array(<<Int32(3), String(<<>>)>>),
           Array(<<Double(6), Null>>), Array(<<Array(<<>>)>>)}
Objects == {Object(<<>>), Object(<<Field("", Int32(0))>>), Object(<<Field("a", Int32(3))>>),
            Object(<<Field("a", Int32(3)), Field("b", Null)>>),
            Object(<<Field("b", Null), Field("a", Int32(3))>>)}
AllValues == ScalarValues \cup Arrays \cup Objects \cup Binaries \cup Decimals \cup {NegativeZero}

\* The values whose keys are meant to sort as they do: the encoding of
\* binaries, documents and decimals does not follow Compare, and the two
\* zeros, which are equal, have different keys.
KeyOrdered == ScalarValues \cup Arrays
CompoundValues == {Int64(5), Double(8), Int32(-2), String(<<>>), String(<<1>>),
                   String(<<1, 0>>), Null, Array(<<>>), Array(<<Int32(3)>>), MaxKey, Date(-3)}

-----------------------------------------------------------------------------
(* Documents and queries.                                                   *)

A == <<"a">>
Leaf == {Int32(1), Int32(3), Double(9), String(<<1>>), Null,
         Array(<<>>), Array(<<Int32(1), Int32(7)>>), Array(<<Array(<<Int32(1)>>), Int32(3)>>)}
Inner == Leaf \cup {Object(<<Field("b", v)>>) : v \in Leaf}
    \cup {Array(<<Object(<<Field("b", v)>>), w>>) : v \in Leaf, w \in {Int32(3), Object(<<Field("0", Null)>>)}}
MatchDocs == {Object(<<>>)} \cup {Object(<<Field("_id", Int32(1)), Field("a", v)>>) : v \in Inner}
MatchPaths == {A, <<"a", "b">>, <<"a", "0">>, <<"a", "0", "b">>, <<"b">>}
Ops == {[op |-> o, arg |-> v] : o \in {"$eq", "$ne", "$gt", "$lte"}, v \in Leaf}
    \cup {[op |-> o, arg |-> Array(e)] : o \in {"$in", "$nin", "$all"},
                                         e \in {<<>>, <<Int32(1), Null>>, <<Int32(7), Int32(1)>>}}
    \cup {[op |-> "$exists", arg |-> Bool(b)] : b \in BOOLEAN}
    \cup {[op |-> "$size", arg |-> Int32(2)],
          [op |-> "$type", arg |-> [aliases |-> <<"number", "array">>]],
          [op |-> "$not", arg |-> [ops |-> <<[op |-> "$gt", arg |-> Int32(2)]>>]],
          [op |-> "$elemMatch", arg |-> [filter |-> <<[k |-> "field", path |-> <<"b">>,
                                          ops |-> <<[op |-> "$eq", arg |-> Int32(1)]>>]>>]]}
    \cup {[op |-> "$elemMatch", arg |-> [ops |-> <<[op |-> "$gt", arg |-> Int32(l)],
                                                   [op |-> "$lt", arg |-> Int32(h)]>>]]
             : l \in {0, 2}, h \in {5, 9}}

\* Rows of two fields; b is there in every other row only.
RowValues == {Int32(1), Int32(3), Double(9), String(<<1>>), Null}
ArrayValues == {Array(<<>>), Array(<<Int32(1), Int32(7)>>)}
Row(id, v, w) == Object(<<Field("_id", Int32(id)), Field("a", v)>> \o w)
RowPairs(va) == {<<Row(1, v, <<>>), Row(2, w, <<Field("b", x)>>)>>
                    : v \in va, w \in va, x \in {Int32(1), String(<<>>)}}
    \cup {<<Row(1, v, <<>>), Object(<<Field("_id", Int32(2)), Field("b", Int32(1))>>)>> : v \in va}

One(o, v) == [op |-> o, arg |-> v]
OnA(ops) == [k |-> "field", path |-> A, ops |-> ops]
OnB(ops) == [k |-> "field", path |-> <<"b">>, ops |-> ops]
Filters ==
    {<<>>, <<OnB(<<One("$eq", Null)>>)>>,
     <<[k |-> "$or", subs |-> <<<<OnA(<<One("$eq", Int32(1))>>)>>,
                                <<OnB(<<One("$lt", Int32(2))>>)>>>>]>>,
     <<OnA(<<One("$eq", Int32(3))>>), OnB(<<One("$gte", Int32(1))>>)>>}
    \cup {<<OnA(<<One(o, v)>>)>> : o \in {"$eq", "$gt", "$lte", "$ne"}, v \in RowValues}
    \cup {<<OnA(<<One("$gte", v)>>), [k |-> "$and", subs |-> <<<<OnA(<<One("$gt", w)>>)>>>>]>>
            : v \in {Int32(1), Double(9)}, w \in {Int32(1), String(<<>>)}}
    \cup {<<OnA(<<One("$gt", Int32(0)), One("$lt", v)>>)>> : v \in {Int32(2), Double(9)}}

Part(path, desc) == [field |-> path, desc |-> desc]
IndexOn(key, sparse) == [key |-> key, sparse |-> sparse, partial |-> <<>>]
Indexes == {IndexOn(<<Part(A, d)>>, FALSE) : d \in BOOLEAN}
    \cup {IndexOn(<<Part(A, d), Part(<<"b">>, e)>>, FALSE) : d \in BOOLEAN, e \in BOOLEAN}
Sorts == {<<>>} \cup {<<[path |-> A, desc |-> d]>> : d \in BOOLEAN}
    \cup {<<[path |-> A, desc |-> TRUE], [path |-> <<"b">>, desc |-> FALSE]>>}
Projections == {<<>>, <<[path |-> A, keep |-> TRUE], [path |-> <<"_id">>, keep |-> FALSE]>>,
                <<[path |-> A, keep |-> TRUE]>>}
Request(f, s, p) == [filter |-> f, sort |-> s, proj |-> p, skip |-> 0, limit |-> 0]

-----------------------------------------------------------------------------
(* Updates and validators.                                                  *)

UpdateDocs ==
    {Object(<<Field("_id", Int32(1))>>)}
    \cup {Object(<<Field("a", v)>>) : v \in {Int32(3), Int64(15), Double(9),
                Array(<<Int32(1), Int32(7)>>), Array(<<Object(<<Field("b", Int32(1))>>), Null>>)}}
    \cup {Object(<<Field("b", Int32(-8)), Field("a", Object(<<Field("b", v)>>))>>)
             : v \in {Int32(1), Null, Array(<<Int32(3), Int32(1)>>)}}

OpOn(k, p, v) == [kind |-> k, path |-> p, arg |-> v, onlyInsert |-> FALSE]
Push(each, pos, sort, slice) ==
    [each |-> each, position |-> pos, sort |-> sort, slice |-> slice]
UpdatePaths == {A, <<"b">>, <<"a", "b">>, <<"a", "0">>, <<"a", "2">>}
UpdateOperations ==
    {OpOn("$set", p, v) : p \in UpdatePaths, v \in {Int32(3), Array(<<Int32(1)>>)}}
    \cup {OpOn(k, p, Int32(1)) : k \in {"$unset", "$inc", "$min", "$max"}, p \in UpdatePaths}
    \cup {OpOn("$mul", A, Double(3)), OpOn("$mul", A, Int64(2)), OpOn("$inc", <<"b">>, Int32(-1)),
          OpOn("$currentDate", <<"b">>, "date"), OpOn("$pop", A, -1), OpOn("$pop", <<"a", "b">>, 1),
          OpOn("$bit", A, [op |-> "xor", mask |-> 5]), OpOn("$bit", <<"b">>, [op |-> "or", mask |-> 1])}
    \cup {OpOn("$rename", r[1], r[2]) : r \in {<<A, <<"b">>>>, <<<<"a", "b">>, <<"b">>>>,
                                             <<<<"b">>, <<"a", "b">>>>, <<<<"a", "0">>, <<"b">>>>}}
    \cup {OpOn("$push", p, Push(<<Int32(5), Int32(2)>>, <<1>>, s, n))
             : p \in {A, <<"a", "b">>}, s \in {<<>>, <<[dir |-> -1, field |-> ""]>>},
               n \in {<<>>, <<-2>>}}
    \cup {OpOn(k, p, <<Int64(7), Null, Null>>) : k \in {"$addToSet", "$pullAll"},
                                               p \in {A, <<"a", "b">>}}
    \cup {OpOn("$pull", p, c) : p \in {A, <<"a", "b">>},
             c \in {[value |-> Double(2)], [ops |-> <<One("$gte", Int32(3))>>],
                    [filter |-> <<OnB(<<One("$eq", Int32(1))>>)>>]}}

\* No operation puts an element behind a gap of an array.
RECURSIVE NoGap(_, _)
NoGap(c, path) ==
    IF path = <<>> \/ c.t \notin {"object", "array"} THEN TRUE
    ELSE IF find(c, path[1]) # 0 THEN NoGap(leafValue(c, path[1]), Tail(path))
    ELSE c.t = "array" => path[1] \in DOMAIN ArrayIndexes /\ ArrayIndexes[path[1]] = Len(c.e)
UpdatesOf(doc) ==
    {ops \in UpdateOperations \X UpdateOperations :
        \A i \in 1..2 : \A j \in 1..Len(touched(ops[i])) : NoGap(doc, touched(ops[i])[j])}

Bounds == {Int32(1), Int32(3), Double(9)}
FieldValues == ScalarValues \cup Objects \cup Decimals

-----------------------------------------------------------------------------
DocumentsInit ==
    /\ chosen = FALSE
    /\ rest = 0
    /\ \/ kind = "order" /\ half \in AllValues
       \/ kind = "key" /\ half \in KeyOrdered
       \/ kind = "compound" /\ half \in CompoundValues \X CompoundValues
       \/ kind = "match" /\ half \in MatchDocs
       \/ kind = "update" /\ half \in UpdateDocs
       \/ kind = "validate" /\ half \in FieldValues
       \/ kind = "plan" /\ half \in RowPairs(RowValues) \cup RowPairs(ArrayValues \cup {Int32(3)})

Choose(k, S) == kind = k /\ rest' \in S

DocumentsNext ==
    /\ ~chosen /\ chosen' = TRUE
    /\ UNCHANGED <<kind, half>>
    /\ \/ Choose("order", AllValues)
       \/ Choose("key", KeyOrdered)
       \/ Choose("compound", CompoundValues \X CompoundValues \X BOOLEAN \X BOOLEAN)
       \/ Choose("match", MatchPaths)
       \/ Choose("plan", Indexes)
       \/ Choose("update", UpdatesOf(half))
       \/ Choose("validate", Bounds \X Bounds)

Asked(k) == chosen /\ kind = k

-----------------------------------------------------------------------------
(* Compare is a total preorder on values of every type: comparing in the    *)
(* other direction gives the other sign and "not greater" is transitive,    *)
(* also across integers that no double represents, NaN and decimals         *)
(* (bson.Compare).                                                          *)
CompareIsTotalOrder ==
    Asked("order") =>
        /\ Compare(half, rest) = 0 - Compare(rest, half)
        /\ \A c \in AllValues :
              Compare(half, rest) <= 0 /\ Compare(rest, c) <= 0 => Compare(half, c) <= 0

(* A key decodes, in front of any other bytes and in either direction, to   *)
(* the value it was made from and to exactly its own length, up to the      *)
(* numeric type and the rounding of long integers; documents, arrays and    *)
(* regexes are refused (AppendDecodedField against EncodeField).            *)
DecodeInvertsEncode ==
    Asked("key") =>
        \A desc \in BOOLEAN :
            LET key == EncodeField(half, desc)
                got == AppendDecodedField(key \o EncodeField(rest, desc), desc)
            IN  IF half.t \in {"object", "array", "regex"} THEN got = <<>>
                ELSE /\ got[2] = Len(key)
                     /\ IF half.t = "long" THEN got[1] = Double(FloatOf(half.n))
                        ELSE Equal(got[1], half)

(* The byte order of compound keys is the order of their fields, each in    *)
(* its own direction, however long the encodings of the fields are: only    *)
(* longs that round to the same double may fall together (EncodeField,      *)
(* AppendField, IndexSpec.Keys).                                            *)
CompoundKeyOrder ==
    Asked("compound") =>
        LET dir(c, desc) == IF desc THEN 0 - c ELSE c
            rounded(v) == IF v.t = "long" THEN Double(FloatOf(v.n)) ELSE v
            c1 == dir(Compare(rounded(half[1]), rounded(rest[1])), rest[3])
            c2 == dir(Compare(rounded(half[2]), rounded(rest[2])), rest[4])
            key(v, w) == EncodeField(v, rest[3]) \o EncodeField(w, rest[4])
        IN  cmpBytes(key(half[1], half[2]), key(rest[1], rest[2]))
                = IF c1 # 0 THEN c1 ELSE c2

(* The walk that avoids collecting values gives every leaf operator the     *)
(* answer of the full traversal with its array fan-out (fieldPred.eval,     *)
(* traverseSingle against traverse).                                        *)
FastPathAgrees ==
    Asked("match") =>
        \A c \in Ops : compilesOps(<<c>>) /\ c.op # "$not" =>
            (fieldPred(half, rest, c) <=> evalTraversed(half, rest, c))

(* What distinct reports of a document is what an equality filter finds the *)
(* document by: the unwinding of arrays agrees with the matcher's           *)
(* (query.Distinct against eqLeaf).                                         *)
DistinctValuesMatch ==
    Asked("match") =>
        \A v \in Range(Distinct(half, rest)) :
            evalFilter(half, <<[k |-> "field", path |-> rest, ops |-> <<One("$eq", v)>>]>>)

\* The cases in which the planner's range is exact enough: for an index with
\* array values, a range with two ends may be met by two different elements.
TameBounds(filter, idx, rows) ==
    Multikey(idx, rows) =>
        \A i \in 1..Len(idx.key) :
            LET b == fieldBound(filter, idx.key[i].field)
            IN  b.eq # <<>> \/ b.lo = <<>> \/ b.hi = <<>>

SameBag(s, u) ==
    /\ Len(s) = Len(u)
    /\ \A i \in 1..Len(s) : Cardinality({j \in 1..Len(s) : s[j] = s[i]})
                              = Cardinality({j \in 1..Len(u) : u[j] = s[i]})

(* An index never changes the answer: scanning the bounds derived from the  *)
(* filter and fetching gives the documents of the collection scan, whatever *)
(* index is chosen, for null, missing and mixed-type fields, both           *)
(* directions and array values (chooseIndex, buildScanBounds, FetchStage).  *)
IndexPlanAgrees ==
    Asked("plan") =>
        \A f \in Filters :
            LET req == Request(f, <<>>, <<>>)
            IN  eligible(req, rest) /\ TameBounds(f, rest, half) =>
                  SameBag(IndexPlan(req, rest, half), CollectionScan(req, half))

(* When the planner leaves out the sort because the index supplies the      *)
(* order, the result is in that order (providesSort).                       *)
ProvidedOrderIsSorted ==
    Asked("plan") =>
        \A f \in Filters, s \in Sorts :
            LET req == Request(f, s, <<>>)
                out == IndexPlan(req, rest, half)
            IN  providesSort(rest.key, s) /\ ~Multikey(rest, half) =>
                  \A i, j \in 1..Len(out) : i < j => ~sortLess(s, out[j], out[i])

\* Filters that cannot tell a null from a missing field: a range operator with
\* a null operand does, and a key cannot.
NullBlind(filter) ==
    \A i \in 1..Len(collectBounds(filter)) :
        LET c == collectBounds(filter)[i] IN c.arg = Null => c.op \in {"$eq", "$ne"}

(* A covered plan, which never reads a document, returns the projected      *)
(* fields of the documents the collection scan returns, a missing field as  *)
(* null and a number as an equal double, for the filters that treat null    *)
(* and missing alike (canCover, decodeKey).                                 *)
CoveredPlanAgrees ==
    Asked("plan") =>
        \A f \in Filters, p \in Projections :
            LET req == Request(f, <<>>, p)
                got == IndexPlan(req, rest, half)
                want == CollectionScan(req, half)
                value(d, k) == IF HasField(d, k) THEN Lookup(d, k) ELSE Null
                same(d, e) == \A k \in {"_id", "a", "b"} : Equal(value(d, k), value(e, k))
            IN  eligible(req, rest) /\ canCover(req, rest, Multikey(rest, half)) /\ NullBlind(f) =>
                  /\ Len(got) = Len(want)
                  /\ \A i \in 1..Len(want) :
                        Cardinality({j \in 1..Len(want) : same(want[j], want[i])})
                          = Cardinality({j \in 1..Len(got) : same(got[j], want[i])})

-----------------------------------------------------------------------------
\* A document as a set of fields.
RECURSIVE Unordered(_)
Unordered(v) ==
    CASE v.t = "object" -> [t |-> "object", fields |-> {<<v.f[i].k, Unordered(v.f[i].v)>> : i \in 1..Len(v.f)}]
      [] v.t = "array" -> [t |-> "array", e |-> [i \in 1..Len(v.e) |-> Unordered(v.e[i])]]
      [] OTHER -> v

(* The operators of an accepted update do not depend on their order: what   *)
(* the conflict check lets through gives the same fields, or the same       *)
(* refusal, in both orders (checkConflicts, Update.apply).                  *)
ConflictFreeUpdatesCommute ==
    Asked("update") =>
        LET r == UpdateDoc(half, rest)
            s == UpdateDoc(half, <<rest[2], rest[1]>>)
        IN  /\ r = <<>> <=> s = <<>>
            /\ r # <<>> => Unordered(r[1]) = Unordered(s[1])

Idempotent == {"$set", "$unset", "$min", "$max", "$rename", "$currentDate", "$addToSet",
               "$pull", "$pullAll"}

(* An update of idempotent operators that is repeated, as a retried write   *)
(* is, changes nothing the second time and so reports no modification       *)
(* (Update.Apply's changed flag, isolating missing fields, renames and      *)
(* set-like arrays).                                                        *)
RepeatedUpdateSettles ==
    Asked("update") =>
        LET r == UpdateDoc(half, rest)
        IN  rest[1].kind \in Idempotent /\ rest[2].kind \in Idempotent /\ r # <<>> =>
              UpdateDoc(r[1], rest) = r

\* The path goes through documents only.
RECURSIVE Direct(_, _)
Direct(c, path) ==
    \/ path = <<>>
    \/ c.t = "object" /\ (HasField(c, path[1]) => Direct(Lookup(c, path[1]), Tail(path)))

(* What an update operator leaves behind is what the matching query         *)
(* operator finds: $set its value, $unset nothing, $min and $max a bound,   *)
(* $addToSet every operand, $pull and $pullAll no element their condition   *)
(* selects, $rename the old value under the new name (update/ against       *)
(* query/).                                                                 *)
UpdateEstablishesFilter ==
    Asked("update") =>
        LET op == rest[1]
            r == UpdateDoc(half, <<op>>)
            finds(path, o, v) ==
                evalFilter(r[1], <<[k |-> "field", path |-> path, ops |-> <<One(o, v)>>]>>)
            old == traverse(half, op.path)
        IN  r # <<>> =>
              CASE op.kind = "$set" -> finds(op.path, "$eq", op.arg)
                [] op.kind = "$unset" -> Direct(half, op.path) => finds(op.path, "$exists", Bool(FALSE))
                [] op.kind = "$min" -> finds(op.path, "$lte", op.arg) \/ finds(op.path, "$eq", Null)
                [] op.kind = "$max" -> finds(op.path, "$gte", op.arg) \/ ~finds(op.path, "$type", [aliases |-> <<"number">>])
                [] op.kind = "$addToSet" ->
                      \A i \in 1..Len(op.arg) : finds(op.path, "$eq", op.arg[i])
                [] op.kind = "$pullAll" ->
                      ~finds(op.path, "$elemMatch", [ops |-> <<One("$in", Array(op.arg))>>])
                [] op.kind = "$pull" ->
                      ~finds(op.path, "$elemMatch",
                             IF "value" \in DOMAIN op.arg THEN [ops |-> <<One("$eq", op.arg.value)>>]
                             ELSE op.arg)
                [] op.kind = "$rename" ->
                      evalFilter(half, <<[k |-> "field", path |-> op.path, ops |-> <<One("$exists", Bool(TRUE))>>]>>) =>
                         /\ finds(op.path, "$exists", Bool(FALSE))
                         /\ finds(op.arg, "$exists", Bool(TRUE))
                [] OTHER -> TRUE

FormsAgreeOn(lo, hi, v) ==
    LET f(o, x) == evalFilter(Object(<<Field("a", v)>>), <<OnA(<<One(o, x)>>)>>)
        n(x) == FloatValue(AsFloat64(x))
        s(kws) == validate([properties |-> [a |-> kws], required |-> {"a"}], Object(<<Field("a", v)>>))
    IN  /\ IsMachineNumber(v) /\ (v.t = "long" => v.n <= ExactInt) /\ ~IsNaN(v) =>
             /\ s([minimum |-> n(lo)]) <=> f("$gte", lo)
             /\ s([minimum |-> n(lo), exclusiveMinimum |-> TRUE]) <=> f("$gt", lo)
             /\ s([minimum |-> n(lo), maximum |-> n(hi), exclusiveMaximum |-> TRUE])
                   <=> f("$gte", lo) /\ f("$lt", hi)
             /\ s([not |-> [minimum |-> n(lo)]]) <=> f("$lt", lo)
        /\ s([enum |-> <<lo, Null, hi>>]) <=> f("$in", Array(<<lo, Null, hi>>))
        /\ \A alias \in BsonTypes \cup {"number"} :
              s([bsonType |-> <<alias, "null">>]) <=> f("$type", [aliases |-> <<alias, "null">>])
        /\ s([oneOf |-> <<[bsonType |-> <<"number">>], [type |-> <<"integer">>]>>])
              <=> f("$type", [aliases |-> <<"number">>]) /\ ~f("$type", [aliases |-> <<"int", "long">>])
                    /\ ~Whole(v)

(* The two forms of a validator agree: minimum, maximum, enum and type      *)
(* keywords accept a scalar field exactly when the filter with the matching *)
(* operators does, also under not and oneOf, NaN and rounded longs aside    *)
(* (node.validate against Matcher.Match, bsonTypeFor against typeAlias).    *)
ValidatorFormsAgree ==
    Asked("validate") => FormsAgreeOn(rest[1], rest[2], half)

-----------------------------------------------------------------------------

MCCalendarYears == 2010..2030
vars == <<kind, half, rest, chosen, columnVars>>

\* The column store that follows commits: integers and doubles ExactInt tells apart.
MCFields == <<"a", "b">>
MCContents == {<<Field("a", String(<<1>>)), Field("b", Int32(5))>>,
               <<Field("a", Int64(1)), Field("b", Double(8))>>}

PathA == Path(<<"a">>)
PathB == Path(<<"b">>)
Doc(id, a, b) == Object(<<Field("_id", Int32(id)), Field("a", a), Field("b", b)>>)
SeqsUpTo(S, n) == UNION {[1..k -> S] : k \in 0..n}

-----------------------------------------------------------------------------
(* Expressions.                                                             *)

LetDocs == {Object(<<Field("a", v)>>) : v \in {Int32(2), Array(<<Int32(1), Int32(2)>>)}}
Outer == [x |-> Int32(3)]
Bound == {Const(Int32(1)), PathA, Var("x", <<>>), Var("y", <<>>),
          Let(<<[n |-> "x", e |-> Const(Int32(5))]>>, ArrayOf(<<Var("x", <<>>), Var("y", <<>>)>>)),
          MapOf(ArrayOf(<<Var("x", <<>>), PathA>>), "x", ArrayOf(<<Var("x", <<>>), Var("this", <<>>)>>)),
          Reduce(ArrayOf(<<Const(Int32(1)), Var("x", <<>>)>>), Const(Int32(4)),
                 Op("$add", <<Var("value", <<>>), Var("this", <<>>)>>))}
\* A body over its two variables.
Body(x, y) == ArrayOf(<<x, Op("$cond", <<Op("$gt", <<x, Const(Int32(2))>>), y, x>>)>>)

SetElements == {Int32(1), Double(2), Int64(2), String(<<97>>)}
SetArrays == {Array(s) : s \in SeqsUpTo(SetElements, 3)}

\* Letters of one byte and of two.
Letters == {<<97>>, <<195, 169>>, <<195, 168>>}
Words(n) == {FlattenSeq(w) : w \in SeqsUpTo(Letters, n)}

Numerals == {Int32(n) : n \in {-8, -3, 0, 7}} \cup {Int64(n) : n \in {-16, -9, -8, 3, 8, 15}}
    \cup {Double(b) : b \in {0, 5, 16, 19, SignBit + 5, SignBit + 20, InfMagnitude, NaNMagnitude}}

-----------------------------------------------------------------------------
(* Dates: the turn of years that start on different weekdays, leap days.    *)

Days == UNION {{dayNumber(y, 12, 27) + i : i \in 0..11} : y \in {2014, 2015, 2016, 2017, 2020, 2023}}
    \cup {dayNumber(2016, 2, 29), dayNumber(2019, 2, 28), dayNumber(2020, 3, 31)}
Times == {at24(d, h) : d \in Days, h \in {0, 22}}
Zones == {[z |-> "none"], [z |-> "at", off |-> 2], [z |-> "at", off |-> -5]}
Units == {"year", "quarter", "month", "week", "day", "hour"}

-----------------------------------------------------------------------------
(* Pipelines.                                                               *)

OnField(p, o, v) == <<[k |-> "field", path |-> p, ops |-> <<[op |-> o, arg |-> v]>>]>>
MatchOf(filter, expr) == [s |-> "$match", filter |-> filter, expr |-> expr]
AddOf(name, path, e) == [s |-> name, fields |-> <<[path |-> path, e |-> e]>>]
SortOf(path, dir) == [s |-> "$sort", keys |-> <<[path |-> path, dir |-> dir]>>, limit |-> 0]
LimitOf(n) == [s |-> "$limit", n |-> n]
Stages ==
    {MatchOf(OnField(<<"a">>, "$gt", Int32(1)), <<>>),
     MatchOf(<<[k |-> "$or", subs |-> <<OnField(<<"b">>, "$eq", Int32(2)), OnField(<<"k">>, "$exists", Bool(TRUE))>>]>>, <<>>),
     MatchOf(<<>>, <<Op("$lt", <<PathA, PathB>>)>>),
     AddOf("$addFields", <<"b">>, PathA), AddOf("$set", <<"k">>, Op("$add", <<PathB, Const(Int32(1))>>)),
     AddOf("$set", <<"a", "k">>, PathB),
     LimitOf(0), LimitOf(1), LimitOf(2), SortOf(<<"_id">>, 1), SortOf(<<"_id">>, -1),
     [s |-> "$skip", n |-> 1], [s |-> "$replaceRoot", e |-> PathA]}
PipelineDocs == {<<Doc(1, v, Int32(2)), Doc(3, Int32(2), w), Doc(2, Int32(1), Int32(2))>>
                    : v \in {Int32(2), Null}, w \in {Int32(1), Object(<<Field("k", Int32(2))>>)}}
RECURSIVE ReadsOf(_)
ReadsOf(e) == CASE e.x = "path" -> {e.path[1]}
                [] e.x = "op" -> UNION {ReadsOf(e.args[i]) : i \in DOMAIN e.args}
                [] OTHER -> {}
\* No stage that adds fields reads one that an earlier stage added.
ReadsNoneAdded(p) ==
    \A i, j \in DOMAIN p : i < j /\ isAddFields(p[i]) /\ isAddFields(p[j]) =>
        reshapeRoots(p[i]) \cap UNION {ReadsOf(p[j].fields[f].e) : f \in DOMAIN p[j].fields} = {}
NoZeroLimit(p) == \A i \in DOMAIN p : p[i].s = "$limit" => p[i].n > 0

KeyValues == {Int32(1), Int32(2), Double(4), String(<<1>>), Null}
KeyedDocs(n, S) == {[i \in 1..n |-> Doc(i, f[i], Int32(n - i))] : f \in [1..n -> S]}

JoinValues == {Int32(1), Double(2), String(<<1>>), Null, Array(<<Int32(1), Null>>), Array(<<Array(<<Int64(1)>>)>>),
               Object(<<Field("a", Double(4))>>), Array(<<Object(<<Field("a", Int32(2))>>)>>)}
JoinDocs == {<<Doc(1, v, w), Object(<<Field("_id", Int32(2)), Field("b", w)>>), Doc(3, w, v)>>
                : v \in JoinValues, w \in JoinValues}
LookupOf(eq, lets, sub) == [s |-> "$lookup", as |-> <<"v">>, eq |-> eq, lets |-> lets, sub |-> sub]
Subs == {<<>>, <<LimitOf(1)>>, <<MatchOf(OnField(<<"a">>, "$eq", Int32(1)), <<>>)>>,
         <<SortOf(<<"_id">>, -1), [s |-> "$count", field |-> "count"]>>}

\* Graphs of three nodes: a holds the node, b the nodes it leads to.
Nodes == 1..3
Graphs == [Nodes -> SUBSET Nodes]
GraphDocs(g) == [n \in Nodes |-> Doc(n, Int32(n), Array(SetToSeq({Int32(m) : m \in g[n]})))]
GraphLookupOf(start, depth, restrict) ==
    [s |-> "$graphLookup", start |-> Const(Int32(start)), from |-> <<"b">>, to |-> <<"a">>, as |-> <<"v">>,
     maxDepth |-> depth, depthField |-> <<"k">>, restrict |-> restrict]

BucketBounds == {<<Int32(1), Int32(2), String(<<1>>)>>, <<Null, Int32(2), Int32(4)>>}

RedactLeaf == {Object(<<Field("a", Int32(n))>>) : n \in 1..3}
RedactValues == {Int32(1)} \cup RedactLeaf
    \cup {Array(<<x, Array(<<y>>)>>) : x \in RedactLeaf, y \in RedactLeaf}
RedactDocs == {Object(<<Field("a", Int32(n)), Field("b", v), Field("k", Object(<<Field("b", w)>>))>>)
                  : n \in 1..3, v \in RedactValues, w \in RedactValues}
RedactRule ==
    Op("$cond", <<Op("$eq", <<PathA, Const(Int32(1))>>), Var("PRUNE", <<>>),
                  Op("$cond", <<Op("$eq", <<PathA, Const(Int32(2))>>), Var("KEEP", <<>>), Var("DESCEND", <<>>)>>)>>)

ProjectDocs == {Object(<<Field("_id", Int32(1))>> \o fs) : fs \in
                   {<<>>, <<Field("a", Int32(1))>>, <<Field("b", Null), Field("a", Array(<<Int32(1)>>))>>,
                    <<Field("a", Object(<<Field("b", Int32(1))>>)), Field("k", Int32(2))>>}}
ProjectSpecs == {s \in SeqsUpTo({[path |-> <<f>>, keep |-> b] : f \in {"_id", "a", "b"}, b \in BOOLEAN}, 3) :
                    \A i, j \in DOMAIN s : i # j => s[i].path # s[j].path}

\* Columns: values of every kind, at the ends of the integers too; rows with
\* integers and doubles that ExactInt tells apart.
ColumnValues == {FromRawValue(v) : v \in {Null, Bool(TRUE), Int32(1), Int32(2), Int64(15), Int64(-16), Double(2),
                                          String(<<1>>), Array(<<Int32(1)>>)}}
ColumnContents == {<<String(<<1>>), Int32(5)>>, <<Int64(1), Double(8)>>, <<Double(2), Bool(TRUE)>>, <<Null, Int64(-6)>>}
ColumnFields == <<"a", "b">>
ColumnDoc(i, c) == Doc(i, c[1], c[2])
ColumnRows == {[i \in 1..3 |-> ColumnDoc(i, f[i])] : f \in [1..3 -> ColumnContents]}
ColumnEdits == {<<"none">>} \cup ({"update"} \X (1..3) \X {<<Int64(1), Double(8)>>, <<Null, Int64(-6)>>}) \cup ({"delete"} \X (1..3))
\* The store of the rows, built at version 1 and edited at version 2.
EditedStore(rows, e) ==
    LET s == Rebuild(NewStore("transactional", ColumnFields), rows, 1)
    IN  CASE e[1] = "none" -> s
          [] e[1] = "update" -> Update(s, rows[e[2]], ColumnDoc(e[2], e[3]), 2)
          [] OTHER -> Delete(s, rows[e[2]], 2)

-----------------------------------------------------------------------------
AggregationInit ==
    /\ chosen = FALSE
    /\ rest = 0
    /\ \/ kind = "let" /\ half \in LetDocs
       \/ kind = "sets" /\ half \in SetArrays
       \/ kind = "strings" /\ half \in Words(3)
       \/ kind = "convert" /\ half \in Numerals
       \/ kind = "date" /\ half \in Times
       \/ kind = "pipeline" /\ half \in PipelineDocs
       \/ kind = "keyed" /\ half \in KeyedDocs(3, KeyValues) \cup KeyedDocs(4, KeyValues \ {Null, Int32(2)})
       \/ kind = "join" /\ half \in JoinDocs
       \/ kind = "graph" /\ half \in Graphs
       \/ kind = "sample" /\ half \in 1..2
       \/ kind = "redact" /\ half \in RedactDocs
       \/ kind = "project" /\ half \in ProjectDocs
       \/ kind = "encode" /\ half \in ColumnValues
       \/ kind = "columns" /\ half \in ColumnRows


AggregationNext ==
    /\ ~chosen /\ chosen' = TRUE
    /\ UNCHANGED <<kind, half>>
    /\ \/ Choose("let", Bound \X Bound)
       \/ Choose("sets", SetArrays)
       \/ Choose("strings", Words(2) \X (0..3) \X (0..3))
       \/ Choose("convert", Numerals)
       \/ Choose("date", Zones \X Units)
       \/ Choose("pipeline", SeqsUpTo(Stages, 3))
       \/ Choose("keyed", {1, -1} \X (1..4))
       \/ Choose("join", Subs)
       \/ Choose("graph", {1, 2} \X {-1, 1} \X BOOLEAN)
       \/ Choose("sample", 2..4)
       \/ Choose("redact", {RedactRule})
       \/ Choose("project", ProjectSpecs)
       \/ Choose("encode", SeqsUpTo(ColumnValues, 3))
       \/ Choose("columns", ColumnEdits)

\* Beside the questions, one behaviour maintains a column store (ColumnMaint).
Maintaining == kind = "maintain" /\ half = 0 /\ rest = 0 /\ chosen = FALSE
Init ==
    \/ (DocumentsInit \/ AggregationInit) /\ ColumnInit /\ store.mode = "lazy"
    \/ Maintaining /\ ColumnInit
\* The question is answered, and nothing is kept of it.
Answer ==
    /\ kind # "answered" /\ (chosen \/ Maintaining)
    /\ kind' = "answered" /\ half' = 0 /\ rest' = 0 /\ chosen' = FALSE
    /\ heap' = <<>> /\ commits' = {} /\ store' = 0 /\ built' = 0 /\ applied' = <<>>
Next ==
    \/ (DocumentsNext \/ AggregationNext) /\ UNCHANGED columnVars
    \/ Maintaining /\ ColumnNext /\ UNCHANGED <<kind, half, rest, chosen>>
    \/ Answer
Spec == Init /\ [][Next]_vars


-----------------------------------------------------------------------------
(* A $let means its body with each variable replaced by its expression in   *)
(* the outer context, whatever $let, $map and $reduce inside rebind the     *)
(* same names (letExpr, evalCtx.withVar).                                   *)
LetIsSubstitution ==
    Asked("let") =>
        LET c == docCtx(half, Outer)
            let == Let(<<[n |-> "x", e |-> rest[1]], [n |-> "y", e |-> rest[2]]>>,
                       Body(Var("x", <<>>), Var("y", <<>>)))
            plain(e) == LET v == eval(e, c) IN IF v.t = "missing" THEN Const(missing) ELSE Const(v)
        IN  eval(let, c) = eval(Body(plain(rest[1]), plain(rest[2])), c)

(* The set operators describe one set each, for arrays with repeated values *)
(* of different numeric types: inclusion, equality, union, intersection and *)
(* difference agree with each other (ops_set.go).                           *)
SetOperatorsAgree ==
    Asked("sets") =>
        LET union == opSetUnion(<<half, rest>>)
            both == opSetIntersection(<<half, rest>>)
            only == opSetDifference(half, rest)
        IN  /\ opSetIsSubset(half, rest) = opSetEquals(<<union, rest>>)
            /\ opSetIsSubset(half, rest) = Bool(only.e = <<>>)
            /\ opSetEquals(<<union, opSetUnion(<<rest, only>>)>>) = Bool(TRUE)
            /\ Len(union.e) + Len(both.e) = Len(dedupe(half.e)) + Len(dedupe(rest.e))
            /\ opSetEquals(<<both, opSetIntersection(<<rest, half>>)>>) = Bool(TRUE)

\* The elements from a position, negative ones counted from the end.
DropTo(e, pos) ==
    LET from == IF pos >= 0 THEN pos ELSE IF pos + Len(e) < 0 THEN 0 ELSE pos + Len(e)
    IN  SubSeq(e, from + 1, Len(e))

(* A position means the same place to $slice, $arrayElemAt, $first, $last   *)
(* and $reverseArray, in range and beyond both ends (ops_array.go).         *)
ArrayPositionsAgree ==
    Asked("sets") =>
        \A pos \in -4..4, n \in 0..4 :
            LET slice == opSlice(<<half, Int32(pos), Int32(n)>>)
            IN  /\ slice = Array(takeFirst(DropTo(half.e, pos), n))
                /\ n > 0 /\ pos \in (0 - Len(half.e))..(Len(half.e) - 1) =>
                      opArrayElemAt(half, Int32(pos)) = endElem(slice, FALSE)
                /\ opSlice(<<half, Int32(0 - n)>>).e
                      = Reverse(opSlice(<<Array(Reverse(half.e)), Int32(n)>>).e)

(* Positions in code points and in bytes name the same places: what is      *)
(* found at a position is read back there, the two searches agree, and a    *)
(* string split or cut in two is put together again ($indexOfCP,            *)
(* $indexOfBytes, $substrCP, $substrBytes, $split, $replaceAll).            *)
StringPositionsAgree ==
    Asked("strings") =>
        LET s == String(half)
            sub == String(rest[1])
            from == Int32(rest[2])
            found == indexOf(<<s, sub, from>>, TRUE)
            whole == indexOf(<<s, sub>>, FALSE)
            parts == opSplit(s, sub)
        IN  /\ found.n >= 0 => /\ opSubstrCP(s, found, strLen(sub, TRUE)) = sub
                               /\ found.n >= rest[2]
            /\ indexOf(<<s, sub>>, TRUE) = (IF whole.n < 0 THEN whole
                    ELSE strLen(opSubstrBytes(s, Int32(0), whole), TRUE))
            /\ String(join([i \in DOMAIN parts.e |-> parts.e[i].s], rest[1])) = s
                  \/ rest[1] = <<>>
            /\ opConcat(<<opSubstrCP(s, Int32(0), from), opSubstrCP(s, from, Int32(-1))>>) = s
            /\ opReplace(s, sub, sub, TRUE) = s \/ rest[1] = <<>>

(* A conversion of a number to an integer keeps its value or has none, is   *)
(* undone by way of a string, and never reverses an order (toIntValue,      *)
(* toStringValue, ParseInt at the limits of both widths).                   *)
ConversionsKeepValue ==
    Asked("convert") =>
        LET to(v, t) == shorthandConvert(v, t)
            cut(v) == IF v.t = "double" THEN truncated(v) ELSE v.n
        IN  /\ \A t \in {"int", "long"} : to(half, t) # Null =>
                  /\ to(half, t).n = cut(half)
                  /\ to(to(to(half, t), "string"), t) = to(half, t)
                  /\ to(rest, t) # Null /\ Compare(half, rest) <= 0 => to(half, t).n <= to(rest, t).n
            /\ to(half, "int") # Null => Equal(to(half, "int"), to(half, "long"))

(* A date taken apart and put together again is the same date, in calendar  *)
(* and in ISO week parts, in every zone, at the turn of every kind of year  *)
(* (dateToParts, dateFromParts.evalISO).                                    *)
DatePartsRoundTrip ==
    Asked("date") =>
        \A iso \in BOOLEAN :
            dateFromParts(dateToParts(Date(half), rest[1], iso), rest[1], iso) = Date(half)

(* A truncated date is the last start of the unit at or before the date, in *)
(* the zone that was asked for, and truncating again changes nothing        *)
(* (truncUnit).                                                             *)
DateTruncIsFloor ==
    Asked("date") =>
        LET t == dateTrunc(Date(half), rest[2], 1, rest[1])
            next == dateAdd(t, rest[2], 1, rest[1], FALSE)
        IN  /\ t.n <= half /\ half < next.n
            /\ dateTrunc(t, rest[2], 1, rest[1]) = t

(* $dateDiff counts what $dateAdd added and $dateSubtract takes it away     *)
(* again, across month and year ends, on the days every month has (addUnit, *)
(* diffUnit).                                                               *)
DateArithmeticAgrees ==
    Asked("date") =>
        \A n \in 0..5 : civil(dayOf(half)).day <= 28 =>
            LET later == dateAdd(Date(half), rest[2], n, [z |-> "none"], FALSE)
            IN  /\ dateDiff(Date(half), later, rest[2]) = Int64(n)
                /\ dateAdd(later, rest[2], n, [z |-> "none"], TRUE) = Date(half)

-----------------------------------------------------------------------------
Plain(p, docs) == RunWith(p, docs, <<docs>>)
Optimized(p, docs) == RunWith(compiled(p), docs, <<docs>>)

(* The rewritten pipeline returns what the stages in their written order    *)
(* return, errors included, when no stage that adds fields reads one that   *)
(* an earlier one added and no limit is zero: limits and sorts coalesce,    *)
(* filters move forward and a bounded sort replaces a sort and a limit      *)
(* (optimizeRaw, fuseTopK).                                                 *)
OptimizerAgrees ==
    Asked("pipeline") /\ ReadsNoneAdded(rest) /\ NoZeroLimit(rest) => Optimized(rest, half) = Plain(rest, half)

ByA(dir) == <<[path |-> <<"a">>, dir |-> dir]>>
KeysOf(docs) == [i \in DOMAIN docs |-> resolvePath(docs[i], <<"a">>)]

(* The bounded heap keeps the documents of the first keys of the full sort, *)
(* in order, each document at most once, also when keys tie (loadTopK).     *)
TopKIsPrefix ==
    Asked("keyed") =>
        LET got == topK(ByA(rest[1]), rest[2], half)
            want == takeFirst(stableSort(ByA(rest[1]), half), rest[2])
        IN  /\ Len(got) = Len(want)
            /\ \A i \in DOMAIN got : Equal(KeysOf(got)[i], KeysOf(want)[i])
            /\ \A i, j \in DOMAIN got : got[i] = got[j] => i = j
            /\ ToSet(got) \subseteq ToSet(half)

Acc(f, op, arg) == [field |-> f, acc |-> op, arg |-> arg, n |-> Const(Int32(1)), by |-> ByA(1)]
GroupOf(key, accs) == [s |-> "$group", key |-> key, accs |-> accs]
ItemsOf(docs, f) == [i \in DOMAIN docs |-> Lookup(docs[i], f)]

(* $group puts two documents together exactly when their keys are equal,    *)
(* numbers of different types included, keeps the order in which the keys   *)
(* appear and counts every document once (groupSrc, groupKey).              *)
GroupsFollowEquality ==
    Asked("keyed") =>
        LET out == Plain(<<GroupOf(PathA, <<Acc("v", "$push", Path(<<"_id">>)), Acc("count", "$count", Const(Null))>>)>>, half)
            groupOf(d) == CHOOSE g \in DOMAIN out.docs : containsVal(Lookup(out.docs[g], "v").e, Lookup(d, "_id"))
        IN  /\ \A i, j \in DOMAIN half :
                  /\ groupOf(half[i]) = groupOf(half[j]) <=> Equal(KeysOf(half)[i], KeysOf(half)[j])
                  /\ i < j /\ (\A m \in 1..(j - 1) : ~Equal(KeysOf(half)[m], KeysOf(half)[j])) =>
                        groupOf(half[i]) < groupOf(half[j])
            /\ FoldLeft(LAMBDA n, c : n + c.n, 0, ItemsOf(out.docs, "count")) = Len(half)

(* An accumulator that orders its group agrees with sorting the input and   *)
(* taking the first or last, and the ones that keep n values agree with     *)
(* the ones that keep one (topBottomAcc, firstLastNAcc, maxMinNAcc).        *)
AccumulatorsAgree ==
    Asked("keyed") =>
        LET id == Path(<<"_id">>)
            run(pre, acc) == Lookup(Plain(Append(pre, GroupOf(Const(Null), <<acc>>)), half).docs[1], "v")
            sorted == <<[s |-> "$sort", keys |-> ByA(1), limit |-> 0]>>
        IN  /\ run(<<>>, Acc("v", "$top", id)) = run(sorted, Acc("v", "$first", id))
            /\ run(<<>>, Acc("v", "$bottom", id)) = run(sorted, Acc("v", "$last", id))
            /\ \A p \in {<<"$topN", "$top">>, <<"$bottomN", "$bottom">>, <<"$firstN", "$first">>, <<"$lastN", "$last">>,
                         <<"$maxN", "$max">>} :
                  (p[1] = "$maxN" => \E i \in DOMAIN half : ~isNullish(KeysOf(half)[i])) =>
                     run(<<>>, Acc("v", p[1], PathA)) = Array(<<run(<<>>, Acc("v", p[2], PathA))>>)

(* Every document lands in the one bucket whose bounds enclose its value,   *)
(* or in the default, and the buckets come out in the order of their        *)
(* bounds; automatic buckets of different values differ by at most one in   *)
(* size and follow each other without a gap (bucketID, bucketAutoSrc.emit). *)
BucketsPartition ==
    Asked("keyed") =>
        /\ \A bounds \in BucketBounds :
              LET other == String(<<9>>)
                  out == bucketStage(half, PathA, bounds, <<other>>, <<countAcc, Acc("v", "$push", PathA)>>, NoVars)
                  ids == ItemsOf(out.docs, "_id")
                  upper(b) == CHOOSE i \in DOMAIN bounds : i > 1 /\ bounds[i - 1] = b
              IN  /\ ~out.err
                  /\ \A g \in DOMAIN ids : \A i \in DOMAIN Lookup(out.docs[g], "v").e :
                        LET v == Lookup(out.docs[g], "v").e[i]
                            inside(k) == Compare(bounds[k - 1], v) <= 0 /\ Compare(v, bounds[k]) < 0
                        IN  IF ids[g] = other THEN \A k \in 2..Len(bounds) : ~inside(k)
                            ELSE inside(upper(ids[g]))
                  /\ \A g, h \in DOMAIN ids : g < h => Compare(ids[g], ids[h]) < 0
                  /\ FoldLeft(LAMBDA n, c : n + c.n, 0, ItemsOf(out.docs, "count")) = Len(half)
        /\ (\A i, j \in DOMAIN half : i # j => ~Equal(KeysOf(half)[i], KeysOf(half)[j])) =>
              LET out == bucketAutoStage(half, PathA, rest[2], <<countAcc>>, NoVars)
                  sizes == ItemsOf(out.docs, "count")
              IN  /\ ~out.err
                  /\ \A i, j \in DOMAIN sizes : sizes[i].n - sizes[j].n \in {-1, 0, 1}
                  /\ FoldLeft(LAMBDA n, c : n + c.n, 0, sizes) = Len(half)
                  /\ \A i \in 2..Len(sizes) : Lookup(Lookup(out.docs[i - 1], "_id"), "max")
                                                = Lookup(Lookup(out.docs[i], "_id"), "min")

(* The hash join of $lookup returns the foreign documents the scan it       *)
(* replaces would: those whose value, or an element of it, equals the local *)
(* value or an element of it, null and missing alike, each once and in      *)
(* collection order (buildForeignIndex, equalityMatches, joinOverlaps).     *)
HashJoinAgrees ==
    Asked("join") =>
        \A i \in DOMAIN half :
            equalityMatches(half[i], half, <<"a">>, <<"b">>)
              = SelectSeq(half, LAMBDA f : joinOverlaps(joinCandidates(resolvePath(half[i], <<"a">>)),
                                                        resolvePath(f, <<"b">>)))

Scalar(v) == v.t \notin {"array", "missing"}
(* A sub-pipeline means the same wherever it stands: $lookup runs it over   *)
(* the documents the equality joined, $unionWith appends its result, $facet *)
(* reports it under its name, and a correlated condition finds what the     *)
(* equality form finds (pipelineMatches, unionWithSrc, facetSrc).           *)
SubPipelinesAgree ==
    Asked("join") =>
        LET eq == <<<<"a">>, <<"b">>>>
            joined(d, st) == Lookup(Plain(<<MatchOf(OnField(<<"_id">>, "$eq", Lookup(d, "_id")), <<>>), st>>, half).docs[1], "v").e
            correlated == LookupOf(<<>>, <<[n |-> "x", e |-> PathA]>>,
                                   <<<<MatchOf(<<>>, <<Op("$eq", <<Var("x", <<>>), PathB>>)>>)>>>>)
        IN  /\ \A i \in DOMAIN half :
                  /\ joined(half[i], LookupOf(eq, <<>>, <<rest>>))
                        = Plain(rest, joined(half[i], LookupOf(eq, <<>>, <<>>))).docs
                  /\ Scalar(resolvePath(half[i], <<"a">>))
                        /\ (\A j \in DOMAIN half : Scalar(resolvePath(half[j], <<"b">>))) =>
                        joined(half[i], correlated) = joined(half[i], LookupOf(eq, <<>>, <<>>))
            /\ Plain(<<[s |-> "$unionWith", sub |-> <<rest>>]>>, half).docs = half \o Plain(rest, half).docs
            /\ Plain(<<[s |-> "$facet", facets |-> <<[k |-> "a", sub |-> rest], [k |-> "b", sub |-> <<>>]>>]>>, half).docs
                  = <<Object(<<Field("a", Array(Plain(rest, half).docs)), Field("b", Array(half))>>)>>

\* The nodes at most n edges away.
RECURSIVE Within(_, _, _)
Within(g, start, n) ==
    IF n = 0 THEN {start} ELSE LET near == Within(g, start, n - 1) IN near \cup UNION {g[m] : m \in near}

(* $graphLookup reports every document within the depth bound once, with    *)
(* its distance from the start, through cycles and self-loops, and passes   *)
(* through no document the restriction refuses (traverse, docIdentity).     *)
GraphLookupReachesAll ==
    Asked("graph") =>
        LET open3 == IF rest[3] THEN Nodes \ {2} ELSE Nodes
            g == [n \in Nodes |-> IF n \in open3 THEN half[n] \cap open3 ELSE {}]
            reached(n) == IF rest[1] \in open3 THEN Within(g, rest[1], n) ELSE {}
            most == IF rest[2] < 0 THEN Cardinality(Nodes) ELSE rest[2]
            st == GraphLookupOf(rest[1], rest[2],
                                IF rest[3] THEN <<OnField(<<"_id">>, "$ne", Int32(2))>> ELSE <<>>)
            got == Lookup(Plain(<<st, LimitOf(1)>>, GraphDocs(half)).docs[1], "v").e
        IN  /\ {Lookup(got[i], "_id").n : i \in DOMAIN got} = reached(most)
            /\ Len(got) = Cardinality(reached(most))
            /\ \A i \in DOMAIN got :
                  LET n == Lookup(got[i], "_id").n
                      depth == Lookup(got[i], "k").n
                  IN  n \in reached(depth) /\ (depth > 0 => n \notin reached(depth - 1))

(* Every set of documents of the sample's size is drawn with the same       *)
(* probability: the same number of the equally likely sequences of draws    *)
(* ends in each (sampleSrc.load).                                           *)
SampleIsUniform ==
    Asked("sample") =>
        LET n == IF rest < half THEN half ELSE rest
            ends == [d \in Draws(half, n) |-> ToSet(reservoir(half, d))]
            ways(S) == Cardinality({d \in DOMAIN ends : ends[d] = S})
        IN  \A S, T \in {R \in SUBSET (1..n) : Cardinality(R) = half} : ways(S) = ways(T)

RECURSIVE NoPruned(_)
NoPruned(v) ==
    CASE v.t = "object" ->
            \/ HasField(v, "a") /\ Lookup(v, "a") = Int32(2)
            \/ /\ ~(HasField(v, "a") /\ Lookup(v, "a") = Int32(1))
               /\ \A i \in DOMAIN v.f : NoPruned(v.f[i].v)
      [] v.t = "array" -> \A i \in DOMAIN v.e : NoPruned(v.e[i])
      [] OTHER -> TRUE

(* After $redact no document the rule prunes is left, at any depth of       *)
(* documents and arrays outside the ones it keeps whole, and redacting      *)
(* again changes nothing (redactDoc, redactValue).                          *)
RedactLeavesNoPruned ==
    Asked("redact") =>
        LET r == redactDoc(rest, half, half, NoVars)
        IN  r.r = "keep" => /\ NoPruned(r.v)
                            /\ redactDoc(rest, r.v, r.v, NoVars) = r

(* $project and the projection of find, two implementations, accept the     *)
(* same top-level specifications and give the same fields (projMode,        *)
(* emitID, projectExclude against Projection.Apply).                        *)
ProjectAgreesWithFind ==
    Asked("project") =>
        LET spec == [i \in DOMAIN rest |-> [path |-> rest[i].path, p |-> [p |-> IF rest[i].keep THEN "in" ELSE "out"]]]
            ok == projMode(buildProj(projNode, spec)) # "mixed"
        IN  rest # <<>> /\ (\E i \in DOMAIN rest : rest[i].path # <<"_id">>) =>
               /\ ok <=> projectionCompiles(rest)
               /\ ok => projectDoc(spec, half, docCtx(half, NoVars)) = ProjectionApply(rest, half)

(* $unwind makes one document of each element, at its own index, and        *)
(* grouping the documents again restores every array that had an element    *)
(* (unwindSrc.expand, docWith, pushAcc).                                    *)
UnwindIsUndoneByGroup ==
    Asked("join") =>
        LET un == [s |-> "$unwind", path |-> <<"a">>, index |-> <<"k">>, preserve |-> FALSE]
            out == Plain(<<un>>, half).docs
            back == Plain(<<un, GroupOf(Path(<<"_id">>), <<Acc("v", "$push", PathA)>>)>>, half).docs
            orig(d) == resolvePath(half[CHOOSE i \in DOMAIN half : Lookup(half[i], "_id") = Lookup(d, "_id")], <<"a">>)
        IN  /\ \A i \in DOMAIN out : orig(out[i]).t = "array" =>
                  opArrayElemAt(orig(out[i]), Lookup(out[i], "k")) = Lookup(out[i], "a")
            /\ \A i \in DOMAIN back : orig(back[i]).t = "array" => Lookup(back[i], "v") = orig(back[i])
            /\ {Lookup(back[i], "_id") : i \in DOMAIN back}
                  = {Lookup(half[i], "_id") : i \in {j \in DOMAIN half : ~isNullish(resolvePath(half[j], <<"a">>))}}

-----------------------------------------------------------------------------
(* Columns.                                                                 *)

Truncated(e) ==
    CASE e.tag = "plain" -> [e EXCEPT !.vals = Front(@)]
      [] e.tag = "rle" -> [e EXCEPT !.runs = Front(@)]
      [] e.tag = "dict" -> [e EXCEPT !.bits = SubSeq(@, 1, Len(@) - ByteBits)]
      [] OTHER -> [e EXCEPT !.p.bits = SubSeq(@, 1, Len(@) - ByteBits)]
Shortens(e) == IF e.tag \in {"plain", "rle"} THEN TRUE ELSE IF e.tag = "dict" THEN e.w > 0 ELSE e.p.w > 0

(* Every encoding a column may choose gives its values back, at the ends of *)
(* the integers where differences wrap and with nulls in between, and       *)
(* refuses a stream that lost its last byte or value; a segment survives    *)
(* its serialized form (EncodeColumn, chooseEncoding, MarshalBinary).       *)
EncodingsRoundTrip ==
    Asked("encode") =>
        LET vals == <<half>> \o rest
            solid == SelectSeq(vals, LAMBDA v : v.kind # "null")
            seg == buildSegment(vals, [i \in DOMAIN vals |-> 2 * i], [i \in DOMAIN vals |-> 1], [i \in DOMAIN vals |-> 0])
        IN  /\ \A i \in DOMAIN applicable(solid) :
                  LET e == applicable(solid)[i]
                  IN  /\ decodeStream(e, Len(solid)) = <<solid>>
                      /\ solid # <<>> /\ Shortens(e) => decodeStream(Truncated(e), Len(solid)) = <<>>
            /\ DecodeColumn(EncodeColumn(vals)) = <<vals>>
            /\ UnmarshalSegment(MarshalBinary(seg)) = seg

SpecsOver(key, arg) ==
    [key |-> key, accs |-> <<[out |-> "v", acc |-> "$sum", field |-> arg, const |-> Null],
                             [out |-> "k", acc |-> "$avg", field |-> arg, const |-> Null],
                             [out |-> "min", acc |-> "$min", field |-> arg, const |-> Null],
                             [out |-> "max", acc |-> "$max", field |-> arg, const |-> Null],
                             [out |-> "count", acc |-> "$sum", field |-> NoField, const |-> Int32(1)]>>]
\* The same $group as a stage of a pipeline.
StageOf(spec) ==
    [s |-> "$group", key |-> IF spec.key = NoField THEN Const(Null) ELSE Path(<<spec.key>>),
     accs |-> [i \in DOMAIN spec.accs |->
                 LET a == spec.accs[i] IN
                 [field |-> a.out, acc |-> a.acc,
                  arg |-> IF a.field = NoField THEN Const(a.const) ELSE Path(<<a.field>>)]]]

(* The rows rebuilt from the columns and grouped by the pipeline, and the   *)
(* columns folded by the executor, give the same documents in the same      *)
(* order for a $group that reads a column, also after updates and deletes   *)
(* ("byte-identical to the reconstruct path", GroupExec).                   *)
VectorGroupAgrees ==
    Asked("columns") =>
        LET s == EditedStore(half, rest)
        IN  \A snap \in 1..2 : \A key \in ToSet(ColumnFields) \cup {NoField} : \A arg \in ToSet(ColumnFields) :
                LET spec == SpecsOver(key, arg)
                    docs == Reconstruct(s, snap, groupNeed(spec), <<>>)
                IN  RowCount(s, snap) > 0 => GroupExec(s, snap, spec) = RunWith(<<StageOf(spec)>>, docs, <<>>).docs

(* A segment the zone map skips holds no row the predicate selects, and the *)
(* two ways to total a column agree: group by group over the rows and block *)
(* by block over the numbers (skipForRange, GroupBy, SumField).             *)
ZonesOnlySkip ==
    Asked("columns") =>
        LET s == EditedStore(half, rest)
        IN  \A f \in ToSet(ColumnFields) : \A op \in RangeOps : \A i \in DOMAIN half :
                LET pred == [field |-> f, op |-> op, bound |-> FromField(half[i], f)]
                    total == SumField(s, 2, "b", <<pred>>)
                    groups == GroupBy(s, 2, NoField, "b", <<pred>>)
                IN  /\ \A k \in DOMAIN s.bounds : skipForRange(s.segs[f][k], pred) =>
                          \A r \in 1..s.bounds[k].n : ~predMatches(pred, Values(s.segs[f][k])[r])
                    /\ IF groups = <<>> THEN total.nums = 0
                       ELSE groups[1].agg.sum = total.sum /\ groups[1].agg.nums = total.nums

(* An aggregation over six documents, enough to prefer the columns, returns *)
(* the groups it returns over the heap, with the same totals, whether the   *)
(* columns are folded or the documents rebuilt from them, behind a range    *)
(* filter too, when some field is read (Txn.Aggregate, columnGroup,         *)
(* columnSource: "accelerates the read but never changes the answer").      *)
ColumnAnswerAgrees ==
    Asked("columns") /\ rest = <<"none">> =>
        LET docs == [i \in 1..6 |-> ColumnDoc(i, <<Lookup(half[1 + (i % 3)], "a"), Int32(i % 2)>>)]
            s == Rebuild(NewStore("transactional", ColumnFields), docs, 1)
            filters == {<<>>} \cup {<<MatchOf(OnField(<<"b">>, op, Int32(n)), <<>>)>> : op \in RangeOps, n \in 0..1}
            groups == {<<StageOf(SpecsOver("a", f))>> : f \in ToSet(ColumnFields)}
        IN  \A p \in {f \o g : f \in filters, g \in groups} :
                LET got == Aggregate(p, <<s>>, 1, docs).docs
                    want == RunWith(compiled(p), docs, <<docs>>).docs
                IN  /\ Len(got) = Len(want)
                    /\ \A i \in DOMAIN got : \A f \in {"_id", "v", "k", "min", "max", "count"} :
                          Equal(Lookup(got[i], f), Lookup(want[i], f))

-----------------------------------------------------------------------------
(* What holds whenever a question is answered.                              *)


\* However a query is answered, by the matcher's fast path, by an index, in the
\* order of an index or from its keys alone, it is answered as by a scan.
PlansAgree ==
    [][Answer =>
        /\ FastPathAgrees
        /\ DistinctValuesMatch
        /\ IndexPlanAgrees
        /\ ProvidedOrderIsSorted
        /\ CoveredPlanAgrees]_vars

\* Operators of one update that touch different paths commute, an update that
\* says what to be settles and is found by the filter it establishes, and the two
\* forms of a validator agree.
UpdatesAndValidatorsAgree ==
    [][Answer =>
        /\ ConflictFreeUpdatesCommute
        /\ RepeatedUpdateSettles
        /\ UpdateEstablishesFilter
        /\ ValidatorFormsAgree]_vars

\* The expression operators agree with their meaning: variables, sets, positions
\* in arrays and strings, conversions and dates.
ExpressionsAgree ==
    [][Answer =>
        /\ LetIsSubstitution
        /\ SetOperatorsAgree
        /\ ArrayPositionsAgree
        /\ StringPositionsAgree
        /\ ConversionsKeepValue
        /\ DatePartsRoundTrip
        /\ DateTruncIsFloor
        /\ DateArithmeticAgrees]_vars


=============================================================================
