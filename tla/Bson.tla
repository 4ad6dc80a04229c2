-------------------------------- MODULE Bson --------------------------------
(* BSON values, their total order and the normalisation of _id (bson/).     *)
(*                                                                          *)
(* A value is a record whose field t is the alias of its type.  Payloads    *)
(* are small: strings and binaries are sequences of bytes, field names are  *)
(* strings ranked by NameOrder.  A double is its bit pattern in eight bits, *)
(* a sign and a magnitude of 0..127 counted in halves, of which 126 is the  *)
(* infinity and 127 NaN; as in IEEE 754 the magnitude grows with the        *)
(* pattern and there are two zeros.  Integers beyond ExactInt, which stands *)
(* for 2^53, lose their lowest bit when they are converted to a double.     *)
EXTENDS Integers, Sequences, SequencesExt, FiniteSets

CONSTANTS ExactInt,      \* the largest n with every integer of 0..n a double
          NameOrder      \* the field names in byte order, a sequence of strings

ASSUME ExactIntAssumption == ExactInt \in Nat
ASSUME NameOrderAssumption == IsInjective(NameOrder) /\ NameOrder[1] = ""

SignBit == 128
InfMagnitude == 126
NaNMagnitude == 127

Null == [t |-> "null"]
MinKey == [t |-> "minKey"]
MaxKey == [t |-> "maxKey"]
Int32(n) == [t |-> "int", n |-> n]
Int64(n) == [t |-> "long", n |-> n]
Double(bits) == [t |-> "double", bits |-> bits]
String(s) == [t |-> "string", s |-> s]
Bool(b) == [t |-> "bool", b |-> b]
Date(n) == [t |-> "date", n |-> n]
Array(e) == [t |-> "array", e |-> e]
Object(f) == [t |-> "object", f |-> f]
Field(k, v) == [k |-> k, v |-> v]

\* The canonical type brackets; the numeric types share one, as do the
\* string-like ones and null with undefined.
Rank == [minKey |-> 0, null |-> 1, undefined |-> 1,
         double |-> 2, int |-> 2, long |-> 2, decimal |-> 2,
         string |-> 3, symbol |-> 3, javascript |-> 3, object |-> 4,
         array |-> 5, binData |-> 6, objectId |-> 7, bool |-> 8, date |-> 9,
         timestamp |-> 10, regex |-> 11, maxKey |-> 12]
CanonicalType(t) == IF t \in DOMAIN Rank THEN Rank[t] ELSE Rank.maxKey

NameRank(k) == CHOOSE i \in DOMAIN NameOrder : NameOrder[i] = k

\* Names are compared as bytes; each name but the empty one is one byte here.
nameBytes(k) == IF k = "" THEN <<>> ELSE <<NameRank(k)>>

cmpInt(a, b) == IF a < b THEN -1 ELSE IF a > b THEN 1 ELSE 0

\* The first place where two sequences differ, or 0.
FirstDiff(s, u, Differ(_, _)) ==
    LET first(D) == IF D = {} THEN 0 ELSE CHOOSE i \in D : \A j \in D : i <= j
    IN  first({i \in 1..Len(s) : i <= Len(u) /\ Differ(s[i], u[i])})

\* Byte strings: the first differing byte decides, else the shorter is less.
cmpBytes(s, u) ==
    LET at(i) == IF i = 0 THEN cmpInt(Len(s), Len(u)) ELSE cmpInt(s[i], u[i])
    IN  at(FirstDiff(s, u, LAMBDA x, y : x # y))

IsNaN(v) == v.t = "double" /\ v.bits % SignBit = NaNMagnitude

\* The value of a bit pattern in halves; both zeros have value 0.
FloatValue(bits) == IF bits >= SignBit THEN SignBit - bits ELSE bits

\* float64(n): above ExactInt an odd integer rounds to the neighbour whose
\* half is even.
RoundedInt(n) ==
    LET rounded(m) == IF m <= ExactInt \/ m % 2 = 0 THEN m
                      ELSE IF ((m + 1) \div 2) % 2 = 0 THEN m + 1 ELSE m - 1
    IN  IF n < 0 THEN 0 - rounded(0 - n) ELSE rounded(n)
FloatOf(n) == LET bits(h) == IF h < 0 THEN SignBit - h ELSE h IN bits(2 * RoundedInt(n))

\* AsFloat64: the three machine types; a decimal is not promoted and its
\* callers go on with 0.
AsFloat64(v) ==
    CASE v.t = "double" -> v.bits
      [] v.t \in {"int", "long"} -> FloatOf(v.n)
      [] OTHER -> 0
IsMachineNumber(v) == v.t \in {"double", "int", "long"}

\* NaN is above every number and equal to itself.  Two integers compare
\* exactly, and so do a double and an integer, also where the conversion of
\* the integer would round.
compareNumbers(a, b) ==
    LET exact(v) == CASE v.t = "double" -> FloatValue(v.bits)
                      [] v.t \in {"int", "long"} -> 2 * v.n
                      [] OTHER -> 0
    IN  IF IsNaN(a) \/ IsNaN(b)
        THEN cmpInt(IF IsNaN(a) THEN 1 ELSE 0, IF IsNaN(b) THEN 1 ELSE 0)
        ELSE cmpInt(exact(a), exact(b))

compareBinary(a, b) ==
    IF Len(a.data) # Len(b.data) THEN cmpInt(Len(a.data), Len(b.data))
    ELSE IF a.sub # b.sub THEN cmpInt(a.sub, b.sub)
    ELSE cmpBytes(a.data, b.data)

compareRegex(a, b) ==
    IF a.p # b.p THEN cmpBytes(a.p, b.p) ELSE cmpBytes(a.o, b.o)

RECURSIVE Compare(_, _)

compareArrays(a, b) ==
    LET at(i) == IF i = 0 THEN cmpInt(Len(a), Len(b)) ELSE Compare(a[i], b[i])
    IN  at(FirstDiff(a, b, LAMBDA x, y : Compare(x, y) # 0))

\* Field by field in stored order: the name decides before the value.
compareDocuments(a, b) ==
    LET at(i) == IF i = 0 THEN cmpInt(Len(a), Len(b))
                 ELSE IF a[i].k # b[i].k THEN cmpInt(NameRank(a[i].k), NameRank(b[i].k))
                 ELSE Compare(a[i].v, b[i].v)
    IN  at(FirstDiff(a, b, LAMBDA x, y : x.k # y.k \/ Compare(x.v, y.v) # 0))

Compare(a, b) ==
    LET ra == CanonicalType(a.t)
        rb == CanonicalType(b.t)
    IN  IF ra # rb THEN cmpInt(ra, rb)
        ELSE CASE ra \in {Rank.null, Rank.minKey, Rank.maxKey} -> 0
               [] ra = Rank.int -> compareNumbers(a, b)
               [] ra = Rank.string -> cmpBytes(a.s, b.s)
               [] a.t = "object" -> compareDocuments(a.f, b.f)
               [] a.t = "array" -> compareArrays(a.e, b.e)
               [] a.t = "binData" -> compareBinary(a, b)
               [] a.t = "bool" -> cmpInt(IF a.b THEN 1 ELSE 0, IF b.b THEN 1 ELSE 0)
               [] a.t = "regex" -> compareRegex(a, b)
               [] OTHER -> cmpInt(a.n, b.n)

Equal(a, b) == Compare(a, b) = 0

-----------------------------------------------------------------------------
(* Documents: fields in stored order, looked up by the first of a name.     *)

FieldPos(d, k) == SelectInSeq(d.f, LAMBDA x : x.k = k)
HasField(d, k) == FieldPos(d, k) # 0
Lookup(d, k) == d.f[FieldPos(d, k)].v

ValidIDType(t) == t \in {"double", "string", "binData", "objectId", "bool",
                         "date", "int", "timestamp", "long", "decimal", "object"}

\* EnsureID: mint an _id and put it in front, refuse one of a type that is no
\* identity, or move it to the front; the other fields keep their order.  The
\* result is <<>> for the error.
EnsureID(d, fresh) ==
    LET i == FieldPos(d, "_id")
    IN  IF i = 0 THEN <<Object(<<Field("_id", fresh)>> \o d.f)>>
        ELSE IF ~ValidIDType(d.f[i].v.t) THEN <<>>
        ELSE <<Object(<<d.f[i]>> \o RemoveAt(d.f, i))>>

\* The truth of an argument such as that of $exists or of a projection.
truthy(v) ==
    CASE v.t = "bool" -> v.b
      [] v.t \in {"null", "undefined"} -> FALSE
      [] IsMachineNumber(v) -> IsNaN(v) \/ FloatValue(AsFloat64(v)) # 0
      [] OTHER -> TRUE

-----------------------------------------------------------------------------
(* Machine arithmetic on BSON numbers: integers wrap at Int64Max, which     *)
(* stands for the largest int64, an int32 overflows at Int32Max, a double   *)
(* that grows too large is an infinity.                                     *)

CONSTANTS Int32Max, Int64Max, Now

ASSUME WidthAssumption == Int32Max \in Nat /\ Int64Max \in Nat /\ Int32Max < Int64Max
ASSUME NowAssumption == Now \in Nat

wrap64(n) == ((n + Int64Max + 1) % (2 * (Int64Max + 1))) - Int64Max - 1

\* A double from a value in halves.
DoubleOf(h) ==
    LET m == IF h < 0 THEN 0 - h ELSE h
        c == IF m > InfMagnitude THEN InfMagnitude ELSE m
    IN  Double(IF h < 0 THEN SignBit + c ELSE c)

NaN == Double(NaNMagnitude)

\* Integer division and remainder as Go has them, rounding toward zero.
quo(a, b) ==
    LET q == (IF a < 0 THEN 0 - a ELSE a) \div (IF b < 0 THEN 0 - b ELSE b)
    IN  IF (a < 0) = (b < 0) THEN q ELSE 0 - q
rem(a, b) == a - b * quo(a, b)

\* The sum or product of two doubles in halves, <<>> when it is NaN.
floatArith(x, y, product) ==
    LET inf(z) == z \in {InfMagnitude, 0 - InfMagnitude}
    IN  IF product
        THEN IF (inf(x) \/ inf(y)) /\ 0 \in {x, y} THEN <<>> ELSE <<(x * y) \div 2>>
        ELSE IF inf(x) /\ inf(y) /\ x # y THEN <<>>
        ELSE <<IF inf(x) THEN x ELSE IF inf(y) THEN y ELSE x + y>>

\* The same on numbers of any width, each converted to a double first.
floatOp(a, b, product) ==
    LET double(r) == IF IsNaN(a) \/ IsNaN(b) \/ r = <<>> THEN NaN ELSE DoubleOf(r[1])
    IN  double(floatArith(FloatValue(AsFloat64(a)), FloatValue(AsFloat64(b)), product))
=============================================================================
