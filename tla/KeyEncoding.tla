---------------------------- MODULE KeyEncoding -----------------------------
(* The encoding of values as index keys (index/key.go, encode.go, field.go,  *)
(* decode.go): byte strings whose order is meant to be the order of the      *)
(* values, inverted for a descending field and concatenated for a compound   *)
(* key.  Eight-byte words are one byte here, as a double has eight bits in   *)
(* module Bson; a decimal is twice as long as a double, as in the code.      *)
EXTENDS Bson

tag == [minKey |-> 1, null |-> 5, number |-> 16, string |-> 32, object |-> 48,
        array |-> 56, binData |-> 64, objectId |-> 72, bool |-> 80, date |-> 88,
        timestamp |-> 96, regex |-> 104, maxKey |-> 255]

\* Float order: set a clear sign bit, else invert the whole word.
appendSignFlipped64(bits) ==
    IF bits < SignBit THEN bits + SignBit ELSE 255 - bits

\* Signed order: flip the sign bit of the two's complement form.
appendOrderedInt64(n) == ((n % 256) + SignBit) % 256

appendNumber(bits) == <<tag.number, appendSignFlipped64(bits)>>

\* A decimal: the sign flip over the whole of its word, here two bytes.
appendDecimal128(hi, lo) ==
    IF hi < SignBit THEN <<tag.number, hi + SignBit, lo>>
    ELSE <<tag.number, 255 - hi, 255 - lo>>

\* A NUL of the content becomes 00 FF and 00 01 ends the string.
appendOrderedBytes(s) ==
    FlattenSeq([i \in 1..Len(s) |-> IF s[i] = 0 THEN <<0, 255>> ELSE <<s[i]>>])
        \o <<0, 1>>

RECURSIVE appendValueKey(_)

\* A document with its fields sorted by name, each name closed by a NUL, and
\* two NULs at the end.
appendDocKey(d) ==
    LET sorted == SetToSortSeq(1..Len(d.f),
                     LAMBDA i, j : \/ NameRank(d.f[i].k) < NameRank(d.f[j].k)
                                   \/ d.f[i].k = d.f[j].k /\ i < j)
    IN  <<tag.object>>
        \o FlattenSeq([i \in 1..Len(d.f) |-> nameBytes(d.f[sorted[i]].k) \o <<0>>
                                             \o appendValueKey(d.f[sorted[i]].v)])
        \o <<0, 0>>


\* An array in element order, under the names "0", "1", ...
appendArrayKey(a) ==
    <<tag.array>>
    \o FlattenSeq([i \in 1..Len(a.e) |-> <<47 + i, 0>> \o appendValueKey(a.e[i])])
    \o <<0, 0>>

appendValueKey(v) ==
    CASE v.t \in {"minKey", "maxKey"} -> <<tag[v.t]>>
      [] v.t \in {"null", "undefined"} -> <<tag.null>>
      [] IsMachineNumber(v) -> appendNumber(AsFloat64(v))
      [] v.t = "decimal" -> appendDecimal128(v.hi, v.lo)
      [] v.t \in {"string", "symbol", "javascript"} ->
            <<tag.string>> \o appendOrderedBytes(v.s)
      [] v.t = "objectId" -> <<tag.objectId, v.n>>
      [] v.t = "bool" -> <<tag.bool, IF v.b THEN 1 ELSE 0>>
      [] v.t = "date" -> <<tag.date, appendOrderedInt64(v.n)>>
      [] v.t = "timestamp" -> <<tag.timestamp, v.n \div 256, v.n % 256>>
      [] v.t = "binData" -> <<tag.binData, Len(v.data)>> \o v.data \o <<v.sub>>
      [] v.t = "regex" -> <<tag.regex>> \o v.p \o <<0>> \o v.o \o <<0>>
      [] v.t = "object" -> appendDocKey(v)
      [] v.t = "array" -> appendArrayKey(v)

Inverted(key) == [i \in 1..Len(key) |-> 255 - key[i]]

\* EncodeField and AppendField: one field of a key, inverted when descending.
EncodeField(v, desc) ==
    IF desc THEN Inverted(appendValueKey(v)) ELSE appendValueKey(v)

\* The sentinels that bracket a field; they swap and invert when descending.
EncodeBoundMin(desc) == IF desc THEN <<255 - tag.maxKey>> ELSE <<tag.minKey>>
EncodeBoundMax(desc) == IF desc THEN <<255 - tag.minKey>> ELSE <<tag.maxKey>>

-----------------------------------------------------------------------------
(* Decoding the front of a key, for scans that never fetch the document.    *)

\* unflipSign: the inverse of appendSignFlipped64.
unflipSign(b) == IF b >= SignBit THEN b - SignBit ELSE 255 - b

\* decodeString: to the first 00 01; 00 FF is a NUL.  <<>> is the error, else
\* the string and the bytes it took.
RECURSIVE decodeString(_, _, _)
decodeString(b, i, out) ==
    IF i > Len(b) THEN <<>>
    ELSE IF b[i] # 0 THEN decodeString(b, i + 1, Append(out, b[i]))
    ELSE IF i = Len(b) THEN <<>>
    ELSE IF b[i + 1] = 1 THEN <<out, i + 1>>
    ELSE IF b[i + 1] = 255 THEN decodeString(b, i + 2, Append(out, 0))
    ELSE <<>>

\* AppendDecodedField on the bytes of one field after the mask: <<value,
\* bytes consumed>>, or <<>> where the code returns an error.  Numbers come
\* back as doubles; documents, arrays and regexes do not come back.
decodeMasked(b) ==
    LET fixed(n, v) == IF Len(b) < n THEN <<>> ELSE <<v, n>>
    IN  CASE Len(b) = 0 -> <<>>
          [] b[1] = tag.minKey -> <<MinKey, 1>>
          [] b[1] = tag.maxKey -> <<MaxKey, 1>>
          [] b[1] = tag.null -> <<Null, 1>>
          [] b[1] = tag.bool -> fixed(2, Bool(b[2] # 0))
          [] b[1] = tag.number -> fixed(2, Double(unflipSign(b[2])))
          [] b[1] = tag.date -> fixed(2, Date(b[2] - SignBit))
          [] b[1] = tag.timestamp ->
                fixed(3, [t |-> "timestamp", n |-> b[2] * 256 + b[3]])
          [] b[1] = tag.objectId -> fixed(2, [t |-> "objectId", n |-> b[2]])
          [] b[1] = tag.string ->
                LET r == decodeString(b, 2, <<>>)
                IN  IF r = <<>> THEN <<>> ELSE <<String(r[1]), r[2]>>
          [] b[1] = tag.binData ->
                IF Len(b) < 2 \/ Len(b) < 3 + b[2] THEN <<>>
                ELSE <<[t |-> "binData", sub |-> b[3 + b[2]],
                        data |-> SubSeq(b, 3, 2 + b[2])], 3 + b[2]>>
          [] OTHER -> <<>>

AppendDecodedField(b, desc) == decodeMasked(IF desc THEN Inverted(b) ELSE b)
=============================================================================
