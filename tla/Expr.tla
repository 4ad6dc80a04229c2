-------------------------------- MODULE Expr --------------------------------
(* Aggregation expressions (agg/expr.go and the operators of agg/ops_*.go). *)
(*                                                                          *)
(* A compiled expression is a record whose field x names its node; an       *)
(* optional operand is <<>> or a one-element sequence.  A context c is      *)
(* [root, cur, vars]: the document, $$CURRENT and the user variables, a     *)
(* function from names.  $rand, the transcendental functions and the        *)
(* regular expressions are left out.                                        *)
EXTENDS Match

-----------------------------------------------------------------------------
(* Date operators of aggregation expressions (agg/ops_date.go).              *)
(*                                                                           *)
(* A date counts hours since 1970-01-01, so minute, second and millisecond,  *)
(* which the code treats as it treats the hour, are left out.  A zone is     *)
(* [z |-> "none"], a fixed offset [z |-> "at", off |-> hours], or a name     *)
(* that does not resolve, [z |-> "bad"], or null, [z |-> "null"].            *)

CONSTANT CalendarYears    \* the years the calendar covers, an interval

ASSUME CalendarYearsAssumption == CalendarYears \subseteq Int

-----------------------------------------------------------------------------
(* The calendar, as package time provides it.                               *)

leap(y) == (y % 4 = 0 /\ y % 100 # 0) \/ y % 400 = 0
monthDays(y) == <<31, IF leap(y) THEN 29 ELSE 28, 31, 30, 31, 30, 31, 31, 30, 31, 30, 31>>
daysBeforeMonth(y, m) == FoldLeft(LAMBDA x, z : x + z, 0, SubSeq(monthDays(y), 1, m - 1))
\* Day 0 is 1970-01-01; there are 477 leap days before 1970.
daysBeforeYear(y) ==
    365 * (y - 1970) + ((y - 1) \div 4 - (y - 1) \div 100 + (y - 1) \div 400) - 477

\* time.Date: months and days outside their range carry over.
dayNumber(year, month, day) ==
    LET y == year + (month - 1) \div 12
        m == ((month - 1) % 12) + 1
    IN  daysBeforeYear(y) + daysBeforeMonth(y, m) + day - 1

civil(n) ==
    LET y == CHOOSE z \in CalendarYears : daysBeforeYear(z) <= n /\ n < daysBeforeYear(z + 1)
        d == n - daysBeforeYear(y)
        m == CHOOSE z \in 1..12 : /\ daysBeforeMonth(y, z) <= d
                                  /\ d < daysBeforeMonth(y, z) + monthDays(y)[z]
    IN  [year |-> y, month |-> m, day |-> d - daysBeforeMonth(y, m) + 1, yday |-> d + 1]
Weekday(n) == (n + 4) % 7           \* 0 is Sunday

\* ISOWeek: the year and number of the week by its Thursday.
isoWeekOf(n) ==
    LET c == civil(n - ((n + 3) % 7) + 3)
    IN  [year |-> c.year, week |-> (c.yday - 1) \div 7 + 1]

-----------------------------------------------------------------------------
(* A time is an hour count read in a zone.                                  *)

UTC == 0
offsetOf(tz) == IF tz.z = "at" THEN tz.off ELSE UTC
dayOf(t) == t \div 24
hourOf(t) == t % 24
at24(day, hour) == day * 24 + hour

\* evalDate, with the zone applied; a date-part operator has no value for a
\* zone that is null or unknown, the others fall back to UTC.
zoned(v, tz) == v.n + offsetOf(tz)

partIsoDayOfWeek(t) == IF Weekday(dayOf(t)) = 0 THEN 7 ELSE Weekday(dayOf(t))

\* partWeek: (day of the year + weekday of January 1 - 1) / 7.
partWeek(t) ==
    LET c == civil(dayOf(t))
    IN  (c.yday + Weekday(dayNumber(c.year, 1, 1)) - 1) \div 7

datePart(part, t) ==
    LET c == civil(dayOf(t))
    IN  CASE part = "year" -> c.year [] part = "month" -> c.month
          [] part = "dayOfMonth" -> c.day [] part = "dayOfYear" -> c.yday
          [] part = "hour" -> hourOf(t)
          [] part = "dayOfWeek" -> Weekday(dayOf(t)) + 1
          [] part = "isoDayOfWeek" -> partIsoDayOfWeek(t)
          [] part = "isoWeek" -> isoWeekOf(dayOf(t)).week
          [] part = "isoWeekYear" -> isoWeekOf(dayOf(t)).year
          [] part = "week" -> partWeek(t)

dateOpt(part, v, tz) ==
    IF v.t # "date" \/ tz.z \in {"bad", "null"} THEN Null
    ELSE Int32(datePart(part, zoned(v, tz)))

-----------------------------------------------------------------------------
(* $dateAdd, $dateSubtract and $dateDiff.                                   *)

\* AddDate: the calendar fields are shifted, then normalised.
addDate(t, years, months, days) ==
    LET c == civil(dayOf(t))
    IN  at24(dayNumber(c.year + years, c.month + months, c.day + days), hourOf(t))

\* addUnit: <<>> for a unit it does not know.
addUnit(t, unit, amount) ==
    CASE unit = "year" -> <<addDate(t, amount, 0, 0)>>
      [] unit = "quarter" -> <<addDate(t, 0, amount * 3, 0)>>
      [] unit = "month" -> <<addDate(t, 0, amount, 0)>>
      [] unit = "week" -> <<addDate(t, 0, 0, amount * 7)>>
      [] unit = "day" -> <<addDate(t, 0, 0, amount)>>
      [] unit = "hour" -> <<t + amount>>
      [] OTHER -> <<>>

dateAdd(v, unit, amount, tz, sub) ==
    IF v.t # "date" THEN Null
    ELSE LET r == addUnit(zoned(v, tz), unit, IF sub THEN 0 - amount ELSE amount)
         IN  IF r = <<>> THEN Null ELSE Date(r[1] - offsetOf(tz))

\* Mutant: months are counted without the years.
diffUnit_sameYear(a, b, unit) ==
    IF unit = "month" THEN civil(dayOf(b)).month - civil(dayOf(a)).month
    ELSE IF unit = "hour" THEN b - a ELSE quo(b - a, 24)
\* diffUnit: calendar fields for year, quarter and month, the elapsed time cut
\* to whole units for the rest; 0 for a unit it does not know.
diffUnit(a, b, unit) ==
    LET x == civil(dayOf(a))
        y == civil(dayOf(b))
    IN  CASE unit = "year" -> y.year - x.year
          [] unit = "quarter" -> (y.year * 4 + (y.month - 1) \div 3)
                                  - (x.year * 4 + (x.month - 1) \div 3)
          [] unit = "month" -> (y.year * 12 + y.month) - (x.year * 12 + x.month)
          [] unit = "week" -> quo(b - a, 24 * 7)
          [] unit = "day" -> quo(b - a, 24)
          [] unit = "hour" -> b - a
          [] OTHER -> 0

dateDiff(v, w, unit) ==
    IF v.t # "date" \/ w.t # "date" THEN Null ELSE Int64(diffUnit(v.n, w.n, unit))

-----------------------------------------------------------------------------
(* $dateToParts and $dateFromParts, with calendar or ISO week parts.        *)

dateToParts(v, tz, iso) ==
    LET t == zoned(v, tz)
        c == civil(dayOf(t))
        w == isoWeekOf(dayOf(t))
    IN  IF iso THEN [year |-> w.year, week |-> w.week, dow |-> partIsoDayOfWeek(t), hour |-> hourOf(t)]
        ELSE [year |-> c.year, month |-> c.month, day |-> c.day, hour |-> hourOf(t)]

\* January 4 is in week 1; the Monday of that week is where counting starts.
evalISO(p, tz) ==
    LET jan4 == dayNumber(p.year, 1, 4)
        week1Mon == jan4 - (partIsoDayOfWeek(jan4 * 24) - 1)
    IN  at24(week1Mon + (p.week - 1) * 7 + (p.dow - 1), p.hour) - offsetOf(tz)

dateFromParts(p, tz, iso) ==
    IF iso THEN Date(evalISO(p, tz))
    ELSE Date(at24(dayNumber(p.year, p.month, p.day), p.hour) - offsetOf(tz))

-----------------------------------------------------------------------------
(* $dateTrunc: the bin size counts for years and hours only.                *)

truncUnit(t, unit, bin) ==
    LET c == civil(dayOf(t))
        start(y, m, d) == <<at24(dayNumber(y, m, d), 0)>>
    IN  CASE unit = "year" -> start(c.year - rem(c.year, bin), 1, 1)
          [] unit = "quarter" -> start(c.year, ((c.month - 1) \div 3) * 3 + 1, 1)
          [] unit = "month" -> start(c.year, c.month, 1)
          [] unit = "week" -> start(c.year, c.month, c.day - (partIsoDayOfWeek(t) - 1))
          [] unit = "day" -> start(c.year, c.month, c.day)
          [] unit = "hour" -> <<at24(dayOf(t), hourOf(t) - (hourOf(t) % bin))>>
          [] OTHER -> <<>>

dateTrunc(v, unit, bin, tz) ==
    IF v.t # "date" THEN Null
    ELSE LET r == truncUnit(zoned(v, tz), unit, bin)
         IN  IF r = <<>> THEN Null ELSE Date(r[1] - offsetOf(tz))

-----------------------------------------------------------------------------

missing == [t |-> "missing"]
isNullish(v) == v.t \in {"missing", "null"}

\* Aggregation truth: zero and the empty string are true here.
exprTruthy(v) ==
    IF v.t = "bool" THEN v.b ELSE v.t \notin {"missing", "null", "undefined"}

IsString(v) == v.t = "string"
elements(v) == IF v.t = "array" THEN v.e ELSE <<>>
orNull(v) == IF v.t = "missing" THEN Null ELSE v

-----------------------------------------------------------------------------
(* Numbers.                                                                 *)

isNumber(v) == v.t \in {"int", "long", "double"}
\* int64(f): toward zero.
truncated(v) == quo(FloatValue(v.bits), 2)
\* intArg: the integer a numeric operand stands for.
intArg(v) == IF v.t = "double" THEN truncated(v) ELSE v.n

widen(vals) ==
    IF \E i \in DOMAIN vals : vals[i].t = "double" THEN "double"
    ELSE IF \E i \in DOMAIN vals : vals[i].t = "long" THEN "long" ELSE "int"

\* mkNum: an int32 result that does not fit becomes an int64; an int64 wraps.
mkNum(i, f, k) ==
    CASE k = "double" -> f
      [] k = "long" -> Int64(wrap64(i))
      [] k = "int" -> IF i \in (0 - Int32Max - 1)..Int32Max THEN Int32(i) ELSE Int64(wrap64(i))

\* The integer view of a double is 0: only the float view counts then.
intView(v) == IF v.t = "double" THEN 0 ELSE v.n
foldInts(vals, start, Op(_, _)) ==
    FoldLeft(LAMBDA acc, v : wrap64(Op(acc, intView(v))), start, vals)

opAdd(vals) ==
    LET dates == SelectSeq(vals, LAMBDA v : v.t = "date")
        nums == SelectSeq(vals, LAMBDA v : v.t # "date")
        i == foldInts(nums, 0, LAMBDA x, y : x + y)
        f == FoldLeft(LAMBDA acc, v : floatOp(acc, v, FALSE), Double(0), nums)
        k == widen(nums)
    IN  IF Len(dates) > 1 \/ \E j \in DOMAIN nums : ~isNumber(nums[j]) THEN Null
        ELSE IF dates = <<>> THEN mkNum(i, f, k)
        ELSE Date(dates[1].n + (IF k = "double" THEN truncated(f) ELSE i))

opSubtract(a, b) ==
    CASE a.t = "date" /\ b.t = "date" -> Int64(a.n - b.n)
      [] a.t = "date" /\ isNumber(b) -> Date(a.n - intArg(b))
      [] isNumber(a) /\ isNumber(b) ->
            mkNum(intView(a) - intView(b),
                  floatOp(a, Double((AsFloat64(b) + SignBit) % (2 * SignBit)), FALSE), widen(<<a, b>>))
      [] OTHER -> Null

opMultiply(vals) ==
    IF \E j \in DOMAIN vals : ~isNumber(vals[j]) THEN Null
    ELSE mkNum(foldInts(vals, 1, LAMBDA x, y : x * y),
               FoldLeft(LAMBDA acc, v : floatOp(acc, v, TRUE), Double(2), vals), widen(vals))

\* Finite doubles, in halves: the quotient is cut to a half.
opDivide(a, b) ==
    LET x == FloatValue(AsFloat64(a))
        y == FloatValue(AsFloat64(b))
    IN  IF ~isNumber(a) \/ ~isNumber(b) \/ y = 0 THEN Null
        ELSE IF IsNaN(a) \/ IsNaN(b) THEN NaN ELSE DoubleOf(quo(2 * x, y))

opMod(a, b) ==
    IF ~isNumber(a) \/ ~isNumber(b) THEN Null
    ELSE IF "double" \notin {a.t, b.t}
    THEN IF b.n = 0 THEN Null ELSE mkNum(rem(a.n, b.n), Double(0), widen(<<a, b>>))
    ELSE IF FloatValue(AsFloat64(b)) = 0 THEN Null
    ELSE IF IsNaN(a) \/ IsNaN(b) THEN NaN
    ELSE DoubleOf(rem(FloatValue(AsFloat64(a)), FloatValue(AsFloat64(b))))

\* $abs, $ceil, $floor, $round (ties to even) and $trunc; integers stay as
\* they are but for $abs.
unaryNum(op, v) ==
    LET h == FloatValue(v.bits)
        whole == IF op = "$ceil" THEN 0 - ((0 - h) \div 2)
                 ELSE IF op = "$floor" THEN h \div 2
                 ELSE IF op = "$trunc" \/ h % 2 = 0 THEN quo(h, 2)
                 ELSE IF (h \div 2) % 2 = 0 THEN h \div 2 ELSE (h \div 2) + 1
        infinite == v.bits % SignBit = InfMagnitude
    IN  IF ~isNumber(v) THEN Null
        ELSE IF v.t # "double" THEN mkNum(IF op = "$abs" /\ v.n < 0 THEN 0 - v.n ELSE v.n, v, v.t)
        ELSE IF op = "$abs" THEN Double(v.bits % SignBit)
        ELSE IF IsNaN(v) \/ infinite THEN v ELSE DoubleOf(2 * whole)

-----------------------------------------------------------------------------
(* Comparison and conversion.                                               *)

opCmp(a, b) == Compare(orNull(a), orNull(b))
compareOp(op, a, b) ==
    LET c == opCmp(a, b)
    IN  Bool(CASE op = "$eq" -> c = 0 [] op = "$ne" -> c # 0 [] op = "$gt" -> c > 0
               [] op = "$gte" -> c >= 0 [] op = "$lt" -> c < 0 [] op = "$lte" -> c <= 0)

\* FormatInt and ParseInt in base 10; the parser takes a sign and refuses
\* what does not fit an int64.
RECURSIVE digits(_)
digits(n) == IF n < 10 THEN <<48 + n>> ELSE Append(digits(n \div 10), 48 + (n % 10))
FormatInt(n) == IF n < 0 THEN <<45>> \o digits(0 - n) ELSE digits(n)
ParseInt(s) ==
    LET body == IF s # <<>> /\ s[1] \in {43, 45} THEN Tail(s) ELSE s
        n == FoldLeft(LAMBDA acc, d : IF acc > Int64Max + 1 THEN acc ELSE 10 * acc + d - 48, 0, body)
        v == IF s # <<>> /\ s[1] = 45 THEN 0 - n ELSE n
    IN  IF body = <<>> \/ (\E i \in DOMAIN body : body[i] \notin 48..57)
            \/ v > Int64Max \/ v < 0 - Int64Max - 1
        THEN <<>> ELSE <<v>>

Spaces == {9, 10, 11, 12, 13, 32}
\* strings.TrimLeft and TrimRight over a set of one-byte characters.
trimLeft(s, cut) ==
    LET kept == {i \in DOMAIN s : s[i] \notin cut}
    IN  IF kept = {} THEN <<>>
        ELSE SubSeq(s, CHOOSE i \in kept : \A j \in kept : i <= j, Len(s))
trimRight(s, cut) == Reverse(trimLeft(Reverse(s), cut))
TrimSpace(s) == trimRight(trimLeft(s, Spaces), Spaces)

\* The conversions give <<value>>, or <<>> where there is none.  The text of
\* doubles, dates and object ids is outside the model.
toStringValue(v) ==
    CASE v.t = "string" -> <<v>>
      [] v.t \in {"int", "long"} -> <<String(FormatInt(v.n))>>
      [] v.t = "bool" -> <<String(IF v.b THEN <<116, 114, 117, 101>>
                                  ELSE <<102, 97, 108, 115, 101>>)>>
      [] OTHER -> <<>>
toBoolValue(v) ==
    CASE v.t = "bool" -> <<v>>
      [] isNumber(v) -> <<Bool(IsNaN(v) \/ FloatValue(AsFloat64(v)) # 0)>>
      [] v.t \in {"string", "objectId", "date"} -> <<Bool(TRUE)>>
      [] OTHER -> <<>>
toIntValue(v, long) ==
    LET n == CASE v.t \in {"int", "long", "date"} -> <<v.n>>
               [] v.t = "double" -> IF IsNaN(v) \/ v.bits % SignBit = InfMagnitude THEN <<>>
                                    ELSE <<truncated(v)>>
               [] v.t = "bool" -> <<IF v.b THEN 1 ELSE 0>>
               [] v.t = "string" -> ParseInt(TrimSpace(v.s))
               [] OTHER -> <<>>
    IN  IF n = <<>> THEN <<>>
        ELSE IF long THEN <<Int64(n[1])>>
        ELSE IF n[1] \in (0 - Int32Max - 1)..Int32Max THEN <<Int32(n[1])>> ELSE <<>>
toDoubleValue(v) ==
    CASE v.t = "double" -> <<v>>
      [] v.t \in {"int", "long", "date"} -> <<Double(FloatOf(v.n))>>
      [] v.t = "bool" -> <<Double(IF v.b THEN 2 ELSE 0)>>
      [] OTHER -> <<>>
toDateValue(v) ==
    CASE v.t = "date" -> <<v>>
      [] v.t \in {"int", "long"} -> <<Date(v.n)>>
      [] v.t = "double" -> <<Date(truncated(v))>>
      [] OTHER -> <<>>

convertTo(v, target) ==
    CASE target = "string" -> toStringValue(v)
      [] target = "bool" -> toBoolValue(v)
      [] target = "int" -> toIntValue(v, FALSE)
      [] target = "long" -> toIntValue(v, TRUE)
      [] target \in {"double", "decimal"} -> toDoubleValue(v)
      [] target = "date" -> toDateValue(v)
      [] OTHER -> <<>>
shorthandConvert(v, target) ==
    LET r == convertTo(v, target)
    IN  IF isNullish(v) \/ r = <<>> THEN Null ELSE r[1]

-----------------------------------------------------------------------------
(* Strings: bytes, read as UTF-8 where code points count.                   *)

\* The code points, each a sequence of bytes: 128..191 continue one.
Continuation == 128..191
RuneStarts(s) == SetToSortSeq({i \in DOMAIN s : s[i] \notin Continuation}, <)
runes(s) ==
    LET st == RuneStarts(s)
    IN  [i \in 1..Len(st) |-> SubSeq(s, st[i], IF i = Len(st) THEN Len(s) ELSE st[i + 1] - 1)]

\* The part of a sequence from a start of 0, a length below 0 meaning the rest.
window(s, start, length) ==
    IF start < 0 \/ start >= Len(s) THEN <<>>
    ELSE SubSeq(s, start + 1, IF length >= 0 /\ start + length < Len(s) THEN start + length ELSE Len(s))
opSubstrBytes(v, start, length) ==
    IF IsString(v) /\ isNumber(start) /\ isNumber(length)
    THEN String(window(v.s, intArg(start), intArg(length))) ELSE String(<<>>)
opSubstrCP(v, start, length) ==
    IF IsString(v) /\ isNumber(start) /\ isNumber(length)
    THEN String(FlattenSeq(window(runes(v.s), intArg(start), intArg(length)))) ELSE String(<<>>)

strLen(v, cp) ==
    IF ~IsString(v) THEN Null ELSE Int32(IF cp THEN Len(runes(v.s)) ELSE Len(v.s))

opConcat(vals) ==
    IF \E i \in DOMAIN vals : ~IsString(vals[i]) THEN Null
    ELSE String(FlattenSeq([i \in DOMAIN vals |-> vals[i].s]))

\* strings.Index: the first place of a substring counted from 0, or -1.
Index(s, sub) ==
    LET at0 == {i \in 0..(Len(s) - Len(sub)) : SubSeq(s, i + 1, i + Len(sub)) = sub}
    IN  IF at0 = {} THEN -1 ELSE CHOOSE i \in at0 : \A j \in at0 : i <= j

\* The place is counted in code points from the window's start.
indexOfCP(s, sub, start, stop) ==
    LET r == runes(s)
        last == IF stop < Len(r) THEN stop ELSE Len(r)
        win == FlattenSeq(SubSeq(r, start + 1, last))
    IN  IF start < 0 \/ start > Len(r) \/ start > last \/ Index(win, sub) < 0 THEN Int32(-1)
        ELSE Int32(start + Len(runes(SubSeq(win, 1, Index(win, sub)))))
indexOfBytes(s, sub, start, stop) ==
    LET last == IF stop < Len(s) THEN stop ELSE Len(s)
        win == SubSeq(s, start + 1, last)
    IN  IF start < 0 \/ start > Len(s) \/ start > last \/ Index(win, sub) < 0 THEN Int32(-1)
        ELSE Int32(start + Index(win, sub))
\* indexOf: [from, to) is optional and an operand of another type is ignored.
indexOf(vals, cp) ==
    LET start == IF Len(vals) >= 3 /\ isNumber(vals[3]) THEN intArg(vals[3]) ELSE 0
        stop == IF Len(vals) = 4 /\ isNumber(vals[4]) THEN intArg(vals[4]) ELSE Len(vals[1].s)
    IN  IF ~IsString(vals[1]) \/ ~IsString(vals[2]) THEN Null
        ELSE IF cp THEN indexOfCP(vals[1].s, vals[2].s, start, stop)
        ELSE indexOfBytes(vals[1].s, vals[2].s, start, stop)

\* strings.Split; an empty separator splits into code points.
RECURSIVE splitOn(_, _)
splitOn(s, sep) ==
    IF sep = <<>> THEN runes(s)
    ELSE LET i == Index(s, sep)
         IN  IF i < 0 THEN <<s>>
             ELSE <<SubSeq(s, 1, i)>> \o splitOn(SubSeq(s, i + Len(sep) + 1, Len(s)), sep)
opSplit(v, w) ==
    IF ~IsString(v) \/ ~IsString(w) THEN Null
    ELSE LET parts == splitOn(v.s, w.s) IN Array([i \in DOMAIN parts |-> String(parts[i])])

join(parts, sep) ==
    IF parts = <<>> THEN <<>>
    ELSE FoldLeft(LAMBDA acc, p : acc \o sep \o p, parts[1], Tail(parts))
\* strings.Replace, all or the first; an empty find matches before every
\* code point and at the end.
replace(s, find0, repl, all) ==
    IF find0 # <<>>
    THEN IF all THEN join(splitOn(s, find0), repl)
         ELSE IF Index(s, find0) < 0 THEN s
         ELSE SubSeq(s, 1, Index(s, find0)) \o repl
                  \o SubSeq(s, Index(s, find0) + Len(find0) + 1, Len(s))
    ELSE IF all THEN repl \o FlattenSeq([i \in DOMAIN runes(s) |-> runes(s)[i] \o repl])
    ELSE repl \o s
opReplace(v, f, r, all) ==
    IF ~IsString(v) \/ ~IsString(f) \/ ~IsString(r) THEN Null
    ELSE String(replace(v.s, f.s, r.s, all))

\* $trim, $ltrim, $rtrim; chars is the cutset, white space when absent.
opTrim(v, chars, side) ==
    IF ~IsString(v) \/ (chars # <<>> /\ ~IsString(chars[1])) THEN Null
    ELSE LET cut == IF chars = <<>> THEN Spaces ELSE ToSet(chars[1].s)
             left == IF side = "right" THEN v.s ELSE trimLeft(v.s, cut)
         IN  String(IF side = "left" THEN left ELSE trimRight(left, cut))

-----------------------------------------------------------------------------
(* Arrays.                                                                  *)

opArrayElemAt(v, i) ==
    IF v.t # "array" \/ ~isNumber(i) THEN Null
    ELSE LET idx == IF intArg(i) < 0 THEN intArg(i) + Len(v.e) ELSE intArg(i)
         IN  IF idx < 0 \/ idx >= Len(v.e) THEN missing ELSE v.e[idx + 1]

endElem(v, last) ==
    IF v.t # "array" THEN Null ELSE IF v.e = <<>> THEN missing
    ELSE IF last THEN Last(v.e) ELSE v.e[1]

opConcatArrays(vals) ==
    IF \E i \in DOMAIN vals : vals[i].t # "array" THEN Null
    ELSE Array(FlattenSeq([i \in DOMAIN vals |-> vals[i].e]))

sliceFirstLast(e, n) ==
    LET size == IF n < 0 THEN 0 - n ELSE n
        m == IF size > Len(e) THEN Len(e) ELSE size
    IN  IF n >= 0 THEN SubSeq(e, 1, m) ELSE SubSeq(e, Len(e) - m + 1, Len(e))

opSlice(vals) ==
    IF vals[1].t # "array" \/ (\E i \in 2..Len(vals) : ~isNumber(vals[i])) THEN Null
    ELSE IF Len(vals) = 2 THEN Array(sliceFirstLast(vals[1].e, intArg(vals[2])))
    ELSE IF intArg(vals[3]) < 0 THEN Null
    ELSE LET e == vals[1].e
             from == IF intArg(vals[2]) < 0 THEN intArg(vals[2]) + Len(e) ELSE intArg(vals[2])
             pos == IF from < 0 THEN 0 ELSE from
         IN  Array(window(e, pos, intArg(vals[3])))

opRange(vals) ==
    LET start == intArg(vals[1])
        stop == intArg(vals[2])
        step == IF Len(vals) = 3 THEN intArg(vals[3]) ELSE 1
        count == IF (step > 0) = (start < stop) /\ start # stop
                 THEN quo(stop - start + (IF step > 0 THEN step - 1 ELSE step + 1), step) ELSE 0
    IN  IF (\E i \in DOMAIN vals : ~isNumber(vals[i])) \/ step = 0 THEN Null
        ELSE Array([i \in 1..count |-> Int32(start + (i - 1) * step)])

containsVal(set, v) == \E i \in DOMAIN set : Equal(set[i], v)
opIn(v, w) == IF w.t # "array" THEN Null ELSE Bool(containsVal(w.e, v))

opIndexOfArray(vals) ==
    LET e == vals[1].e
        from == IF Len(vals) >= 3 /\ isNumber(vals[3]) THEN intArg(vals[3]) ELSE 0
        stop == IF Len(vals) = 4 /\ isNumber(vals[4]) THEN intArg(vals[4]) ELSE Len(e)
        hits == {i \in DOMAIN e : i > from /\ i <= stop /\ Equal(e[i], vals[2])}
    IN  IF vals[1].t # "array" THEN Null
        ELSE Int32(IF hits = {} THEN -1 ELSE (CHOOSE i \in hits : \A j \in hits : i <= j) - 1)

\* A field name as a value, and back; every name used is one of NameOrder.
nameString(k) == String(nameBytes(k))
nameOf(s) == CHOOSE k \in Range(NameOrder) : nameBytes(k) = s

\* pairKV and $arrayToObject: {k, v} documents or [k, v] arrays.
pairKV(el) ==
    CASE el.t = "object" ->
            IF HasField(el, "k") /\ HasField(el, "v") /\ IsString(Lookup(el, "k"))
            THEN <<Field(nameOf(Lookup(el, "k").s), Lookup(el, "v"))>> ELSE <<>>
      [] el.t = "array" ->
            IF Len(el.e) = 2 /\ IsString(el.e[1]) THEN <<Field(nameOf(el.e[1].s), el.e[2])>> ELSE <<>>
      [] OTHER -> <<>>
opArrayToObject(v) ==
    IF v.t # "array" THEN Null
    ELSE IF \E i \in DOMAIN v.e : pairKV(v.e[i]) = <<>> THEN Null
    ELSE Object([i \in DOMAIN v.e |-> pairKV(v.e[i])[1]])
opObjectToArray(v) ==
    IF v.t # "object" THEN Null
    ELSE Array([i \in DOMAIN v.f |-> Object(<<Field("k", nameString(v.f[i].k)), Field("v", v.f[i].v)>>)])

-----------------------------------------------------------------------------
(* Sets: the values of an array up to Equal, the first of a kind kept.      *)

dedupe(s) == FoldLeft(LAMBDA acc, v : IF containsVal(acc, v) THEN acc ELSE Append(acc, v), <<>>, s)

notArrays(vals) == \E i \in DOMAIN vals : vals[i].t # "array"
opSetEquals(vals) ==
    LET base == dedupe(vals[1].e)
        same(v) == LET other == dedupe(v.e)
                   IN  Len(other) = Len(base) /\ \A i \in DOMAIN base : containsVal(other, base[i])
    IN  IF notArrays(vals) THEN Null ELSE Bool(\A i \in 2..Len(vals) : same(vals[i]))
opSetIntersection(vals) ==
    IF notArrays(vals) THEN Null
    ELSE Array(SelectSeq(dedupe(vals[1].e), LAMBDA x : \A i \in 2..Len(vals) : containsVal(vals[i].e, x)))
opSetUnion(vals) ==
    IF notArrays(vals) THEN Null ELSE Array(dedupe(FlattenSeq([i \in DOMAIN vals |-> vals[i].e])))
opSetDifference(a, b) ==
    IF notArrays(<<a, b>>) THEN Null ELSE Array(SelectSeq(dedupe(a.e), LAMBDA x : ~containsVal(b.e, x)))
opSetIsSubset(a, b) ==
    IF notArrays(<<a, b>>) THEN Null ELSE Bool(\A i \in DOMAIN a.e : containsVal(b.e, a.e[i]))
opAnyElementTrue(v) == IF v.t # "array" THEN Null ELSE Bool(\E i \in DOMAIN v.e : exprTruthy(v.e[i]))
opAllElementsTrue(v) == IF v.t # "array" THEN Null ELSE Bool(\A i \in DOMAIN v.e : exprTruthy(v.e[i]))

-----------------------------------------------------------------------------
(* Documents.                                                               *)

\* A field set in place, or added at the end; a missing value removes it.
withField(d, k, v) ==
    LET i == FieldPos(d, k)
    IN  IF v.t = "missing" THEN Object(SelectSeq(d.f, LAMBDA x : x.k # k))
        ELSE IF i = 0 THEN Object(Append(d.f, Field(k, v))) ELSE Object([d.f EXCEPT ![i].v = v])

\* Later operands win; a field keeps the place where it was first seen.
opMergeObjects(vals) ==
    LET docs == SelectSeq(vals, LAMBDA v : ~isNullish(v))
    IN  IF \E i \in DOMAIN docs : docs[i].t # "object" THEN Null
        ELSE FoldLeft(LAMBDA acc, x : withField(acc, x.k, x.v), Object(<<>>),
                      FlattenSeq([i \in DOMAIN docs |-> docs[i].f]))

\* resolvePath: a name maps over the documents of an array, an index picks
\* one element.
RECURSIVE resolvePath(_, _)
resolvePath(v, path) ==
    IF path = <<>> THEN v
    ELSE CASE v.t = "object" ->
                IF HasField(v, path[1]) THEN resolvePath(Lookup(v, path[1]), Tail(path)) ELSE missing
           [] v.t = "array" ->
                IF path[1] \in DOMAIN ArrayIndexes
                THEN IF ArrayIndexes[path[1]] < Len(v.e)
                     THEN resolvePath(v.e[ArrayIndexes[path[1]] + 1], Tail(path)) ELSE missing
                ELSE LET docs == SelectSeq(v.e, LAMBDA x : x.t = "object")
                     IN  Array(SelectSeq([i \in DOMAIN docs |-> resolvePath(docs[i], path)],
                                         LAMBDA x : x.t # "missing"))
           [] OTHER -> missing

\* $sortArray: keys [path, desc], an empty path for whole values; stable.
sortArrayLess(a, b, keys) ==
    LET cmp(k) == LET c == opCmp(resolvePath(a, k.path), resolvePath(b, k.path))
                  IN  IF k.desc THEN 0 - c ELSE c
    IN  \E i \in DOMAIN keys : cmp(keys[i]) < 0 /\ \A j \in 1..(i - 1) : cmp(keys[j]) = 0
sortedArray(e, keys) ==
    LET order == SetToSortSeq(DOMAIN e, LAMBDA i, j :
                    \/ sortArrayLess(e[i], e[j], keys)
                    \/ ~sortArrayLess(e[j], e[i], keys) /\ i < j)
    IN  [i \in DOMAIN e |-> e[order[i]]]

\* $zip over the shortest or the longest input, defaults filling in.
zip(rows, longest, defs) ==
    LET lens == {Len(rows[i].e) : i \in DOMAIN rows}
        n == IF lens = {} THEN 0
             ELSE CHOOSE x \in lens : \A y \in lens : IF longest THEN x >= y ELSE x <= y
        cell(i, j) == IF j <= Len(rows[i].e) THEN rows[i].e[j]
                      ELSE IF i <= Len(defs) THEN defs[i] ELSE Null
    IN  IF \E i \in DOMAIN rows : rows[i].t # "array" THEN Null
        ELSE Array([j \in 1..n |-> Array([i \in DOMAIN rows |-> cell(i, j)])])

-----------------------------------------------------------------------------
(* The evaluation of compiled aggregation expressions (agg/expr.go, the     *)
(* short-circuit operators of ops_core.go, the binding ones of              *)
(* ops_array.go).                                                           *)

Const(v) == [x |-> "const", v |-> v]
Path(p) == [x |-> "path", path |-> p]
Var(n, p) == [x |-> "var", name |-> n, path |-> p]
ArrayOf(es) == [x |-> "array", es |-> es]
ObjectOf(fs) == [x |-> "object", fs |-> fs]                  \* fs: [k, e]
Op(op, args) == [x |-> "op", op |-> op, args |-> args]
Switch(branches, def) == [x |-> "switch", branches |-> branches, def |-> def]
Let(vs, in) == [x |-> "let", vs |-> vs, in |-> in]           \* vs: [n, e]
FilterOf(input, as, cond, limit) ==
    [x |-> "filter", input |-> input, as |-> as, cond |-> cond, limit |-> limit]
MapOf(input, as, in) == [x |-> "map", input |-> input, as |-> as, in |-> in]
Reduce(input, init, in) == [x |-> "reduce", input |-> input, init |-> init, in |-> in]
SortArray(input, keys) == [x |-> "sortArray", input |-> input, keys |-> keys]
ZipOf(inputs, longest, defs) == [x |-> "zip", inputs |-> inputs, longest |-> longest, defs |-> defs]
GetField(field, input) == [x |-> "getField", field |-> field, input |-> input]
SetField(field, input, value) ==
    [x |-> "setField", field |-> field, input |-> input, value |-> value]
Convert(input, to, onError, onNull) ==
    [x |-> "convert", input |-> input, to |-> to, onError |-> onError, onNull |-> onNull]
\* A date operator with its evaluated operands and its fixed options.
DateOp(op, args, opt) == [x |-> "date", op |-> op, args |-> args, opt |-> opt]

redactKeep == String(<<0, 1>>)
redactPrune == String(<<0, 2>>)
redactDescend == String(<<0, 3>>)

docCtx(d, vars) == [root |-> d, cur |-> d, vars |-> vars]
withVar(c, n, v) == [c EXCEPT !.vars = (n :> v) @@ @]

\* varExpr: a variable nobody bound is missing.
variable(c, n) ==
    CASE n = "ROOT" -> c.root [] n = "CURRENT" -> c.cur [] n = "NOW" -> Date(Now)
      [] n = "REMOVE" -> missing [] n = "KEEP" -> redactKeep
      [] n = "PRUNE" -> redactPrune [] n = "DESCEND" -> redactDescend
      [] OTHER -> IF n \in DOMAIN c.vars THEN c.vars[n] ELSE missing

\* The operators that evaluate every operand first.
eager(op, v) ==
    CASE op = "$add" -> opAdd(v) [] op = "$multiply" -> opMultiply(v)
      [] op = "$subtract" -> opSubtract(v[1], v[2])
      [] op = "$divide" -> opDivide(v[1], v[2]) [] op = "$mod" -> opMod(v[1], v[2])
      [] op \in {"$abs", "$ceil", "$floor", "$round", "$trunc"} -> unaryNum(op, v[1])
      [] op \in {"$eq", "$ne", "$gt", "$gte", "$lt", "$lte"} -> compareOp(op, v[1], v[2])
      [] op = "$cmp" -> Int32(opCmp(v[1], v[2]))
      [] op = "$and" -> Bool(\A i \in DOMAIN v : exprTruthy(v[i]))
      [] op = "$or" -> Bool(\E i \in DOMAIN v : exprTruthy(v[i]))
      [] op = "$not" -> Bool(~exprTruthy(v[1]))
      [] op = "$cond" -> IF exprTruthy(v[1]) THEN v[2] ELSE v[3]
      [] op = "$ifNull" -> v[CHOOSE i \in DOMAIN v : /\ i = Len(v) \/ ~isNullish(v[i])
                                                     /\ \A j \in 1..(i - 1) : isNullish(v[j])]
      [] op = "$concat" -> opConcat(v) [] op = "$split" -> opSplit(v[1], v[2])
      [] op = "$substrBytes" -> opSubstrBytes(v[1], v[2], v[3])
      [] op = "$substrCP" -> opSubstrCP(v[1], v[2], v[3])
      [] op = "$strLenBytes" -> strLen(v[1], FALSE) [] op = "$strLenCP" -> strLen(v[1], TRUE)
      [] op = "$indexOfBytes" -> indexOf(v, FALSE) [] op = "$indexOfCP" -> indexOf(v, TRUE)
      [] op = "$replaceOne" -> opReplace(v[1], v[2], v[3], FALSE)
      [] op = "$replaceAll" -> opReplace(v[1], v[2], v[3], TRUE)
      [] op = "$trim" -> opTrim(v[1], Tail(v), "both")
      [] op = "$ltrim" -> opTrim(v[1], Tail(v), "left")
      [] op = "$rtrim" -> opTrim(v[1], Tail(v), "right")
      [] op = "$size" -> IF v[1].t = "array" THEN Int32(Len(v[1].e)) ELSE Null
      [] op = "$arrayElemAt" -> opArrayElemAt(v[1], v[2])
      [] op = "$first" -> endElem(v[1], FALSE) [] op = "$last" -> endElem(v[1], TRUE)
      [] op = "$concatArrays" -> opConcatArrays(v) [] op = "$slice" -> opSlice(v)
      [] op = "$reverseArray" -> IF v[1].t = "array" THEN Array(Reverse(v[1].e)) ELSE Null
      [] op = "$range" -> opRange(v) [] op = "$in" -> opIn(v[1], v[2])
      [] op = "$indexOfArray" -> opIndexOfArray(v) [] op = "$isArray" -> Bool(v[1].t = "array")
      [] op = "$arrayToObject" -> opArrayToObject(v[1])
      [] op = "$objectToArray" -> opObjectToArray(v[1])
      [] op = "$setEquals" -> opSetEquals(v) [] op = "$setUnion" -> opSetUnion(v)
      [] op = "$setIntersection" -> opSetIntersection(v)
      [] op = "$setDifference" -> opSetDifference(v[1], v[2])
      [] op = "$setIsSubset" -> opSetIsSubset(v[1], v[2])
      [] op = "$anyElementTrue" -> opAnyElementTrue(v[1])
      [] op = "$allElementsTrue" -> opAllElementsTrue(v[1])
      [] op = "$mergeObjects" -> opMergeObjects(v)
      [] op = "$isNumber" -> Bool(isNumber(v[1]))
      [] op = "$toInt" -> shorthandConvert(v[1], "int") [] op = "$toLong" -> shorthandConvert(v[1], "long")
      [] op = "$toDouble" -> shorthandConvert(v[1], "double")
      [] op = "$toString" -> shorthandConvert(v[1], "string")
      [] op = "$toBool" -> shorthandConvert(v[1], "bool") [] op = "$toDate" -> shorthandConvert(v[1], "date")

evalDateOp(op, v, o) ==
    CASE op = "$dateAdd" -> IF isNumber(v[2]) THEN dateAdd(v[1], o.unit, intArg(v[2]), o.tz, FALSE) ELSE Null
      [] op = "$dateSubtract" -> IF isNumber(v[2]) THEN dateAdd(v[1], o.unit, intArg(v[2]), o.tz, TRUE) ELSE Null
      [] op = "$dateDiff" -> dateDiff(v[1], v[2], o.unit)
      [] op = "$dateTrunc" -> dateTrunc(v[1], o.unit, o.bin, o.tz)
      [] op = "$datePart" -> dateOpt(o.part, v[1], o.tz)

RECURSIVE eval(_, _)

\* letExpr: every variable is computed in the outer context.
letContext(c, vs) ==
    FoldLeft(LAMBDA cc, b : withVar(cc, b.n, eval(b.e, c)), c, vs)

\* filterExpr: the limit, if it is a number from 0, is tested after a keep.
evalFilterExpr(e, c) ==
    LET input == eval(e.input, c)
        limit == IF e.limit # <<>> /\ isNumber(eval(e.limit[1], c)) THEN intArg(eval(e.limit[1], c)) ELSE -1
        kept == SelectSeq(input.e, LAMBDA el : exprTruthy(eval(e.cond, withVar(c, e.as, el))))
        most == IF limit = 0 THEN 1 ELSE limit
    IN  IF input.t # "array" THEN Null
        ELSE Array(IF limit >= 0 /\ most < Len(kept) THEN SubSeq(kept, 1, most) ELSE kept)

evalMap(e, c) ==
    LET input == eval(e.input, c)
    IN  IF input.t # "array" THEN Null
        ELSE Array([i \in DOMAIN input.e |-> orNull(eval(e.in, withVar(c, e.as, input.e[i])))])

evalReduce(e, c) ==
    LET input == eval(e.input, c)
    IN  IF input.t # "array" THEN Null
        ELSE FoldLeft(LAMBDA acc, el : eval(e.in, withVar(withVar(c, "value", acc), "this", el)),
                      eval(e.init, c), input.e)

evalZip(e, c) ==
    LET rows == eval(e.inputs, c)
        defs == IF e.defs = <<>> THEN <<>> ELSE elements(eval(e.defs[1], c))
    IN  IF rows.t # "array" THEN Null ELSE zip(rows.e, e.longest, defs)

\* getFieldExpr and setFieldExpr: the field is an expression for its name.
evalGetField(e, c) ==
    LET name == eval(e.field, c)
        d == IF e.input = <<>> THEN c.cur ELSE eval(e.input[1], c)
    IN  IF ~IsString(name) \/ d.t # "object" THEN missing
        ELSE IF HasField(d, nameOf(name.s)) THEN Lookup(d, nameOf(name.s)) ELSE missing
evalSetField(e, c) ==
    LET name == eval(e.field, c)
        in == eval(e.input, c)
        d == IF isNullish(in) THEN Object(<<>>) ELSE in
    IN  IF ~IsString(name) \/ d.t # "object" THEN missing
        ELSE withField(d, nameOf(name.s), eval(e.value, c))

evalConvert(e, c) ==
    LET v == eval(e.input, c)
        r == convertTo(v, e.to)
        orElse(o) == IF o = <<>> THEN Null ELSE eval(o[1], c)
    IN  IF isNullish(v) THEN orElse(e.onNull) ELSE IF r = <<>> THEN orElse(e.onError) ELSE r[1]

evalSwitch(e, c) ==
    LET hits == {i \in DOMAIN e.branches : exprTruthy(eval(e.branches[i].when, c))}
    IN  IF hits # {} THEN eval(e.branches[CHOOSE i \in hits : \A j \in hits : i <= j].then, c)
        ELSE IF e.def # <<>> THEN eval(e.def[1], c) ELSE missing

\* objectExpr: a field whose value is missing is left out.
evalObject(e, c) ==
    LET fs == [i \in DOMAIN e.fs |-> Field(e.fs[i].k, eval(e.fs[i].e, c))]
    IN  Object(SelectSeq(fs, LAMBDA f : f.v.t # "missing"))

eval(e, c) ==
    CASE e.x = "const" -> e.v
      [] e.x = "path" -> resolvePath(c.cur, e.path)
      [] e.x = "var" -> resolvePath(variable(c, e.name), e.path)
      [] e.x = "array" -> Array([i \in DOMAIN e.es |-> orNull(eval(e.es[i], c))])
      [] e.x = "object" -> evalObject(e, c)
      [] e.x = "op" -> eager(e.op, [i \in DOMAIN e.args |-> eval(e.args[i], c)])
      [] e.x = "switch" -> evalSwitch(e, c)
      [] e.x = "let" -> eval(e.in, letContext(c, e.vs))
      [] e.x = "filter" -> evalFilterExpr(e, c)
      [] e.x = "map" -> evalMap(e, c)
      [] e.x = "reduce" -> evalReduce(e, c)
      [] e.x = "sortArray" -> LET v == eval(e.input, c)
                              IN  IF v.t = "array" THEN Array(sortedArray(v.e, e.keys)) ELSE Null
      [] e.x = "zip" -> evalZip(e, c)
      [] e.x = "getField" -> evalGetField(e, c)
      [] e.x = "setField" -> evalSetField(e, c)
      [] e.x = "convert" -> evalConvert(e, c)
      [] e.x = "date" -> evalDateOp(e.op, [i \in DOMAIN e.args |-> eval(e.args[i], c)], e.opt)
=============================================================================
