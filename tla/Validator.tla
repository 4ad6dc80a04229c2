----------------------------- MODULE Validator ------------------------------
(* Collection validators (schema/): a $jsonSchema document or a filter.      *)
(*                                                                           *)
(* A schema is a record that has a field for every keyword given:            *)
(* bsonType and type (sequences of names), required, properties (a function  *)
(* from names to schemas), additionalProperties ([allowed |-> b] or          *)
(* [schema |-> s]), minLength, maxLength, minimum, maximum (doubles, in      *)
(* halves), exclusiveMinimum, exclusiveMaximum, enum, pattern (the strings   *)
(* it accepts), items, minItems, maxItems, uniqueItems, allOf, anyOf, oneOf, *)
(* not.  A validator is [schema |-> s], [filter |-> f] or the empty [none].  *)
EXTENDS Match

Has(s, keyword) == keyword \in DOMAIN s

BsonTypes == {"double", "string", "object", "array", "binData", "objectId", "bool", "date",
              "null", "regex", "javascript", "int", "timestamp", "long", "decimal",
              "minKey", "maxKey"}
NumberTypes == {"double", "int", "long", "decimal"}

\* bsonTypeFor: the types a name stands for, none when it is unknown.
bsonTypeFor(name, jsonType) ==
    IF ~jsonType THEN {name} \cap BsonTypes
    ELSE CASE name = "boolean" -> {"bool"}
           [] name = "number" -> NumberTypes
           [] name = "integer" -> {"int", "long"}
           [] OTHER -> {name} \cap {"object", "array", "string", "null"}

TypeNames(s) ==
    (IF Has(s, "bsonType") THEN {<<n, FALSE>> : n \in Range(s.bsonType)} ELSE {})
    \cup (IF Has(s, "type") THEN {<<n, TRUE>> : n \in Range(s.type)} ELSE {})

Whole(v) == v.t = "double" /\ ~IsNaN(v) /\ FloatValue(v.bits) % 2 = 0
                /\ FloatValue(v.bits) \notin {InfMagnitude, 0 - InfMagnitude}

\* compileTypes and typeMatches: "number" is every numeric type, "integer" a
\* whole double too.
typeMatches(s, v) ==
    \E nm \in TypeNames(s) :
        \/ nm[1] = "number" /\ v.t \in NumberTypes
        \/ nm[1] = "integer" /\ Whole(v)
        \/ nm[1] # "number" /\ v.t \in bsonTypeFor(nm[1], nm[2])

\* Runes of a UTF-8 string: the bytes that do not continue one.
RuneCount(b) == Cardinality({i \in 1..Len(b) : b[i] \notin 128..191})
checkString(s, v) ==
    v.t = "string" =>
        /\ Has(s, "minLength") => RuneCount(v.s) >= s.minLength
        /\ Has(s, "maxLength") => RuneCount(v.s) <= s.maxLength
        /\ Has(s, "pattern") => v.s \in s.pattern

\* checkNumber compares doubles: NaN is below no minimum and above no maximum.
\* A decimal has no double and is not checked.
checkNumber(s, v) ==
    (IsMachineNumber(v) /\ ~IsNaN(v)) =>
        LET f == FloatValue(AsFloat64(v))
        IN  /\ Has(s, "minimum") =>
                  IF Has(s, "exclusiveMinimum") THEN f > s.minimum ELSE f >= s.minimum
            /\ Has(s, "maximum") =>
                  IF Has(s, "exclusiveMaximum") THEN f < s.maximum ELSE f <= s.maximum

RECURSIVE validate(_, _)

checkArray(s, v) ==
    v.t = "array" =>
        /\ Has(s, "minItems") => Len(v.e) >= s.minItems
        /\ Has(s, "maxItems") => Len(v.e) <= s.maxItems
        /\ Has(s, "uniqueItems") => \A i, j \in 1..Len(v.e) : i # j => ~Equal(v.e[i], v.e[j])
        /\ Has(s, "items") => \A i \in 1..Len(v.e) : validate(s.items, v.e[i])

\* A declared property has its own schema, any other the additionalProperties.
checkObject(s, v) ==
    v.t = "object" =>
        /\ Has(s, "required") => \A k \in s.required : HasField(v, k)
        /\ \A i \in 1..Len(v.f) :
              IF Has(s, "properties") /\ v.f[i].k \in DOMAIN s.properties
              THEN validate(s.properties[v.f[i].k], v.f[i].v)
              ELSE Has(s, "additionalProperties") =>
                      IF Has(s.additionalProperties, "schema")
                      THEN validate(s.additionalProperties.schema, v.f[i].v)
                      ELSE s.additionalProperties.allowed

checkLogical(s, v) ==
    /\ Has(s, "allOf") => \A i \in 1..Len(s.allOf) : validate(s.allOf[i], v)
    /\ Has(s, "anyOf") => \E i \in 1..Len(s.anyOf) : validate(s.anyOf[i], v)
    /\ Has(s, "oneOf") => Cardinality({i \in 1..Len(s.oneOf) : validate(s.oneOf[i], v)}) = 1
    /\ Has(s, "not") => ~validate(s.not, v)

validate(s, v) ==
    /\ Has(s, "bsonType") \/ Has(s, "type") => typeMatches(s, v)
    /\ Has(s, "enum") => \E i \in 1..Len(s.enum) : Equal(v, s.enum[i])
    /\ checkString(s, v)
    /\ checkNumber(s, v)
    /\ checkArray(s, v)
    /\ checkObject(s, v)
    /\ checkLogical(s, v)

\* Validator.Validate: the form was decided when it was compiled.
Validate(validator, doc) ==
    CASE "schema" \in DOMAIN validator -> validate(validator.schema, doc)
      [] "filter" \in DOMAIN validator -> evalFilter(doc, validator.filter)
      [] OTHER -> TRUE

\* compileNode refuses a schema that names an unknown type.
RECURSIVE compileNode(_)
compileNode(s) ==
    /\ \A nm \in TypeNames(s) : nm[1] = "number" \/ bsonTypeFor(nm[1], nm[2]) # {}
    /\ Has(s, "properties") => \A k \in DOMAIN s.properties : compileNode(s.properties[k])
    /\ (Has(s, "additionalProperties") /\ Has(s.additionalProperties, "schema")) =>
          compileNode(s.additionalProperties.schema)
    /\ Has(s, "items") => compileNode(s.items)
    /\ Has(s, "not") => compileNode(s.not)
    /\ \A kw \in {"allOf", "anyOf", "oneOf"} :
          Has(s, kw) => \A i \in 1..Len(s[kw]) : compileNode(s[kw][i])

Compile(validator) ==
    CASE "schema" \in DOMAIN validator -> compileNode(validator.schema)
      [] "filter" \in DOMAIN validator -> compiles(validator.filter)
      [] OTHER -> TRUE
=============================================================================
