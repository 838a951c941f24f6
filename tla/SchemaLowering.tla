--------------------------- MODULE SchemaLowering ---------------------------
(***************************************************************************)
(* The JSON Schema frontend: a parsed schema to the arena of SchemaIr.     *)
(*                                                                         *)
(* A JSON value, schema or instance, is a record with its type t: "Null",  *)
(* "Bool" (b), "Num" (a token of SchemaIr), "Str" (s), "Arr" (items)       *)
(* or "Obj" (fields, a sequence of pairs in source order).                 *)
(*                                                                         *)
(* A function of the Lowerer is a call: a record naming the function, the  *)
(* schema or the fields it is given, the pointer and the depth, and the    *)
(* two open_under_unevaluated flags it runs under.  Calls(x, b, c) are the *)
(* calls it makes, in order, and Built(x, b, c, ids) the node it builds    *)
(* from their answers, so that the arena is filled in the order of the     *)
(* code.  A keyword of the wrong type is reported before the children of   *)
(* its schema are lowered, and not among them.                             *)
(*                                                                         *)
(* x is what does not change: the root schema, the options, the dialect    *)
(* quirks and, when the schema needs one, the resource graph.              *)
(***************************************************************************)
EXTENDS SchemaIr

CONSTANTS
    MaxDepth,           \* MAX_DEPTH
    MaxExpandedNodes,   \* MAX_EXPANDED_NODES
    Fragment,           \* a local reference to what its fragment names
    Leading,            \* a pattern to its body and its leading assertions
    KnownMetaschemas,   \* is_known_metaschema
    RefExclusive,       \* the metaschemas of the drafts up to 07
    NoConditionals      \* the metaschemas of the drafts up to 06

Get(fields, key) ==
    LET at == {i \in DOMAIN fields : fields[i][1] = key}
    IN  IF at = {} THEN {} ELSE {fields[CHOOSE i \in at : \A j \in at : i <= j][2]}

ObjHas(fields, key) == \E i \in DOMAIN fields : fields[i][1] = key

Is(set, type) == \E value \in set : value.t = type

Wrong(set, type) == \E value \in set : value.t # type

Entries(set) == IF set = {} THEN <<>> ELSE The(set).fields

IsTrue(set) == \E value \in set : value.t = "Bool" /\ value.b

IsFalse(set) == \E value \in set : value.t = "Bool" /\ ~value.b

(* JSON text has no children; the rest has. *)
Inside(value) ==
    CASE value.t = "Obj" -> [i \in DOMAIN value.fields |-> value.fields[i][2]]
      [] value.t = "Arr" -> value.items
      [] OTHER -> <<>>

----------------------------------------------------------------------------
(* The keywords. *)

ObjectOnlyKeywords ==
    {"properties", "patternProperties", "additionalProperties", "propertyNames", "minProperties", "maxProperties",
     "required", "dependentSchemas", "dependentRequired", "dependencies"}

AnnotationKeywords ==
    {"title", "description", "$comment", "default", "examples", "deprecated", "readOnly", "writeOnly", "$schema",
     "$id", "$anchor", "$dynamicAnchor", "$defs", "definitions", "$vocabulary"}

ValidTypeNames == {"null", "boolean", "integer", "number", "string", "array", "object"}

HasBaseAssertion(fields) ==
    \E i \in DOMAIN fields :
        /\ fields[i][1] \notin {"$ref", "$dynamicRef", "anyOf", "allOf", "oneOf", "not", "if", "then", "else"}
        /\ fields[i][1] \notin AnnotationKeywords

DeclaredDialect(value) ==
    IF value.t # "Obj" THEN {} ELSE {d.s : d \in {v \in Get(value.fields, "$schema") : v.t = "Str"}}

DialectQuirks(dialect) ==
    [ref_exclusive |-> dialect \in RefExclusive, if_then_else_unsupported |-> dialect \in NoConditionals]

NoQuirks == [ref_exclusive |-> FALSE, if_then_else_unsupported |-> FALSE]

QuirksOf(value, otherwise) ==
    IF DeclaredDialect(value) = {} THEN otherwise ELSE DialectQuirks(The(DeclaredDialect(value)))

DialectQuirksHere(x, b) == IF b.resource \in DOMAIN x.quirks THEN x.quirks[b.resource] ELSE x.root_quirks

(* small is the token as an i64, when it has one. *)
CountOfToken(token, small) ==
    LET Answer(code, bound) == [code |-> code, bound |-> bound]
    IN  CASE token.t # "Num" -> Answer("Malformed", {})
          [] token.t = "Num" /\ small # {} ->
                IF The(small) < 0
                THEN Answer("Malformed", {})
                ELSE Answer(Ok, {[above |-> The(small) > U32Max, n |-> The(small)]})
          [] OTHER ->
                IF (token.neg /\ ~NumericTokenIsZero(token)) \/ ~NumericTokenIsInteger(token)
                THEN Answer("Malformed", {})
                ELSE Answer(Ok, {[above |-> TRUE, n |-> 0]})

CountField(fields, key) ==
    IF ObjHas(fields, key)
    THEN LET token == The(Get(fields, key)) IN CountOfToken(token, NumericTokenAsI64(token))
    ELSE [code |-> Ok, bound |-> {}]

(* Some(AboveU32) is no bound on a maximum. *)
Fits(count) == {c.n : c \in {d \in count.bound : ~d.above}}

Above(count) == \E c \in count.bound : c.above

(* What the counts of a keyword pair allow: nothing, an error, or a range. *)
RangeOf(min, max) ==
    LET Counted(verdict) == [verdict |-> verdict, min |-> Fits(min), max |-> Fits(max)]
    IN  CASE min.code # Ok -> Counted("Malformed")
          [] min.code = Ok /\ Above(min) -> Counted("never")
          [] min.code = Ok /\ ~Above(min) /\ max.code # Ok -> Counted("Malformed")
          [] OTHER -> Counted("some")

CountRange(fields, min_key, max_key) == RangeOf(CountField(fields, min_key), CountField(fields, max_key))

Below(range, default) ==
    \E hi \in range.max : hi < (IF range.min = {} THEN default ELSE The(range.min))

----------------------------------------------------------------------------
(* Scalars. *)

DigitRangeOf(min, max) ==
    LET least == IF Fits(min) = {} \/ The(Fits(min)) < 1 THEN 1 ELSE The(Fits(min))
        Answer(code) == [code |-> code, min |-> least, max |-> Fits(max)]
    IN  CASE min.code # Ok -> Answer(min.code)
          [] min.code = Ok /\ Above(min) -> Answer("Limit")
          [] min.code = Ok /\ ~Above(min) /\ max.code # Ok -> Answer(max.code)
          [] min.code = Ok /\ ~Above(min) /\ max.code = Ok /\ Above(max) -> Answer("Limit")
          [] OTHER -> Answer(IF \E hi \in Fits(max) : hi < least THEN "Malformed" ELSE Ok)

DigitRange(fields, min_key, max_key) == DigitRangeOf(CountField(fields, min_key), CountField(fields, max_key))

(* The regex of a token whose parts have so many digits; the exponent is signed. *)
DigitConstraints(b, parts) ==
    LET bad == {i \in DOMAIN parts : parts[i].code # Ok}
        made == InternNode(b, [k |-> "LexicalNumber",
                               digits |-> [i \in DOMAIN parts |-> [min |-> parts[i].min, max |-> parts[i].max]]])
    IN  IF bad # {}
        THEN [b |-> Fail(b, parts[CHOOSE i \in bad : \A j \in bad : i <= j].code).b, part |-> <<>>]
        ELSE [b |-> made.b, part |-> <<made.id>>]

LowerDigitConstraints(b, fields, integer) ==
    LET keys == IF integer
                THEN <<"minDigits", "maxDigits">>
                ELSE <<"minDigitsInteger", "maxDigitsInteger", "minDigitsFraction", "maxDigitsFraction",
                       "minDigitsExponent", "maxDigitsExponent">>
    IN  IF \A i \in DOMAIN keys : ~ObjHas(fields, keys[i])
        THEN [b |-> b, part |-> <<>>]
        ELSE DigitConstraints(b, [i \in 1 .. Len(keys) \div 2 |-> DigitRange(fields, keys[2 * i - 1], keys[2 * i])])

(* A keyword read as a number: its value, or why it has none. *)
NumberMultipleOf(fields) ==
    LET given == Get(fields, "multipleOf")
        Answer(code, value) == [code |-> code, key |-> "multipleOf", value |-> value]
        Positive(value) ==
            CASE value = {} -> Answer("Unsupported", {})
              [] value # {} /\ The(value).value = 0 -> Answer("Malformed", {})
              [] OTHER -> Answer(Ok, value)
    IN  CASE given = {} -> Answer(Ok, {})
          [] Wrong(given, "Num") \/ (Is(given, "Num") /\ The(given).neg) -> Answer("Malformed", {})
          [] OTHER -> Positive(DecimalTokenAsCoefExp(The(given)))

OneBound(fields, key, exclusive) ==
    LET given == Get(fields, key)
        Answer(code, value) == [code |-> code, key |-> key, value |-> value]
        Answered(bound) == Answer(IF bound = {} THEN "Unsupported" ELSE Ok, bound)
    IN  CASE given = {} -> Answer(Ok, {})
          [] Wrong(given, "Num") -> Answer("Malformed", {})
          [] OTHER -> Answered({[value |-> d.value, scale |-> d.scale, exclusive |-> exclusive] :
                                d \in DecimalTokenScaled(The(given))})

(* tighter is 1 for a minimum and -1 for a maximum; of two equal bounds the exclusive one stays. *)
TighterBound(inclusive, exclusive, tighter) ==
    LET replaces == \A new \in exclusive.value, old \in inclusive.value : tighter * DecimalCmp(new, old) >= 0
    IN  CASE inclusive.code # Ok -> inclusive
          [] inclusive.code = Ok /\ (exclusive.code # Ok \/ (exclusive.value # {} /\ replaces)) -> exclusive
          [] OTHER -> inclusive

NumberBound(fields, key, exclusive_key, tighter) ==
    TighterBound(OneBound(fields, key, FALSE), OneBound(fields, exclusive_key, TRUE), tighter)

WithLexical(made, lexical) ==
    IF made.b.failed # Ok \/ lexical = <<>> THEN made ELSE IntersectionOf(made.b, <<made.id>> \o lexical)

(* The first of the keywords that has no value settles the schema. *)
FirstBad(answers) ==
    LET bad == {i \in DOMAIN answers : answers[i].code # Ok}
    IN  IF bad = {} THEN {} ELSE {answers[CHOOSE i \in bad : \A j \in bad : i <= j]}

Refused(b, c, answer) ==
    IF answer.code = "Unsupported"
    THEN Unsupported(b, answer.key,
                     IF answer.key = "multipleOf" THEN "NumericRangeUnsupported" ELSE "NumberBoundUnsupported",
                     Append(c.ptr, answer.key))
    ELSE Fail(b, answer.code)

NumberFrom(c, lexical, multiple_of, minimum, maximum) ==
    LET b == lexical.b
        bad == FirstBad(<<multiple_of, minimum, maximum>>)
    IN  CASE b.failed # Ok -> Made(b, NoNode)
          [] b.failed = Ok /\ bad # {} -> Refused(b, c, The(bad))
          [] OTHER ->
                IF EmptyRange(minimum.value, maximum.value)
                THEN Fail(b, "Malformed")
                ELSE WithLexical(NumberRange(b, FALSE, minimum.value, maximum.value, multiple_of.value), lexical.part)

LowerNumber(x, b, c) ==
    IF x.validation_enabled
    THEN NumberFrom(c, LowerDigitConstraints(b, c.fields, FALSE), NumberMultipleOf(c.fields),
                    NumberBound(c.fields, "minimum", "exclusiveMinimum", 1),
                    NumberBound(c.fields, "maximum", "exclusiveMaximum", -1))
    ELSE NumberRange(b, FALSE, {}, {}, {})

IntegerFrom(c, lexical, minimum, maximum, multiple_of) ==
    LET b == lexical.b
        bad == FirstBad(<<minimum, maximum, multiple_of>>)
        lo == FastIntegerBound(minimum.value, TRUE)
        hi == FastIntegerBound(maximum.value, FALSE)
        divisor == FastIntegerMultiple(multiple_of.value)
    IN  CASE b.failed # Ok -> Made(b, NoNode)
          [] b.failed = Ok /\ bad # {} -> Refused(b, c, The(bad))
          [] OTHER ->
                IF EmptyRange(minimum.value, maximum.value)
                THEN InternNode(b, Leaf("Never"))
                ELSE WithLexical(IF lo # {} /\ hi # {} /\ divisor # {}
                                 THEN IntegerMultipleOf(b, The(lo), The(hi), The(divisor))
                                 ELSE NumberRange(b, TRUE, minimum.value, maximum.value, multiple_of.value),
                                 lexical.part)

LowerInteger(x, b, c) ==
    IF x.validation_enabled
    THEN IntegerFrom(c, LowerDigitConstraints(b, c.fields, TRUE),
                     NumberBound(c.fields, "minimum", "exclusiveMinimum", 1),
                     NumberBound(c.fields, "maximum", "exclusiveMaximum", -1), NumberMultipleOf(c.fields))
    ELSE IntegerMultipleOf(b, {}, {}, {})

JsonType(value) ==
    CASE value.t = "Null" -> "null"
      [] value.t = "Bool" -> "boolean"
      [] value.t = "Str" -> "string"
      [] value.t = "Arr" -> "array"
      [] value.t = "Obj" -> "object"
      [] OTHER -> "number"

NumericLiteralMatchesTypes(token, types) ==
    types = {} \/ "number" \in types \/ ("integer" \in types /\ NumericTokenIsInteger(token))

NumericTypeRequiresInteger(types) == "integer" \in types /\ "number" \notin types

LiteralMatches(value, types) == types = {} \/ JsonType(value) \in types

Exactly(b, decimal, types) ==
    LET bound == {[value |-> decimal.value, scale |-> decimal.scale, exclusive |-> FALSE]}
    IN  NumberRange(b, NumericTypeRequiresInteger(types), bound, bound, {})

LowerConst(b, c, value, types) ==
    IF value.t = "Num"
    THEN CASE ~NumericLiteralMatchesTypes(value, types) -> InternNode(b, Leaf("Never"))
           [] NumericLiteralMatchesTypes(value, types) /\ DecimalTokenScaled(value) = {} ->
                Unsupported(b, "const", "NumericRangeUnsupported", Append(c.ptr, "const"))
           [] OTHER -> Exactly(b, The(DecimalTokenScaled(value)), types)
    ELSE CASE ~LiteralMatches(value, types) -> InternNode(b, Leaf("Never"))
           [] LiteralMatches(value, types) /\ value.t = "Str" -> InternNode(b, StringConst(value.s))
           [] OTHER -> EnumValues(b, {value})

LowerEnum(b, c, values, types) ==
    LET items == ToSet(values.items)
        numbers == {v \in items : v.t = "Num" /\ NumericLiteralMatchesTypes(v, types)}
        lits == {v \in items : v.t # "Num" /\ LiteralMatches(v, types)}
        decimals == SetToSortSeq(UNION {DecimalTokenScaled(v) : v \in numbers},
                                 LAMBDA p, q : p.value < q.value \/ (p.value = q.value /\ p.scale < q.scale))
        Branch(acc, decimal) ==
            LET made == Exactly(acc.b, decimal, types) IN [b |-> made.b, ids |-> Append(acc.ids, made.id)]
        First == IF lits = {}
                 THEN [b |-> b, ids |-> <<>>]
                 ELSE LET made == EnumValues(b, lits) IN [b |-> made.b, ids |-> <<made.id>>]
        all == FoldLeft(Branch, First, decimals)
    IN  CASE values.t # "Arr" -> Fail(b, "Malformed")
          [] values.t = "Arr" /\ \E v \in numbers : DecimalTokenScaled(v) = {} ->
                Unsupported(b, "enum", "NumericRangeUnsupported", Append(c.ptr, "enum"))
          [] OTHER -> IF lits = {} /\ numbers = {}
                      THEN InternNode(b, Leaf("Never"))
                      ELSE UnionOf(all.b, all.ids)

UnconstrainedString == StringPattern(AnyBody, {}, {}, "Utf8Any")

FormatRegex ==
    [f \in {"date-time", "date", "time", "uuid", "ipv4"} |-> f]

LowerFormat(x, b, c, format) ==
    CASE ~x.format_assertion \/ format \notin DOMAIN FormatRegex \cup {"duration", "ipv6"} ->
            InternNode(b, UnconstrainedString)
      [] x.format_assertion /\ format \in DOMAIN FormatRegex ->
            InternNode(b, StringPattern(FormatRegex[format], {}, {}, "Utf8Any"))
      [] OTHER -> Unsupported(b, "format", "FormatUnsupported", Append(c.ptr, "format"))

(* The body and each look-ahead, negated when it is negative. *)
LowerLeadingAssertions(b, pattern) ==
    LET Text(regex) == StringPattern(regex, {}, {}, "Utf8Any")
        Assertion(acc, assertion) ==
            LET operand == InternNode(acc.b, Text(assertion.operand))
                made == IF assertion.negative THEN NotOf(operand.b, operand.id) ELSE operand
            IN  [b |-> made.b, ids |-> Append(acc.ids, made.id)]
        body == InternNode(b, Text(Leading[pattern].body))
        all == FoldLeft(Assertion, [b |-> body.b, ids |-> <<body.id>>], Leading[pattern].assertions)
    IN  IntersectionOf(all.b, all.ids)

UnsupportedPatternReason == "InvalidPattern"

LowerPattern(b, c, regex) ==
    CASE Analysis[regex] = "Malformed" -> Fail(b, "Malformed")
      [] Analysis[regex] = "Unsupported" ->
            Unsupported(b, "pattern", UnsupportedPatternReason, Append(c.ptr, "pattern"))
      [] Analysis[regex] = "Leading" -> LowerLeadingAssertions(b, regex)
      [] OTHER -> InternNode(b, StringPattern(regex, {}, {}, "Utf8Any"))

(* The format, the pattern and the length, each a part; an unsupported pattern is the last part. *)
(* One more part of the intersection a string becomes. *)
AddPart(p, made) ==
    IF made.b.failed # Ok THEN [p EXCEPT !.b = made.b] ELSE [b |-> made.b, ids |-> Append(p.ids, made.id)]

FormatPart(x, c, p) ==
    IF ObjHas(c.fields, "format") THEN AddPart(p, LowerFormat(x, p.b, c, The(Get(c.fields, "format")).s)) ELSE p

PatternPart(c, p) ==
    IF ObjHas(c.fields, "pattern") /\ p.b.failed = Ok
    THEN AddPart(p, LowerPattern(p.b, c, The(Get(c.fields, "pattern")).s))
    ELSE p

(* An unsupported pattern ends the string before its length. *)
LengthPart(c, length, p) ==
    LET ends == \E pattern \in Get(c.fields, "pattern") : Analysis[pattern.s] = "Unsupported"
        counted == StringPattern(CodePoint, length.min, length.max, "Utf8CountedCodepoints")
    IN  IF (length.min = {} /\ length.max = {}) \/ ends \/ p.b.failed # Ok
        THEN p
        ELSE AddPart(p, InternNode(p.b, counted))

StringOf(p) ==
    CASE p.b.failed # Ok -> Made(p.b, NoNode)
      [] p.b.failed = Ok /\ p.ids = <<>> -> InternNode(p.b, UnconstrainedString)
      [] OTHER -> IntersectionOf(p.b, p.ids)

StringFrom(x, b, c, length) ==
    CASE length.verdict = "never" -> InternNode(b, Leaf("Never"))
      [] \/ length.verdict = "Malformed"
         \/ length.verdict = "some" /\ \E key \in {"format", "pattern"} : Wrong(Get(c.fields, key), "Str") ->
            Fail(b, "Malformed")
      [] OTHER -> StringOf(LengthPart(c, length, PatternPart(c, FormatPart(x, c, [b |-> b, ids |-> <<>>]))))

LowerString(x, b, c) == StringFrom(x, b, c, CountRange(c.fields, "minLength", "maxLength"))

----------------------------------------------------------------------------
(* Calls.  A call of a local function keeps the fields, the pointer and    *)
(* the flags; a call of lower goes one level down.                         *)

CallOf(fn, value, ptr, depth) ==
    [fn |-> fn, ast |-> value, fields |-> <<>>, ptr |-> ptr, depth |-> depth, up |-> FALSE, ui |-> FALSE, ty |-> ""]

Here(c, fn) == [c EXCEPT !.fn = fn]

Typed(c, ty) == [c EXCEPT !.fn = "typed", !.ty = ty]

Anything(c) == [c EXCEPT !.fn = "typeless", !.fields = <<>>]

Under(c, value, path) == [c EXCEPT !.fn = "lower", !.ast = value, !.ptr = c.ptr \o path, !.depth = c.depth + 1]

Isolated(call) == [call EXCEPT !.up = FALSE, !.ui = FALSE]

UnderIsolated(c, value, path) == Isolated(Under(c, value, path))

Optional(condition, call) == IF condition THEN <<call>> ELSE <<>>

UnderKey(c, key) == IF ObjHas(c.fields, key) THEN <<UnderIsolated(c, The(Get(c.fields, key)), <<key>>)>> ELSE <<>>

(* Array elements are numbered from 1 in a path, where the code counts from 0. *)
Elements(c, key, Enter(_, _, _)) ==
    LET items == The(Get(c.fields, key)).items IN [i \in DOMAIN items |-> Enter(c, items[i], <<key, i>>)]

Members(c, key, entries, Enter(_, _, _)) ==
    [i \in DOMAIN entries |-> Enter(c, entries[i][2], <<key, entries[i][1]>>)]

(* What a call asks for: the calls it makes, or the error it ends with. *)
Makes(b, calls) == [b |-> b, calls |-> calls]

Ends(b, code) == [b |-> Fail(b, code).b, calls |-> <<>>]

LowerInner(b, c) ==
    LET fields == c.ast.fields
        has_up == ObjHas(fields, "unevaluatedProperties")
        has_ui == ObjHas(fields, "unevaluatedItems")
        inner == [c EXCEPT !.fields = fields]
    IN  CASE c.depth > MaxDepth \/ b.budget = 0 -> Ends(b, "Limit")
          [] c.depth <= MaxDepth /\ b.budget > 0 /\ c.ast.t \notin {"Obj", "Bool"} -> Ends(b, "Malformed")
          [] OTHER ->
                Makes([b EXCEPT !.budget = @ - 1],
                      <<CASE c.ast.t = "Bool" -> IF c.ast.b THEN Anything(c) ELSE Typed(c, "never")
                          [] c.ast.t = "Obj" /\ has_ui -> Here(inner, "unevaluatedItems")
                          [] c.ast.t = "Obj" /\ ~has_ui /\ has_up -> Here(inner, "unevaluatedProperties")
                          [] OTHER -> Here(inner, "scope")>>)

(* The flags are raised while the rest of the schema is lowered. *)
Flagged(c) ==
    [c EXCEPT !.fn = "scope",
              !.up = @ \/ ObjHas(c.fields, "unevaluatedProperties"),
              !.ui = @ \/ ObjHas(c.fields, "unevaluatedItems")]

LowerUnevaluated(c) ==
    IF c.fn = "unevaluatedItems"
    THEN <<IF ObjHas(c.fields, "unevaluatedProperties") THEN Here(c, "unevaluatedProperties") ELSE Flagged(c)>>
            \o UnderKey(c, "unevaluatedItems")
    ELSE <<Flagged(c)>> \o UnderKey(c, "unevaluatedProperties")

ConditionalHere(x, b, c) == ObjHas(c.fields, "if") /\ ~DialectQuirksHere(x, b).if_then_else_unsupported

Combines(x, b, c) ==
    \/ \E key \in {"$ref", "$dynamicRef", "anyOf", "allOf", "oneOf", "not"} : ObjHas(c.fields, key)
    \/ ConditionalHere(x, b, c)

LowerScope(x, b, c) ==
    LET Part(key) == Optional(ObjHas(c.fields, key), Here(c, key))
    IN  CASE ObjHas(c.fields, "$ref") /\ DialectQuirksHere(x, b).ref_exclusive -> <<Here(c, "$ref")>>
          [] ~Combines(x, b, c) -> <<Here(c, "base")>>
          [] OTHER -> Part("$ref") \o Part("$dynamicRef") \o Part("anyOf") \o Part("allOf") \o Part("oneOf")
                        \o Part("not") \o Optional(ConditionalHere(x, b, c), Here(c, "if"))
                        \o Optional(HasBaseAssertion(c.fields), Here(c, "base"))

(* anyOf, allOf and oneOf. *)
LowerBranches(b, c) ==
    LET branches == Get(c.fields, c.fn)
    IN  IF Wrong(branches, "Arr") \/ The(branches).items = <<>>
        THEN Ends(b, "Malformed")
        ELSE Makes(b, Elements(c, c.fn, Under))

LowerIfThenElse(c) ==
    LET Sub(key) == Under(c, The(Get(c.fields, key)), <<key>>)
        Arm(key) == IF ObjHas(c.fields, key) THEN Sub(key) ELSE Anything(c)
    IN  IF ~ObjHas(c.fields, "then") /\ ~ObjHas(c.fields, "else")
        THEN <<IF c.up \/ c.ui THEN Sub("if") ELSE Anything(c)>>
        ELSE <<Sub("if"), Arm("then"), Arm("else")>>

ConditionElseAlways(b, c, ids) ==
    LET negated == NotOf(b, ids[1])
        yes == IntersectionOf(negated.b, <<ids[1], ids[2]>>)
    IN  CASE Len(ids) = 1 /\ ~c.up /\ ~c.ui -> Made(b, ids[1])
          [] Len(ids) = 1 /\ (c.up \/ c.ui) -> UnionOf(negated.b, <<ids[1], negated.id>>)
          [] OTHER -> UnionOf(yes.b, <<yes.id, ids[3]>>)

ConditionBuilt(b, c, ids) ==
    LET negated == NotOf(b, ids[1])
        yes == IntersectionOf(negated.b, <<ids[1], ids[2]>>)
        no == IntersectionOf(yes.b, <<negated.id, ids[3]>>)
    IN  CASE Len(ids) = 1 /\ ~c.up /\ ~c.ui -> Made(b, ids[1])
          [] Len(ids) = 1 /\ (c.up \/ c.ui) -> UnionOf(negated.b, <<ids[1], negated.id>>)
          [] OTHER -> UnionOf(no.b, <<yes.id, no.id>>)

(* The type names of a schema, without duplicates. *)
TypeNames(type) ==
    IF type.t = "Str"
    THEN <<type.s>>
    ELSE FoldLeft(LAMBDA names, item : IF item.s \in ToSet(names) THEN names ELSE Append(names, item.s),
                  <<>>, type.items)

TypeMalformed(type) ==
    CASE type.t = "Str" -> FALSE
      [] type.t = "Arr" ->
            type.items = <<>> \/ \E i \in DOMAIN type.items : type.items[i].t # "Str" \/ type.items[i].s \notin ValidTypeNames
      [] OTHER -> TRUE

IsLiteral(c) == ObjHas(c.fields, "const") \/ ObjHas(c.fields, "enum")

LowerBase(x, b, c) ==
    LET type == Get(c.fields, "type")
        names == TypeNames(The(type))
    IN  CASE ~x.validation_enabled \/ type = {} -> Makes(b, <<Here(c, "typeless")>>)
          [] x.validation_enabled /\ type # {} /\ TypeMalformed(The(type)) -> Ends(b, "Malformed")
          [] OTHER -> Makes(b, IF IsLiteral(c) THEN <<>> ELSE [i \in DOMAIN names |-> Typed(c, names[i])])

LowerTypeless(c) ==
    IF IsLiteral(c)
    THEN <<>>
    ELSE <<IF \E key \in ObjectOnlyKeywords : ObjHas(c.fields, key) THEN Typed(c, "object") ELSE Typed(c, "anyObject"),
           Typed(c, "null"), Typed(c, "boolean"), Typed(c, "string"), Typed(c, "number"), Typed(c, "array")>>

LiteralBuilt(b, c, types) ==
    IF ObjHas(c.fields, "const")
    THEN LowerConst(b, c, The(Get(c.fields, "const")), types)
    ELSE LowerEnum(b, c, The(Get(c.fields, "enum")), types)

BaseBuilt(x, b, c, ids) ==
    LET type == Get(c.fields, "type")
    IN  IF x.validation_enabled /\ type # {} /\ IsLiteral(c)
        THEN LiteralBuilt(b, c, ToSet(TypeNames(The(type))))
        ELSE UnionOf(b, ids)

TypelessBuilt(b, c, ids) ==
    IF IsLiteral(c)
    THEN LiteralBuilt(b, c, {})
    ELSE UnionOf(b, Append(Tail(ids), ids[1]))

----------------------------------------------------------------------------
(* Arrays. *)

(* The counts of an array, read once. *)
ArraySizes(c) ==
    [items |-> CountRange(c.fields, "minItems", "maxItems"), contains |-> CountRange(c.fields, "minContains", "maxContains")]

ContainsVerdict(c, s) ==
    CASE ~ObjHas(c.fields, "contains") -> "some"
      [] ObjHas(c.fields, "contains") /\ Below(s.contains, 1) -> "never"
      [] OTHER -> s.contains.verdict

LowerContains(c) ==
    Optional(ObjHas(c.fields, "contains") /\ The(Get(c.fields, "contains")).t # "Bool",
             UnderIsolated(c, The(Get(c.fields, "contains")), <<"contains">>))

ContainsBuilt(c, s, id) ==
    LET range == s.contains
        given == Get(c.fields, "contains")
    IN  IF given = {}
        THEN {}
        ELSE {[on |-> CASE IsTrue(given) -> Policy("Always")
                        [] IsFalse(given) -> Policy("Never")
                        [] OTHER -> SchemaPolicy(id),
               min |-> IF range.min = {} THEN 1 ELSE The(range.min), max |-> range.max]}

MinItems(s) == IF s.items.min = {} THEN 0 ELSE The(s.items.min)

(* Whether an array is settled by its counts. *)
ArrayVerdict(c, s) ==
    CASE s.items.verdict # "some" -> s.items.verdict
      [] s.items.verdict = "some" /\ Below(s.items, 0) -> "never"
      [] OTHER -> IF Wrong(Get(c.fields, "uniqueItems"), "Bool") THEN "Malformed" ELSE "some"

PrefixMalformed(c) ==
    Wrong(Get(c.fields, "prefixItems"), "Arr") \/ (\E p \in Get(c.fields, "prefixItems") : p.items = <<>>)

(* A closed tuple cannot reach its minItems. *)
ShortTuple(c, s) ==
    IsFalse(Get(c.fields, "items")) /\ MinItems(s) > Len(The(Get(c.fields, "prefixItems")).items)

TupleTail(c) ==
    LET items == Get(c.fields, "items")
    IN  CASE IsFalse(items) -> <<>>
          [] items = {} \/ IsTrue(items) -> <<Isolated(Anything(c))>>
          [] OTHER -> UnderKey(c, "items")

ArraySchemaItems(c) == ObjHas(c.fields, "items") /\ ~IsTrue(Get(c.fields, "items"))

LowerArraySized(b, c, s) ==
    CASE ArrayVerdict(c, s) = "Malformed" -> Ends(b, "Malformed")
      [] ArrayVerdict(c, s) = "never" -> Makes(b, <<>>)
      [] ArrayVerdict(c, s) = "some" /\ ObjHas(c.fields, "prefixItems") ->
            IF PrefixMalformed(c)
            THEN Ends(b, "Malformed")
            ELSE Makes(b, Elements(c, "prefixItems", UnderIsolated) \o TupleTail(c)
                            \o (IF ShortTuple(c, s) THEN <<>> ELSE LowerContains(c)))
      [] OTHER -> Makes(b, LowerContains(c)
                            \o (IF ContainsVerdict(c, s) = "some" /\ ArraySchemaItems(c) THEN UnderKey(c, "items") ELSE <<>>))

LowerArray(b, c) == LowerArraySized(b, c, ArraySizes(c))

TupleBuilt(b, c, s, ids) ==
    LET n == Len(The(Get(c.fields, "prefixItems")).items)
        closed == IsFalse(Get(c.fields, "items"))
    IN  IF ShortTuple(c, s) \/ ContainsVerdict(c, s) = "never"
        THEN InternNode(b, Leaf("Never"))
        ELSE TupleFull(b, SubSeq(ids, 1, n), IF closed THEN {} ELSE {ids[n + 1]}, MinItems(s), s.items.max,
                       IsTrue(Get(c.fields, "uniqueItems")),
                       ContainsBuilt(c, s, ids[Len(ids)]), ~closed /\ ObjHas(c.fields, "items"))

ArrayBuiltSized(b, c, s, ids) ==
    CASE ArrayVerdict(c, s) = "never" -> InternNode(b, Leaf("Never"))
      [] ArrayVerdict(c, s) # "never" /\ ContainsVerdict(c, s) = "Malformed" /\ ~(ObjHas(c.fields, "prefixItems") /\ ShortTuple(c, s)) ->
            Fail(b, "Malformed")
      [] ArrayVerdict(c, s) # "never" /\ ObjHas(c.fields, "prefixItems") -> TupleBuilt(b, c, s, ids)
      [] OTHER ->
            IF ContainsVerdict(c, s) = "never"
            THEN InternNode(b, Leaf("Never"))
            ELSE ArrayFull(b, IF ArraySchemaItems(c) THEN SchemaPolicy(ids[Len(ids)]) ELSE Policy("AllowAny"),
                           MinItems(s), s.items.max, IsTrue(Get(c.fields, "uniqueItems")),
                           ContainsBuilt(c, s, IF ids = <<>> THEN NoNode ELSE ids[1]), ObjHas(c.fields, "items"))

ArrayBuilt(b, c, ids) == ArrayBuiltSized(b, c, ArraySizes(c), ids)

----------------------------------------------------------------------------
(* Objects. *)

StringsDistinct(items) == (\A i \in DOMAIN items : items[i].t = "Str") /\ IsInjective(items)

Texts(items) == [i \in DOMAIN items |-> items[i].s]

(* The names of required, or nothing when they are not a set of strings. *)
RequiredSet(fields) ==
    LET required == Get(fields, "required")
    IN  CASE required = {} -> {<<>>}
          [] Is(required, "Arr") /\ StringsDistinct(The(required).items) -> {Texts(The(required).items)}
          [] OTHER -> {}

(* Triggers with the names they require; a trigger that requires nothing is dropped. *)
RequiredNameGroups(entries) ==
    LET arrays == \A i \in DOMAIN entries : entries[i][2].t = "Arr" /\ StringsDistinct(entries[i][2].items)
        edges == FoldLeft(LAMBDA n, e : n + Len(e[2].items), 0, entries)
        groups == SelectSeq([i \in DOMAIN entries |-> <<entries[i][1], Texts(entries[i][2].items)>>],
                            LAMBDA group : group[2] # <<>>)
        Answer(code, g) == [code |-> code, groups |-> g]
    IN  CASE ~NamesDistinct(entries) \/ ~arrays -> Answer("Malformed", <<>>)
          [] NamesDistinct(entries) /\ arrays /\ edges > MaxPairs -> Answer("Limit", <<>>)
          [] OTHER -> Answer(Ok, groups)

DependentRequiredPairs(fields) ==
    LET given == Get(fields, "dependentRequired")
    IN  IF Wrong(given, "Obj") THEN [code |-> "Malformed", groups |-> <<>>] ELSE RequiredNameGroups(Entries(given))

(* The entries of dependencies that name properties, and those that are schemas. *)
LegacySchemas(fields) == SelectSeq(Entries(Get(fields, "dependencies")), LAMBDA e : e[2].t \in {"Obj", "Bool"})

LegacyDependenciesPairs(fields) ==
    LET given == Get(fields, "dependencies")
        named == SelectSeq(Entries(given), LAMBDA e : e[2].t = "Arr")
    IN  IF Wrong(given, "Obj") \/ Len(named) + Len(LegacySchemas(fields)) # Len(Entries(given))
        THEN [code |-> "Malformed", groups |-> <<>>]
        ELSE RequiredNameGroups(named)

Properties(c) == Entries(Get(c.fields, "properties"))

Patterns(c) == Entries(Get(c.fields, "patternProperties"))

Dependents(c) == Entries(Get(c.fields, "dependentSchemas")) \o LegacySchemas(c.fields)

(* The required names that properties does not declare. *)
UndeclaredRequired(c) ==
    LET declared == {Properties(c)[i][1] : i \in DOMAIN Properties(c)}
    IN  SelectSeq(The(RequiredSet(c.fields)), LAMBDA name : name \notin declared)

(* The patterns up to the first that is not a regular search. *)
BadPatterns(c) == {i \in DOMAIN Patterns(c) : Analysis[Patterns(c)[i][1]] \in {"Unsupported", "Malformed"}}

FirstBadPattern(c) == CHOOSE i \in BadPatterns(c) : \A j \in BadPatterns(c) : i <= j

GoodPatterns(c) == SubSeq(Patterns(c), 1, IF BadPatterns(c) = {} THEN Len(Patterns(c)) ELSE FirstBadPattern(c) - 1)

PropertyRange(c) == CountRange(c.fields, "minProperties", "maxProperties")

PropertyVerdict(range) == IF range.verdict = "some" /\ Below(range, 0) THEN "never" ELSE range.verdict

ObjectMalformed(c) ==
    \/ RequiredSet(c.fields) = {}
    \/ \E key \in {"properties", "patternProperties", "dependentSchemas"} : Wrong(Get(c.fields, key), "Obj")

AdditionalIsSchema(c) ==
    ObjHas(c.fields, "additionalProperties") /\ The(Get(c.fields, "additionalProperties")).t # "Bool"

LowerObject(b, c) ==
    LET undeclared == UndeclaredRequired(c)
        declared == Members(c, "properties", Properties(c), UnderIsolated)
                        \o [i \in DOMAIN undeclared |-> Isolated(Anything(c))]
                        \o Members(c, "patternProperties", GoodPatterns(c), UnderIsolated)
        rest == Members(c, "dependentSchemas", Entries(Get(c.fields, "dependentSchemas")), Under)
                    \o Members(c, "dependencies", LegacySchemas(c.fields), Under)
                    \o UnderKey(c, "propertyNames")
        additional == IF PropertyVerdict(PropertyRange(c)) = "some" /\ AdditionalIsSchema(c)
                      THEN UnderKey(c, "additionalProperties")
                      ELSE <<>>
    IN  CASE ObjectMalformed(c) -> Ends(b, "Malformed")
          [] ~ObjectMalformed(c) /\ BadPatterns(c) # {} -> Makes(b, declared)
          [] ~ObjectMalformed(c) /\ BadPatterns(c) = {} /\ LegacyDependenciesPairs(c.fields).code # Ok ->
                Ends(b, LegacyDependenciesPairs(c.fields).code)
          [] OTHER -> IF DependentRequiredPairs(c.fields).code # Ok
                      THEN Ends(b, DependentRequiredPairs(c.fields).code)
                      ELSE Makes(b, declared \o rest \o additional)

Named(names, ids, from) == [i \in DOMAIN names |-> <<names[i], ids[from + i]>>]

FirstOf(pairs) == [i \in DOMAIN pairs |-> pairs[i][1]]

SecondOf(pairs) == [i \in DOMAIN pairs |-> pairs[i][2]]

(* The object, from the ids of its children in the order of LowerObject. *)
ObjectFrom(x, b, c, ids, range) ==
    LET n1 == Len(Properties(c))
        n2 == n1 + Len(UndeclaredRequired(c))
        n3 == n2 + Len(Patterns(c))
        n4 == n3 + Len(Dependents(c))
        fields == Named(FirstOf(Properties(c)) \o UndeclaredRequired(c), ids, 0)
        required == {i \in DOMAIN fields : fields[i][1] \in ToSet(The(RequiredSet(c.fields)))}
        patterns == Named(FirstOf(Patterns(c)), ids, n2)
        dependent == Named(FirstOf(Dependents(c)), ids, n3)
        pairs == DependentRequiredPairs(c.fields).groups \o LegacyDependenciesPairs(c.fields).groups
        names == IF ObjHas(c.fields, "propertyNames") THEN {ids[n4 + 1]} ELSE {}
        additional == Get(c.fields, "additionalProperties")
        has_open_features == patterns # <<>> \/ names # {} \/ range.min # {} \/ range.max # {}
        Closed(closure) == ObjectFull(b, fields, required, closure, dependent, pairs)
        Open(policy) ==
            OpenObjectFull(b, fields, required, patterns, policy, names, range.min, range.max, dependent, pairs)
    IN  CASE BadPatterns(c) # {} ->
                IF Analysis[Patterns(c)[FirstBadPattern(c)][1]] = "Malformed"
                THEN Fail(b, "Malformed")
                ELSE Unsupported(b, "patternProperties", UnsupportedPatternReason, Append(c.ptr, "patternProperties"))
          [] BadPatterns(c) = {} /\ PropertyVerdict(range) = "Malformed" -> Fail(b, "Malformed")
          [] BadPatterns(c) = {} /\ PropertyVerdict(range) = "never" -> InternNode(b, Leaf("Never"))
          [] OTHER ->
                CASE IsFalse(additional) /\ ~has_open_features -> Closed("Forbidden")
                  [] additional = {} /\ ~c.up /\ ~has_open_features /\ x.closure = "AssumeClosedProfile" ->
                        Closed("AssumeClosedProfile")
                  [] additional = {} /\ ~c.up /\ ~has_open_features /\ x.closure = "RejectOpenObjects" ->
                        Unsupported(b, "additionalProperties", "OpenAdditionalProperties", c.ptr)
                  [] OTHER -> Open(CASE IsFalse(additional) -> Policy("Forbid")
                                     [] IsTrue(additional) -> Policy("AllowAny")
                                     [] AdditionalIsSchema(c) -> SchemaPolicy(ids[Len(ids)])
                                     [] OTHER -> Policy("Open"))

ObjectBuilt(x, b, c, ids) == ObjectFrom(x, b, c, ids, PropertyRange(c))

LowerTyped(x, b, c) ==
    CASE c.ty = "array" -> LowerArray(b, c)
      [] c.ty = "object" -> LowerObject(b, c)
      [] OTHER -> Makes(b, <<>>)

TypedBuilt(x, b, c, ids) ==
    CASE c.ty = "null" -> InternNode(b, Leaf("Null"))
      [] c.ty = "boolean" -> InternNode(b, Leaf("Boolean"))
      [] c.ty = "never" -> InternNode(b, Leaf("Never"))
      [] c.ty = "integer" -> LowerInteger(x, b, c)
      [] c.ty = "number" -> LowerNumber(x, b, c)
      [] c.ty = "string" -> LowerString(x, b, c)
      [] c.ty = "array" -> ArrayBuilt(b, c, ids)
      [] c.ty = "object" -> ObjectBuilt(x, b, c, ids)
      [] c.ty = "anyObject" -> OpenObjectFull(b, <<>>, {}, <<>>, Policy("Open"), {}, {}, {}, <<>>, <<>>)
      [] OTHER -> Unsupported(b, "type", "UnsupportedKeyword", Append(c.ptr, "type"))

----------------------------------------------------------------------------
(* References.  Without a resource graph a reference is inlined, unless    *)
(* its target is on a cycle of references: then it is a slot.              *)

RECURSIVE At(_, _)
At(value, path) ==
    IF path = <<>>
    THEN {value}
    ELSE LET next == CASE value.t = "Obj" -> Get(value.fields, Head(path))
                       [] value.t = "Arr" -> {value.items[i] : i \in {j \in DOMAIN value.items : j = Head(path)}}
                       [] OTHER -> {}
         IN  IF next = {} THEN {} ELSE At(The(next), Tail(path))

(* A fragment is the root, a pointer or an anchor, or is not well formed. *)
ResolveRefTarget(x, target) ==
    LET fragment == Fragment[target]
    IN  CASE fragment.kind = "pointer" -> At(x.root, fragment.path)
          [] fragment.kind = "anchor" -> IF fragment.name \in DOMAIN x.anchors THEN {x.anchors[fragment.name]} ELSE {}
          [] OTHER -> {}

RECURSIVE CollectUsedRefs(_)
CollectUsedRefs(value) ==
    CASE value.t = "Obj" ->
            FoldLeft(LAMBDA refs, field :
                        refs \o (CASE field[1] = "$ref" -> IF field[2].t = "Str" THEN <<field[2].s>> ELSE <<>>
                                   [] field[1] \in {"$defs", "definitions"} -> <<>>
                                   [] OTHER -> CollectUsedRefs(field[2])),
                     <<>>, value.fields)
      [] value.t = "Arr" -> FoldLeft(LAMBDA refs, item : refs \o CollectUsedRefs(item), <<>>, value.items)
      [] OTHER -> <<>>

UsedRefsOf(x, key) == IF ResolveRefTarget(x, key) = {} THEN <<>> ELSE CollectUsedRefs(The(ResolveRefTarget(x, key)))

(* Depth first: a reference met again on the stack marks the stack from it on. *)
RECURSIVE MarkCycleMembership(_, _, _, _)
MarkCycleMembership(x, memo, node, stack) ==
    LET at == {i \in DOMAIN stack : stack[i] = node}
        marked == {stack[j] : j \in {k \in DOMAIN stack : \E i \in at : k >= i}}
        below == FoldLeft(LAMBDA m, ref : MarkCycleMembership(x, m, ref, Append(stack, node)), memo, UsedRefsOf(x, node))
    IN  CASE node \in DOMAIN memo -> memo
          [] node \notin DOMAIN memo /\ at # {} -> [n \in marked |-> TRUE] @@ memo
          [] OTHER -> below @@ (node :> FALSE)

LowerRef(x, b, c) ==
    LET key == The(Get(c.fields, "$ref")).s
        memo == IF key \in DOMAIN b.recursive THEN b.recursive ELSE MarkCycleMembership(x, b.recursive, key, <<>>)
        target == ResolveRefTarget(x, key)
        body == [c EXCEPT !.fn = "lower", !.ast = The(target), !.depth = @ + 1]
        marked == [b EXCEPT !.recursive = memo]
        slot == AllocDefSlot(marked)
    IN  CASE Wrong(Get(c.fields, "$ref"), "Str") -> Ends(b, "Malformed")
          [] Is(Get(c.fields, "$ref"), "Str") /\ key \in DOMAIN b.def_slots -> Makes(b, <<>>)
          [] OTHER ->
                CASE Fragment[key].kind = "remote" -> Makes(b, <<>>)
                  [] target = {} -> Ends(b, "Malformed")
                  [] target # {} /\ memo[key] ->
                        IF slot.b.failed # Ok
                        THEN Ends(slot.b, slot.b.failed)
                        ELSE Makes([slot.b EXCEPT !.def_slots = (key :> slot.id) @@ @], <<body>>)
                  [] OTHER -> Makes(marked, IF <<key, c.up, c.ui>> \in DOMAIN b.lowered_refs THEN <<>> ELSE <<body>>)

RefBuilt(b, c, ids) ==
    LET key == The(Get(c.fields, "$ref")).s
        inlined == <<key, c.up, c.ui>>
    IN  CASE key \in DOMAIN b.def_slots /\ ids = <<>> -> RefNode(b, b.def_slots[key])
          [] key \in DOMAIN b.def_slots /\ ids # <<>> ->
                RefNode(SetDefTarget(b, b.def_slots[key], ids[1]), b.def_slots[key])
          [] key \notin DOMAIN b.def_slots /\ Fragment[key].kind = "remote" ->
                Unsupported(b, "$ref", "NonRegularRef", Append(c.ptr, "$ref"))
          [] OTHER ->
                IF inlined \in DOMAIN b.lowered_refs
                THEN Made(b, b.lowered_refs[inlined])
                ELSE Made([b EXCEPT !.lowered_refs = (inlined :> ids[1]) @@ @], ids[1])

----------------------------------------------------------------------------
(* With a resource graph a reference is a slot for its target, which is    *)
(* lowered once, later, from the list of pending locations.                *)

LocationAt(x, document, path) ==
    {l \in DOMAIN x.locations : x.locations[l].document = document /\ x.locations[l].path = path}

ReferenceToLocation(b, location) ==
    IF location \in DOMAIN b.location_slots
    THEN RefNode(b, b.location_slots[location])
    ELSE LET slot == AllocDefSlot(b)
         IN  IF slot.b.failed # Ok
             THEN slot
             ELSE RefNode([slot.b EXCEPT !.location_slots = (location :> slot.id) @@ @,
                                         !.pending = Append(@, location)], slot.id)

(* The target of the reference of this kind that a location makes. *)
ResolvedReferenceFrom(x, b, c, kind) ==
    {x.references[r].target : r \in
        {i \in DOMAIN x.references : x.references[i].kind = kind /\ x.references[i].from \in LocationAt(x, b.document, c.ptr)}}

GraphRef(x, b, c) ==
    LET resolved == ResolvedReferenceFrom(x, b, c, "Static")
    IN  IF Wrong(Get(c.fields, "$ref"), "Str") \/ resolved = {}
        THEN Fail(b, "Malformed")
        ELSE ReferenceToLocation(b, The(resolved).location)

LowerDynamicRef(x, b, c) ==
    LET resolved == ResolvedReferenceFrom(x, b, c, "Dynamic")
        target == The(resolved)
        initial == ReferenceToLocation(b, target.location)
    IN  CASE Wrong(Get(c.fields, "$dynamicRef"), "Str") \/ resolved = {} -> Fail(b, "Malformed")
          [] OTHER -> IF \E a \in target.anchor : x.anchor_table[a].dynamic
                      THEN DynamicRef(initial.b, initial.id, x.anchor_ids[The(target.anchor)])
                      ELSE initial

----------------------------------------------------------------------------
(* The functions by their names. *)

Calls(x, b, c) ==
    CASE c.fn = "lower" ->
            LET here == LocationAt(x, b.document, c.ptr)
            IN  LowerInner(IF here = {} THEN b ELSE [b EXCEPT !.resource = x.locations[The(here)].resource], c)
      [] c.fn \in {"unevaluatedItems", "unevaluatedProperties"} -> Makes(b, LowerUnevaluated(c))
      [] c.fn = "scope" -> Makes(b, LowerScope(x, b, c))
      [] c.fn = "$ref" -> IF x.graph THEN Makes(b, <<>>) ELSE LowerRef(x, b, c)
      [] c.fn \in {"anyOf", "allOf", "oneOf"} -> LowerBranches(b, c)
      [] c.fn = "not" -> Makes(b, UnderKey(c, "not"))
      [] c.fn = "if" -> Makes(b, LowerIfThenElse(c))
      [] c.fn = "base" -> LowerBase(x, b, c)
      [] c.fn = "typeless" -> Makes(b, LowerTypeless(c))
      [] c.fn = "typed" -> LowerTyped(x, b, c)
      [] OTHER -> Makes(b, <<>>)

Built(x, b, c, ids) ==
    CASE c.fn = "lower" -> Made(b, ids[1])
      [] c.fn = "unevaluatedItems" -> UnevaluatedOf(b, "Items", ids[1], ids[2])
      [] c.fn = "unevaluatedProperties" -> UnevaluatedOf(b, "Properties", ids[1], ids[2])
      [] c.fn \in {"scope", "allOf"} -> IntersectionOf(b, ids)
      [] c.fn = "$ref" -> IF x.graph THEN GraphRef(x, b, c) ELSE RefBuilt(b, c, ids)
      [] c.fn = "$dynamicRef" -> LowerDynamicRef(x, b, c)
      [] c.fn = "anyOf" -> UnionOf(b, ids)
      [] c.fn = "oneOf" -> ExactlyOneOf(b, ids)
      [] c.fn = "not" -> NotOf(b, ids[1])
      [] c.fn = "if" -> ConditionBuilt(b, c, ids)
      [] c.fn = "base" -> BaseBuilt(x, b, c, ids)
      [] c.fn = "typeless" -> TypelessBuilt(b, c, ids)
      [] OTHER -> TypedBuilt(x, b, c, ids)

(* The resource of a location is current while the location is lowered. *)
RECURSIVE Lower(_, _, _)

LowerAnswered(x, b, c, done) ==
    IF done.b.failed # Ok
    THEN Made(done.b, NoNode)
    ELSE LET made == Built(x, done.b, c, done.ids) IN [made EXCEPT !.b.resource = b.resource]

LowerAsked(x, b, c, asked) ==
    LET Answered(acc, one) == [b |-> one.b, ids |-> Append(acc.ids, one.id)]
        Ask(acc, call) == IF acc.b.failed # Ok THEN acc ELSE Answered(acc, Lower(x, acc.b, call))
    IN  LowerAnswered(x, b, c, FoldLeft(Ask, [b |-> asked.b, ids |-> <<>>], asked.calls))

Lower(x, b, c) == IF b.failed # Ok THEN Made(b, NoNode) ELSE LowerAsked(x, b, c, Calls(x, b, c))

----------------------------------------------------------------------------
(* From a parsed document to the arena. *)

(* A value and everything inside it, in source order. *)
RECURSIVE Everything(_)
Everything(value) == FoldLeft(LAMBDA all, inner : all \o Everything(inner), <<value>>, Inside(value))

(* A $schema that is not a metaschema of a known draft, wherever it stands. *)
PreflightUnsupported(value) ==
    LET all == Everything(value)
    IN  \E i \in DOMAIN all : \E dialect \in DeclaredDialect(all[i]) : dialect \notin KnownMetaschemas

NeedsResourceGraph(value) ==
    LET all == Everything(value)
    IN  \E i \in DOMAIN all :
            /\ all[i].t = "Obj"
            /\ \/ \E key \in {"$id", "$anchor", "$dynamicRef", "$dynamicAnchor"} : ObjHas(all[i].fields, key)
               \/ \E ref \in Get(all[i].fields, "$ref") : ref.t = "Str" /\ Fragment[ref.s].kind = "remote"

(* The strings a keyword has in the objects of a document. *)
Occurrences(all, key) ==
    FoldLeft(LAMBDA found, value : found \o SetToSeq(IF value.t = "Obj" THEN Get(value.fields, key) ELSE {}), <<>>, all)

(* A keyword twice in an object, or an $id or $anchor twice in the document. *)
IndexDocument(value) ==
    LET all == Everything(value)
    IN  IF \/ \E i \in DOMAIN all : all[i].t = "Obj" /\ ~NamesDistinct(all[i].fields)
           \/ \E key \in {"$id", "$anchor"} : ~StringsDistinct(Occurrences(all, key))
        THEN "Malformed"
        ELSE Ok

NewLowerer ==
    NewBuilder @@ [budget |-> MaxExpandedNodes, def_slots |-> <<>>, lowered_refs |-> <<>>, recursive |-> <<>>,
                   document |-> 1, location_slots |-> <<>>, location_nodes |-> <<>>, pending |-> <<>>, assigned |-> {}]

(* What a document alone gives the lowerer. *)
Alone(value, options) ==
    [root |-> value, anchors |-> <<>>, closure |-> options.object_closure, format_assertion |-> options.format_assertion,
     validation_enabled |-> TRUE, root_quirks |-> QuirksOf(value, NoQuirks), quirks |-> <<>>, graph |-> FALSE,
     locations |-> <<>>, references |-> <<>>, anchor_table |-> <<>>, anchor_ids |-> <<>>]

Finished(made) == Finish(made.b, made.id)

IrFromAst(value, options) ==
    CASE PreflightUnsupported(value) ->
            Finished(Unsupported(NewLowerer, "$schema", "UnsupportedKeyword", <<"$schema">>))
      [] ~PreflightUnsupported(value) /\ IndexDocument(value) # Ok -> Failed("Malformed")
      [] OTHER -> Finished(Lower(Alone(value, options), NewLowerer, CallOf("lower", value, <<>>, 0)))

=============================================================================
