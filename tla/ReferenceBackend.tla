-------------------------- MODULE ReferenceBackend --------------------------
(***************************************************************************)
(* The reference backend (structured/reference.rs): a matcher that keeps   *)
(* the bytes so far and parses them again at every call, by recursive      *)
(* descent over the schema IR.  accepts reads the buffer as one complete   *)
(* document, can_continue as a prefix that more bytes may complete.        *)
(*                                                                         *)
(* A parse answers Ok with the next position, Eof when the text ended too  *)
(* early, or Mismatch; a complete document is one whose parse is Ok.  A    *)
(* property pattern is the set of names it matches and a string pattern    *)
(* the set of decoded strings.  Exponents stay far from the range of i64.  *)
(***************************************************************************)
EXTENDS JsonLexer, Integers

CONSTANTS
    Ir,             \* node id -> node of the schema IR
    Engine,         \* the byte DFAs of the nodes that are routed Regular
    IrResource,     \* node id -> its schema resource
    IrAnchors,      \* <<anchor name, resource>> -> node bound there
    Diagnosed,      \* the roots of IRs with an unsupported occurrence
    MaxDepth        \* MAX_DEPTH, the depth of the recursive descent

(* A count without a maximum. *)
NoMaximum == 2^20

Ok(i) == [out |-> "Ok", i |-> i]

Eof == [out |-> "Eof", i |-> 0]

Mismatch == [out |-> "Mismatch", i |-> 0]

(* The ? operator, and a boolean as a result. *)
Then(r, next) == IF r.out = "Ok" THEN next ELSE r

OkIf(holds, i) == IF holds THEN Ok(i) ELSE Mismatch

----------------------------------------------------------------------------
(* The cursor. *)

Peek(t, i) == IF i <= Len(t) THEN t[i] ELSE "Eof"

SkipWs(t, i) == Min({j \in i .. Len(t) + 1 : j > Len(t) \/ t[j] \notin WS})

Expect(t, i, byte) == IF i > Len(t) THEN Eof ELSE OkIf(t[i] = byte, i + 1)

Slice(t, i, j) == SubSeq(t, i, j - 1)

LiteralOf(first) ==
    CASE first = "n" -> <<"n", "u", "l", "l">>
      [] first = "t" -> <<"t", "r", "u", "e">>
      [] first = "f" -> <<"f", "a", "l", "s", "e">>

ExpectLiteral(t, i, word) ==
    LET common == Min({Len(t) + 1 - i, Len(word)})
    IN IF \E k \in 1 .. common : t[i + k - 1] # word[k] THEN Mismatch
       ELSE IF i + Len(word) <= Len(t) + 1 THEN Ok(i + Len(word)) ELSE Eof

(* A string from its body on: also the scalars decoded so far. *)
RECURSIVE StringBody(_, _, _, _)
StringStep(t, i, decoder, text, step) ==
    IF step.ok THEN StringBody(t, i + 1, step.decoder, text \o step.scalar)
    ELSE [out |-> "Mismatch", i |-> 0, decoder |-> decoder, text |-> text]

StringBody(t, i, decoder, text) ==
    CASE i > Len(t) -> [out |-> "Eof", i |-> 0, decoder |-> decoder, text |-> text]
      [] i <= Len(t) /\ t[i] = "\"" /\ decoder = "None" -> [out |-> "Ok", i |-> i + 1, decoder |-> decoder, text |-> text]
      [] i <= Len(t) /\ ~(t[i] = "\"" /\ decoder = "None") -> StringStep(t, i, decoder, text, Decode(decoder, t[i]))

ExpectString(t, i) ==
    IF Peek(t, i) = "\"" THEN StringBody(t, i + 1, "None", <<>>)
    ELSE [out |-> IF i > Len(t) THEN "Eof" ELSE "Mismatch", i |-> 0, decoder |-> "NotOpen", text |-> <<>>]

(* expect_number, whose number is ambiguous at the end of a prefix, and
   parse_number_raw, whose text is complete. *)
RECURSIVE NumberFrom(_, _, _, _)
NumberFromNext(t, i, phase, closed, next) ==
    CASE i <= Len(t) /\ next \in NumberPhases -> NumberFrom(t, i + 1, next, closed)
      [] i <= Len(t) /\ next \notin NumberPhases -> OkIf(ScalarIsComplete(phase), i)
      [] i > Len(t) -> IF closed /\ ScalarIsComplete(phase) THEN Ok(i) ELSE Eof

NumberFrom(t, i, phase, closed) ==
    NumberFromNext(t, i, phase, closed, StepScalar(phase, Peek(t, i)))

(* One JSON value of any kind, without a look at duplicate keys. *)
RECURSIVE ScanValue(_, _, _, _), ScanMembers(_, _, _, _, _)

ScanMembersAfter(t, depth, closed, close, value, after) ==
    Then(value, IF Peek(t, after) = "," THEN ScanMembers(t, SkipWs(t, after + 1), depth, closed, close)
                ELSE Expect(t, after, close))

ScanMembersValue(t, depth, closed, close, value) ==
    ScanMembersAfter(t, depth, closed, close, value, SkipWs(t, value.i))

ScanMembersNamed(t, depth, closed, close, named) ==
    ScanMembersValue(t, depth, closed, close, Then(named, ScanValue(t, SkipWs(t, named.i), depth + 1, closed)))

ScanMembersKey(t, i, depth, closed, close, key) ==
    ScanMembersNamed(t, depth, closed, close,
        IF close = "}" THEN Then(key, Expect(t, SkipWs(t, key.i), ":")) ELSE Ok(i))

ScanMembers(t, i, depth, closed, close) ==
    ScanMembersKey(t, i, depth, closed, close, ExpectString(t, i))

ScanContainerFirst(t, first, depth, closed, close) ==
    IF Peek(t, first) = close THEN Ok(first + 1) ELSE ScanMembers(t, first, depth, closed, close)

ScanContainer(t, i, depth, closed, close) == ScanContainerFirst(t, SkipWs(t, i + 1), depth, closed, close)

SpanOf(string) == [out |-> string.out, i |-> string.i]

ScanByte(t, i, depth, closed, byte) ==
    CASE depth > MaxDepth -> Mismatch
      [] depth <= MaxDepth ->
         CASE byte = "Eof" -> Eof
           [] byte \in {"n", "t", "f"} -> ExpectLiteral(t, i, LiteralOf(byte))
           [] byte = "\"" -> SpanOf(ExpectString(t, i))
           [] byte \in Digits \cup {"-"} -> NumberFrom(t, i, "BeforeValue", closed)
           [] byte \in {"[", "{"} -> ScanContainer(t, i, depth, closed, IF byte = "[" THEN "]" ELSE "}")
           [] byte \notin Digits \cup {"Eof", "n", "t", "f", "\"", "-", "[", "{"} -> Mismatch

ScanValue(t, i, depth, closed) == ScanByte(t, i, depth, closed, Peek(t, i))

SpanOfAnyValue(t, i, depth) == ScanValue(t, i, depth, TRUE)

VerdictSpanAnyValue(t, i, depth) == ScanValue(t, i, depth, FALSE)

(* The values of a complete array, and the keys with the values of a complete
   object; none when the text is something else. *)
RECURSIVE MembersFrom(_, _, _)
MembersFromSpan(t, close, key, start, span) ==
    LET after == SkipWs(t, span.i) IN
       <<[key |-> key.text, value |-> Slice(t, start, span.i)]>>
        \o (IF Peek(t, after) = "," THEN MembersFrom(t, SkipWs(t, after + 1), close) ELSE <<>>)

MembersFromStart(t, close, key, start) == MembersFromSpan(t, close, key, start, SpanOfAnyValue(t, start, 0))

MembersFromKey(t, i, close, key) ==
    MembersFromStart(t, close, key, IF close = "}" THEN SkipWs(t, SkipWs(t, key.i) + 1) ELSE i)

MembersFrom(t, i, close) ==
    MembersFromKey(t, i, close, ExpectString(t, i))

ParseMembersFirst(t, first, close) == IF Peek(t, first) = close THEN <<>> ELSE MembersFrom(t, first, close)

ParseMembers(t, close) == ParseMembersFirst(t, SkipWs(t, SkipWs(t, 1) + 1), close)

IsContainer(t, open) == Peek(t, SkipWs(t, 1)) = open

----------------------------------------------------------------------------
(* Numbers and canonical values. *)

FirstOf(seq, bytes) ==
    LET at == {k \in DOMAIN seq : seq[k] \in bytes} IN IF at = {} THEN Len(seq) + 1 ELSE Min(at)

ExponentOf(text) ==
    CASE text = <<>> -> 0
      [] text # <<>> -> (IF text[1] = "-" THEN -1 ELSE 1)
                            * FoldLeft(LAMBDA n, byte : IF byte \in Digits THEN 10 * n + DigitOf[byte] ELSE n, 0, text)

(* The digits between the first and the last that is not zero. *)
TrimDecimal(negative, all, nonzero, exponent) ==
    IF nonzero = {} THEN [negative |-> FALSE, digits |-> <<>>, exponent |-> 0]
    ELSE [negative |-> negative,
          digits |-> [k \in 1 .. Max(nonzero) - Min(nonzero) + 1 |-> DigitOf[all[Min(nonzero) + k - 1]]],
          exponent |-> exponent + Len(all) - Max(nonzero)]

DecimalDigitsOf(negative, all, exponent) == TrimDecimal(negative, all, {k \in DOMAIN all : all[k] # "0"}, exponent)

(* e and point are the positions of the exponent and the decimal point, past
   the end of what they divide when there is none. *)
DecimalAt(negative, raw, e, point) ==
    DecimalDigitsOf(negative, SubSeq(raw, 1, Min({point, e}) - 1) \o SubSeq(raw, point + 1, e - 1),
                    ExponentOf(SubSeq(raw, e + 1, Len(raw))) - (IF point < e THEN e - point - 1 ELSE 0))

UnsignedDecimal(negative, raw) == DecimalAt(negative, raw, FirstOf(raw, {"e", "E"}), FirstOf(raw, {"."}))

ParseOracleDecimal(raw) == IF raw[1] = "-" THEN UnsignedDecimal(TRUE, Tail(raw)) ELSE UnsignedDecimal(FALSE, raw)

DecimalsOf[n \in Nat] == IF n = 0 THEN <<>> ELSE Append(DecimalsOf[n \div 10], n % 10)

CompareInt(a, b) == IF a < b THEN -1 ELSE IF a = b THEN 0 ELSE 1

(* oracle_decimal_bound_cmp: by the power of ten first, then by digits. *)
OracleDigit(seq, k) == IF k <= Len(seq) THEN seq[k] ELSE 0

OracleDigitsCmp(a, b, differ) ==
    IF differ = {} THEN 0 ELSE CompareInt(OracleDigit(a, Min(differ)), OracleDigit(b, Min(differ)))

OracleMagnitudeCmp(value, digits, scientific) ==
    IF scientific # 0 THEN scientific
    ELSE OracleDigitsCmp(value.digits, digits, {k \in DOMAIN value.digits \cup DOMAIN digits :
                                                    OracleDigit(value.digits, k) # OracleDigit(digits, k)})

OracleScaledCmp(value, digits, scale) ==
    OracleMagnitudeCmp(value, digits, CompareInt(Len(value.digits) + value.exponent, Len(digits) - scale))

OracleBoundCmp(value, bound) ==
    CASE value.digits = <<>> -> CompareInt(0, bound.coef)
      [] value.digits # <<>> /\ value.negative # (bound.coef < 0) -> IF value.negative THEN -1 ELSE 1
      [] value.digits # <<>> /\ value.negative = (bound.coef < 0) ->
            (IF value.negative THEN -1 ELSE 1)
                * OracleScaledCmp(value, DecimalsOf[IF bound.coef < 0 THEN -bound.coef ELSE bound.coef], bound.scale)

(* oracle_decimal_multiple: remainder of the digits times the power of ten. *)
OracleMultiple(value, multiple) ==
    LET shift == value.exponent + multiple.scale
        Remainder(seq) == FoldLeft(LAMBDA n, digit : (10 * n + digit) % multiple.coef, 0, seq)
    IN value.digits = <<>> \/ (shift >= 0 /\ Remainder(value.digits \o [k \in 1 .. shift |-> 0]) = 0)

(* Mutant: an exclusive bound is read as an inclusive one. *)
OracleNumberInclusive(raw, node) ==
    LET value == ParseOracleDecimal(raw)
    IN /\ node.integer_only => value.digits = <<>> \/ value.exponent >= 0
       /\ \A multiple \in node.multiple_of : OracleMultiple(value, multiple)
       /\ \A bound \in node.minimum : OracleBoundCmp(value, bound) >= 0
       /\ \A bound \in node.maximum : OracleBoundCmp(value, bound) <= 0

OracleNumberAcceptsValue(node, value) ==
    /\ node.integer_only => value.digits = <<>> \/ value.exponent >= 0
    /\ \A multiple \in node.multiple_of : OracleMultiple(value, multiple)
    /\ \A bound \in node.minimum : OracleBoundCmp(value, bound) >= (IF bound.exclusive THEN 1 ELSE 0)
    /\ \A bound \in node.maximum : OracleBoundCmp(value, bound) <= (IF bound.exclusive THEN -1 ELSE 0)

OracleNumberAccepts(raw, node) ==
    OracleNumberAcceptsValue(node, ParseOracleDecimal(raw))

OracleSignViable(raw, node) ==
    IF Peek(raw, 1) = "-" THEN \A bound \in node.minimum : bound.coef < 0 \/ (bound.coef = 0 /\ ~bound.exclusive)
    ELSE \A bound \in node.maximum : bound.coef >= 0

(* canonical_value_for_uniqueness, as a value instead of its bytes: objects
   keep the values of equal keys in their order. *)
RECURSIVE Canonicalize(_)
CanonicalMembers(byte, members) ==
    CASE byte = "[" -> <<"Array", members>>
      [] byte = "{" -> <<"Object", {SelectSeq(members, LAMBDA n : n.key = m.key) : m \in ToSet(members)}>>

CanonicalContainer(byte, members) ==
    CanonicalMembers(byte, [k \in DOMAIN members |-> [key |-> IF byte = "{" THEN members[k].key ELSE <<>>,
                                                      value |-> Canonicalize(members[k].value)]])

CanonicalizeByte(t, from, byte) ==
    CASE byte \in {"n", "t", "f"} -> <<"Literal", byte>>
      [] byte = "\"" -> <<"String", ExpectString(t, from).text>>
      [] byte \in Digits \cup {"-"} ->
            <<"Number", ParseOracleDecimal(Slice(t, from, NumberFrom(t, from, "BeforeValue", TRUE).i))>>
      [] byte \in {"[", "{"} -> CanonicalContainer(byte, ParseMembers(t, IF byte = "[" THEN "]" ELSE "}"))

Canonicalize(t) == CanonicalizeByte(t, SkipWs(t, 1), Peek(t, SkipWs(t, 1)))

----------------------------------------------------------------------------
(* Regular engines, patterns and the dynamic scope. *)

RECURSIVE EngineRun(_, _, _)
EngineRun(engine, q, t) ==
    IF t = <<>> THEN q \in engine.accept
    ELSE <<q, t[1]>> \in DOMAIN engine.next /\ EngineRun(engine, engine.next[q, t[1]], Tail(t))

IsNever(id) == Ir[id].kind = "Never"

(* walk_regular: maximal munch.  A live engine at the end is ambiguous. *)
RECURSIVE WalkRegular(_, _, _, _)
WalkRegular(engine, q, t, i) ==
    CASE i > Len(t) -> Eof
      [] i <= Len(t) -> IF <<q, t[i]>> \in DOMAIN engine.next THEN WalkRegular(engine, engine.next[q, t[i]], t, i + 1)
                        ELSE OkIf(q \in engine.accept, i)

(* walk_regular_all: several engines end the value at the same byte. *)
RECURSIVE WalkRegularAll(_, _, _, _)
WalkRegularAll(engines, qs, t, i) ==
    LET moving == {k \in DOMAIN engines : <<qs[k], t[i]>> \in DOMAIN engines[k].next}
    IN CASE i > Len(t) -> Eof
         [] i <= Len(t) /\ \E k \in DOMAIN engines \ moving : qs[k] \notin engines[k].accept -> Mismatch
         [] i <= Len(t) /\ \A k \in DOMAIN engines \ moving : qs[k] \in engines[k].accept ->
               CASE moving = {} -> Ok(i)
                 [] moving # {} /\ moving # DOMAIN engines -> Mismatch
                 [] moving = DOMAIN engines /\ moving # {} ->
                       WalkRegularAll(engines, [k \in DOMAIN engines |-> engines[k].next[qs[k], t[i]]], t, i + 1)

EnterResource(scope, id) ==
    IF scope # <<>> /\ Last(scope) = IrResource[id] THEN scope ELSE Append(scope, IrResource[id])

ResolveDynamic(node, scope) ==
    LET bound == {k \in DOMAIN scope : <<node.anchor, scope[k]>> \in DOMAIN IrAnchors}
    IN IF bound = {} THEN node.initial_target ELSE IrAnchors[node.anchor, scope[Min(bound)]]

----------------------------------------------------------------------------
(* Objects and arrays share their loops between the two readings: closed says
   that the text is a complete document. *)

RECURSIVE MatchValue(_, _, _, _, _), VerdictValue(_, _, _, _, _), Elements(_, _, _, _, _, _, _, _),
          ObjectMembers(_, _, _, _, _, _, _, _), CollectEvaluated(_, _, _, _, _, _)

MatchesCompleteR(t, r) ==
    r.out = "Ok" /\ SkipWs(t, r.i) = Len(t) + 1

MatchesComplete(id, t, depth, scope) ==
    IF id \in DOMAIN Engine THEN EngineRun(Engine[id], Engine[id].start, t)
    ELSE MatchesCompleteR(t, MatchValue(id, t, SkipWs(t, 1), depth, scope))

(* A closed span, and whether it matches every one of the schemas. *)
SpanMatchesSpan(ids, t, i, depth, scope, span) ==
    Then(span, OkIf(\A id \in ids : MatchesComplete(id, Slice(t, i, span.i), depth, scope), span.i))

SpanMatches(ids, t, i, depth, scope, closed) ==
    SpanMatchesSpan(ids, t, i, depth, scope, ScanValue(t, i, depth, closed))

ItemMatchesContains(node, item, depth, scope) ==
    \E rule \in node.contains :
        \/ rule.policy = "Always"
        \/ rule.policy = "Schema" /\ MatchesComplete(rule.schema, item, depth, scope)

ContainsCountSatisfies(node, count) == \A rule \in node.contains : count \in rule.min .. rule.max

(* Item number n of an array or a tuple: its schema, any value, or none. *)
ItemRule(node, n) ==
    IF node.kind = "Array" THEN node.items
    ELSE IF n <= Len(node.prefix) THEN [policy |-> "Schema", schema |-> node.prefix[n]] ELSE node.tail

(* An item is read: it is compared, counted, and followed by another one or
   by the end of the array. *)
ElementRead(node, t, k, seen, value, counted, depth, scope, closed) ==
    LET n == Len(seen) + 1 IN
       CASE (node.unique_items /\ value \in ToSet(seen)) \/ n > node.max_items -> Mismatch
         [] ~(node.unique_items /\ value \in ToSet(seen)) /\ n <= node.max_items ->
            IF Peek(t, k) = ","
            THEN IF n >= node.max_items THEN Mismatch
                 ELSE Elements(node, t, SkipWs(t, k + 1), Append(seen, value), counted, depth, scope, closed)
            ELSE Then(Expect(t, k, "]"), OkIf(n >= node.min_items /\ ContainsCountSatisfies(node, counted), k + 1))

ElementsBytes(node, t, seen, contains, depth, scope, closed, deep, item, bytes) ==
    Then(item, ElementRead(node, t, SkipWs(t, item.i), seen, Canonicalize(bytes),
                           contains + (IF ItemMatchesContains(node, bytes, deep, scope) THEN 1 ELSE 0),
                           depth, scope, closed))

ElementsItem(node, t, i, seen, contains, depth, scope, closed, deep, item) ==
    ElementsBytes(node, t, seen, contains, depth, scope, closed, deep, item, Slice(t, i, item.i))

Elements(node, t, i, seen, contains, depth, scope, closed) ==
    LET deep == depth + 1
        n == Len(seen) + 1
        rule == ItemRule(node, n) IN
    ElementsItem(node, t, i, seen, contains, depth, scope, closed, deep,
        CASE rule.policy = "AllowAny" -> ScanValue(t, i, deep, closed)
          [] rule.policy = "Schema" -> IF closed THEN MatchValue(rule.schema, t, i, deep, scope)
                                       ELSE VerdictValue(rule.schema, t, i, deep, scope)
          [] rule.policy = "None" -> Mismatch)

ArrayValue(node, t, i, depth, scope, closed) ==
    LET first == SkipWs(t, i + 1)
        open == Expect(t, i, "[")
    IN IF open.out # "Ok" THEN open
       ELSE IF Peek(t, first) = "]" THEN OkIf(node.min_items = 0 /\ ContainsCountSatisfies(node, 0), first + 1)
       ELSE Elements(node, t, first, <<>>, 0, depth, scope, closed)

(* match_array and match_tuple, and their prefix readings. *)
MatchArray(node, t, i, depth, scope) == ArrayValue(node, t, i, depth, scope, TRUE)

VerdictArray(node, t, i, depth, scope) == ArrayValue(node, t, i, depth, scope, FALSE)

MatchTuple(node, t, i, depth, scope) == ArrayValue(node, t, i, depth, scope, TRUE)

VerdictTuple(node, t, i, depth, scope) == ArrayValue(node, t, i, depth, scope, FALSE)

JsonQuote(text) ==
    <<"\"">> \o FoldLeft(LAMBDA out, c : out \o (IF c \in {"\"", "\\"} THEN <<"\\", c>> ELSE <<c>>), <<>>, text) \o <<"\"">>

PatternMatches(pattern, key) == key \in pattern

(* The names that the patterns with a satisfiable schema leave: those of the
   others are taken out. *)
ViablePatternNames(patterns) ==
    LET Names(never) == UNION {p[1] : p \in {q \in ToSet(patterns) : IsNever(q[2]) = never}}
    IN Names(FALSE) \ Names(TRUE)

(* reference_object_key_prefix_viable; an object that is not closed answers
   nothing, which counts as viable. *)
KeyPrefixViable(node, seen, prefix) ==
    \/ node.additional.policy # "Forbid"
    \/ \E known \in ToSet(node.known) :
            /\ ~IsNever(known[2])
            /\ IsPrefix(prefix, known[1])
            /\ known[1] \notin seen
            /\ ~\E p \in ToSet(node.patterns) : IsNever(p[2]) /\ PatternMatches(p[1], known[1])
    \/ \E name \in ViablePatternNames(node.patterns) \ seen : IsPrefix(prefix, name)

(* An open key that ends inside an escape is viable if some escape makes it. *)
OpenKeyViable(node, seen, key) ==
    IF key.decoder = "None" THEN KeyPrefixViable(node, seen, key.text)
    ELSE \E scalar \in {Escapes[c] : c \in DOMAIN Escapes} : KeyPrefixViable(node, seen, Append(key.text, scalar))

Applicable(node, key) ==
    {known[2] : known \in {f \in ToSet(node.known) : f[1] = key}}
        \cup {p[2] : p \in {q \in ToSet(node.patterns) : PatternMatches(q[1], key)}}

DependentRequiredHolds(node, seen) == \A pair \in node.dependent_required : pair[1] \in seen => pair[2] \in seen

(* What is asked of a whole object once it is closed. *)
ClosedObjectHolds(node, seen, object, depth, scope) ==
    /\ \A n \in node.known_required : node.known[n][1] \in seen
    /\ Cardinality(seen) \in node.min_properties .. node.max_properties
    /\ \A pair \in ToSet(node.dependent) : pair[1] \in seen => MatchesComplete(pair[2], object, depth + 1, scope)
    /\ DependentRequiredHolds(node, seen)

MemberValue(node, key, t, i, depth, scope, closed) ==
    LET own == Applicable(node, key)
        ids == IF own = {} /\ node.additional.policy = "Schema" THEN {node.additional.schema} ELSE own
        rules == {n \in DOMAIN node.known : node.known[n][1] = key} \cup
                    {Len(node.known) + n : n \in {m \in DOMAIN node.patterns : PatternMatches(node.patterns[m][1], key)}}
        several == Cardinality(rules) > 1
        only == CHOOSE id \in ids : TRUE
        listed == SetToSeq(ids)
    IN CASE ids = {} -> ScanValue(t, i, depth + 1, closed)
         [] ids # {} /\ (closed \/ (several /\ ~(ids \subseteq DOMAIN Engine))) ->
               SpanMatches(ids, t, i, depth + 1, scope, closed)
         [] ids # {} /\ ~closed /\ ~several -> VerdictValue(only, t, i, depth + 1, scope)
         [] ~closed /\ several /\ ids \subseteq DOMAIN Engine ->
               WalkRegularAll([k \in DOMAIN listed |-> Engine[listed[k]]],
                              [k \in DOMAIN listed |-> Engine[listed[k]].start], t, i)

(* A member is read: another one follows, or the end of the object. *)
MemberRead(node, t, start, k, seen, depth, scope, closed) ==
    IF Peek(t, k) = ","
    THEN IF Cardinality(seen) >= node.max_properties \/ (~closed /\ ~KeyPrefixViable(node, seen, <<>>))
         THEN Mismatch
         ELSE ObjectMembers(node, t, start, SkipWs(t, k + 1), seen, depth, scope, closed)
    ELSE Then(Expect(t, k, "}"), OkIf(ClosedObjectHolds(node, seen, Slice(t, start, k + 1), depth, scope), k + 1))

ObjectMembersValue(node, t, start, seen, depth, scope, closed, key, now, refused, value) ==
    CASE key.out = "Eof" -> IF key.decoder = "NotOpen" \/ OpenKeyViable(node, seen, key) THEN Eof ELSE Mismatch
      [] key.out = "Mismatch" \/ (key.out = "Ok" /\ refused) -> Mismatch
      [] key.out = "Ok" /\ ~refused ->
            Then(value, MemberRead(node, t, start, SkipWs(t, value.i), now, depth, scope, closed))

ObjectMembersColon(node, t, start, seen, depth, scope, closed, key, now, refused, colon) ==
    ObjectMembersValue(node, t, start, seen, depth, scope, closed, key, now, refused,
        Then(Expect(t, colon, ":"), MemberValue(node, key.text, t, SkipWs(t, colon + 1), depth, scope, closed)))

ObjectMembersRefused(node, t, start, seen, depth, scope, closed, key, now, refused) ==
    ObjectMembersColon(node, t, start, seen, depth, scope, closed, key, now, refused, SkipWs(t, key.i))

ObjectMembersKey(node, t, start, seen, depth, scope, closed, key) ==
    LET now == seen \cup {key.text} IN
    ObjectMembersRefused(node, t, start, seen, depth, scope, closed, key, now,
        \/ key.text \in seen
        \/ Applicable(node, key.text) = {} /\ node.additional.policy = "Forbid"
        \/ \E id \in node.property_names : ~MatchesComplete(id, JsonQuote(key.text), depth + 1, scope))

ObjectMembers(node, t, start, i, seen, depth, scope, closed) ==
    ObjectMembersKey(node, t, start, seen, depth, scope, closed, ExpectString(t, i))

(* An Object is an OpenObject that forbids other keys. *)
AsOpen(node) ==
    IF node.kind = "OpenObject" THEN node
    ELSE [known |-> node.fields, known_required |-> node.required, patterns |-> <<>>,
          additional |-> [policy |-> "Forbid"], property_names |-> {}, min_properties |-> 0,
          max_properties |-> NoMaximum, dependent |-> node.dependent,
          dependent_required |-> node.dependent_required]

ObjectValue(node, t, i, depth, scope, closed) ==
    LET first == SkipWs(t, i + 1)
        open == Expect(t, i, "{")
    IN IF open.out # "Ok" THEN open
       ELSE IF Peek(t, first) = "}"
            THEN OkIf(ClosedObjectHolds(node, {}, Slice(t, i, first + 1), depth, scope), first + 1)
       ELSE ObjectMembers(node, t, i, first, {}, depth, scope, closed)

MatchObject(node, t, i, depth, scope) == ObjectValue(AsOpen(node), t, i, depth, scope, TRUE)

VerdictObject(node, t, i, depth, scope) == ObjectValue(AsOpen(node), t, i, depth, scope, FALSE)

----------------------------------------------------------------------------
(* Unevaluated properties and items. *)

(* The members that a node of the in-place tree annotates by itself. *)
MarkObjectMembers(node, members) ==
    LET open == AsOpen(node)
    IN {k \in DOMAIN members : Applicable(open, members[k].key) # {} \/ open.additional.policy \in {"AllowAny", "Schema"}}

MarkContains(node, members, scope) == {k \in DOMAIN members : ItemMatchesContains(node, members[k].value, 0, scope)}

MarkItems(node, members, scope) ==
    {k \in DOMAIN members : \/ node.kind = "Array" /\ node.items_annotates
                            \/ node.kind = "Tuple" /\ (k <= Len(node.prefix) \/ node.tail_annotates)}
        \cup MarkContains(node, members, scope)

Annotates(node, of, members, scope) ==
    CASE of = "Properties" /\ node.kind \in {"Object", "OpenObject"} -> MarkObjectMembers(node, members)
      [] of = "Items" /\ node.kind \in {"Array", "Tuple"} -> MarkItems(node, members, scope)
      [] ~(of = "Properties" /\ node.kind \in {"Object", "OpenObject"})
            /\ ~(of = "Items" /\ node.kind \in {"Array", "Tuple"}) -> {}

(* The schemas of the dependencies that the members trigger. *)
DescendDependent(node, members) ==
    {pair[2] : pair \in {p \in ToSet(node.dependent) : \E k \in DOMAIN members : members[k].key = p[1]}}

(* The applicators that share the location of the node. *)
InPlace(node, of, t, members, depth, scope) ==
    CASE of = "Properties" /\ node.kind \in {"Object", "OpenObject"} ->
            DescendDependent(node, members)
      [] node.kind = "Intersection" -> ToSet(node.branches)
      [] node.kind \in {"Union", "ExactlyOne"} ->
            {id \in ToSet(node.branches) : MatchesComplete(id, t, depth + 1, scope)}
      [] node.kind = "Ref" -> {node.target}
      [] node.kind = "Unevaluated" -> {node.scope}
      [] node.kind \notin {"Intersection", "Union", "ExactlyOne", "Ref", "Unevaluated"}
            /\ ~(of = "Properties" /\ node.kind \in {"Object", "OpenObject"}) -> {}

CollectEvaluatedRest(of, members, depth, scope, node, below, rest) ==
    IF depth > MaxDepth THEN {} ELSE Annotates(node, of, members, scope) \cup below \cup rest

CollectEvaluatedBelow(of, members, depth, scope, node, below) ==
    CollectEvaluatedRest(of, members, depth, scope, node, below,
        {k \in DOMAIN members : node.kind = "Unevaluated" /\ node.of = of
                                    /\ MatchesComplete(node.unevaluated, members[k].value, depth + 1, scope)})

CollectEvaluated(of, id, t, members, depth, scope) ==
    LET node == Ir[id] IN
    CollectEvaluatedBelow(of, members, depth, scope, node,
        UNION {CollectEvaluated(of, n, t, members, depth + 1, scope) : n \in InPlace(node, of, t, members, depth, scope)})

UnevaluatedOkEvaluated(node, t, depth, scope, open, members, evaluated) ==
    /\ depth <= MaxDepth
    /\ MatchesComplete(node.scope, t, depth, scope)
    /\ IsContainer(t, open) =>
         \A k \in DOMAIN members \ evaluated : MatchesComplete(node.unevaluated, members[k].value, depth, scope)

UnevaluatedOkMembers(node, t, depth, scope, open, members) ==
    UnevaluatedOkEvaluated(node, t, depth, scope, open, members,
        CollectEvaluated(node.of, node.scope, t, members, depth, scope))

UnevaluatedOk(node, t, depth, scope) ==
    UnevaluatedOkMembers(node, t, depth, scope, IF node.of = "Properties" THEN "{" ELSE "[",
                         ParseMembers(t, IF node.of = "Properties" THEN "}" ELSE "]"))

(* The nodes whose names a closed scope may evaluate, and those names; no set
   when they cannot be listed. *)
RECURSIVE InPlaceClosure(_)
InPlaceClosure(ids) ==
    LET Children(node) ==
            CASE node.kind \in {"Object", "OpenObject"} -> {pair[2] : pair \in ToSet(node.dependent)}
              [] node.kind \in {"Intersection", "Union", "ExactlyOne"} -> ToSet(node.branches)
              [] node.kind = "Unevaluated" -> {node.scope}
              [] node.kind \notin {"Object", "OpenObject", "Intersection", "Union", "ExactlyOne", "Unevaluated"} -> {}
        next == ids \cup UNION {Children(Ir[id]) : id \in ids}
    IN IF next = ids THEN ids ELSE InPlaceClosure(next)

FiniteEvaluatedNames(scope) ==
    LET nodes == {Ir[id] : id \in InPlaceClosure({scope})}
        objects == {AsOpen(node) : node \in {n \in nodes : n.kind \in {"Object", "OpenObject"}}}
        Unlisted(node) ==
            \/ node.kind \in {"Ref", "DynamicRef", "Unsupported"}
            \/ node.kind = "Unevaluated" /\ node.of = "Properties" /\ ~IsNever(node.unevaluated)
            \/ node.kind = "OpenObject" /\ (node.patterns # <<>> \/ node.additional.policy \in {"AllowAny", "Schema"})
    IN IF \E node \in nodes : Unlisted(node) THEN {}
       ELSE {UNION {{known[1] : known \in ToSet(object.known)} : object \in objects}}

FiniteKeyViable(names, prefix) == \E name \in names : IsPrefix(prefix, name)

(* finite_object_key_prefix_viable, from a member on. *)
RECURSIVE FiniteKeysViable(_, _, _, _, _, _)
FiniteKeysViableAfter(t, i, names, seen, required, depth, key, value, after) ==
    CASE i > Len(t) -> required => names \ seen # {}
      [] i <= Len(t) /\ (t[i] = "}" \/ key.out = "Mismatch") -> TRUE
      [] i <= Len(t) /\ t[i] # "}" /\ key.out = "Eof" ->
            IF key.decoder = "None" THEN FiniteKeyViable(names \ seen, key.text)
            ELSE \E scalar \in {Escapes[c] : c \in DOMAIN Escapes} :
                     FiniteKeyViable(names \ seen, Append(key.text, scalar))
      [] i <= Len(t) /\ t[i] # "}" /\ key.out = "Ok" ->
            /\ key.text \in names \ seen
            /\ value.out = "Ok" /\ Peek(t, after) = "," =>
                 FiniteKeysViable(t, SkipWs(t, after + 1), names, seen \cup {key.text}, TRUE, depth)

FiniteKeysViableValue(t, i, names, seen, required, depth, key, value) ==
    FiniteKeysViableAfter(t, i, names, seen, required, depth, key, value, SkipWs(t, value.i))

FiniteKeysViableColon(t, i, names, seen, required, depth, key, colon) ==
    FiniteKeysViableValue(t, i, names, seen, required, depth, key,
        Then(Expect(t, colon, ":"), VerdictSpanAnyValue(t, SkipWs(t, colon + 1), depth + 1)))

FiniteKeysViableKey(t, i, names, seen, required, depth, key) ==
    FiniteKeysViableColon(t, i, names, seen, required, depth, key, SkipWs(t, key.i))

FiniteKeysViable(t, i, names, seen, required, depth) ==
    FiniteKeysViableKey(t, i, names, seen, required, depth, ExpectString(t, i))

FiniteObjectKeysViable(t, names, depth) ==
    LET open == SkipWs(t, 1)
    IN Peek(t, open) = "{" => FiniteKeysViable(t, SkipWs(t, open + 1), names, {}, FALSE, depth)

----------------------------------------------------------------------------
(* The nodes that only an engine matches. *)
Unmatched == {"Null", "Boolean", "Never", "StringConst", "Integer", "LexicalNumber", "Unsupported"}

(* A string without an engine: counted by its scalars, a member of an enum of
   strings that is large, or matched by a pattern of the user, whose lengths
   are not looked at. *)
Counted(node) == node.kind = "StringPattern" /\ node.charset = "Utf8CountedCodepoints"

StringHolds(node, text) ==
    CASE Counted(node) -> Len(text) \in node.min_len .. node.max_len
      [] node.kind = "Enum" -> node.large /\ text \in node.values
      [] node.kind = "StringPattern" /\ ~Counted(node) -> node.user /\ text \in node.regex

(* What is decoded of an open string may still become one. *)
StringViable(node, text) ==
    CASE Counted(node) -> Len(text) <= node.max_len
      [] node.kind = "Enum" -> node.large /\ \E value \in node.values : IsPrefix(text, value)
      [] node.kind = "StringPattern" /\ ~Counted(node) -> node.user /\ \E value \in node.regex : IsPrefix(text, value)

----------------------------------------------------------------------------
(* match_value and verdict_value: a value read as complete, and as a prefix. *)

MatchingBranches(node, slice, depth, scope) ==
    {k \in DOMAIN node.branches : MatchesComplete(node.branches[k], slice, depth + 1, scope)}

(* The kinds that are asked of the whole span of the value. *)
ByBranches == {"Union", "Intersection", "ExactlyOne"}

MatchBranches(node, matching) ==
    CASE node.kind = "Union" -> matching # {}
      [] node.kind = "Intersection" -> matching = DOMAIN node.branches
      [] node.kind = "ExactlyOne" -> Cardinality(matching) = 1

MatchSlice(id, node, slice, depth, scope) ==
    CASE id \in DOMAIN Engine -> EngineRun(Engine[id], Engine[id].start, slice)
      [] id \notin DOMAIN Engine ->
         CASE node.kind \in ByBranches -> MatchBranches(node, MatchingBranches(node, slice, depth, scope))
           [] node.kind = "Not" -> ~MatchesComplete(node.inner, slice, depth + 1, scope)
           [] node.kind = "Unevaluated" -> UnevaluatedOk(node, slice, depth + 1, scope)

MatchSpan(id, node, t, i, span, depth, scope) ==
    Then(span, OkIf(MatchSlice(id, node, Slice(t, i, span.i), depth, scope), span.i))

MatchString(node, string) == Then(string, OkIf(StringHolds(node, string.text), string.i))

MatchNumber(node, t, i, number) == Then(number, OkIf(OracleNumberAccepts(Slice(t, i, number.i), node), number.i))

(* A reference is read at its target, a dynamic one at what the scope binds. *)
TargetOf(node, scope) == IF node.kind = "Ref" THEN node.target ELSE ResolveDynamic(node, scope)

MatchInScope(id, t, i, depth, scope) ==
    LET node == Ir[id] IN
       CASE id \in DOMAIN Engine \/ node.kind \in ByBranches \cup {"Not", "Unevaluated"} ->
               MatchSpan(id, node, t, i, SpanOfAnyValue(t, i, depth), depth, scope)
         [] ~(id \in DOMAIN Engine \/ node.kind \in ByBranches \cup {"Not", "Unevaluated"}) ->
            CASE node.kind = "Array" -> MatchArray(node, t, i, depth, scope)
              [] node.kind = "Tuple" -> MatchTuple(node, t, i, depth, scope)
              [] node.kind \in {"Object", "OpenObject"} -> MatchObject(node, t, i, depth, scope)
              [] node.kind \in {"Ref", "DynamicRef"} -> MatchValue(TargetOf(node, scope), t, i, depth + 1, scope)
              [] node.kind \in {"StringPattern", "Enum"} -> MatchString(node, ExpectString(t, i))
              [] node.kind = "Number" -> MatchNumber(node, t, i, NumberFrom(t, i, "BeforeValue", TRUE))
              [] node.kind \in Unmatched -> Mismatch

MatchValue(id, t, i, depth, scope) ==
    IF depth > MaxDepth THEN Mismatch ELSE MatchInScope(id, t, i, depth, EnterResource(scope, id))

(* The three combinators read every branch from the same position. *)
VerdictUnion(verdicts) ==
    LET done == {k \in DOMAIN verdicts : verdicts[k].out = "Ok"}
    IN IF done # {} THEN verdicts[Min(done)]
       ELSE IF \E k \in DOMAIN verdicts : verdicts[k].out = "Eof" THEN Eof ELSE Mismatch

VerdictIntersection(verdicts) ==
    CASE \E k \in DOMAIN verdicts : verdicts[k].out = "Mismatch" -> Mismatch
      [] \A k \in DOMAIN verdicts : verdicts[k].out # "Mismatch" ->
            IF \E k \in DOMAIN verdicts : verdicts[k].out = "Eof" THEN Eof
            ELSE IF verdicts = <<>> THEN Mismatch ELSE Last(verdicts)

(* Mutant: two branches that may still match end the text. *)
VerdictOneViable(branches, verdicts) ==
    LET viable == {k \in DOMAIN verdicts : verdicts[k].out # "Mismatch"}
    IN IF Cardinality(viable) = 1 THEN verdicts[Max(viable)] ELSE Mismatch

(* One branch that occurs once among the viable ones may still be the only
   one to match. *)
VerdictExactlyOne(branches, verdicts) ==
    LET viable == {k \in DOMAIN verdicts : verdicts[k].out # "Mismatch"}
        done == {k \in DOMAIN verdicts : verdicts[k].out = "Ok"}
        single == \E k \in viable : \A m \in viable \ {k} : branches[m] # branches[k]
    IN CASE viable # done /\ single -> Eof
         [] (viable = done \/ ~single) /\ Cardinality(done) = 1 -> verdicts[Max(done)]
         [] (viable = done \/ ~single) /\ Cardinality(done) # 1 -> Mismatch

VerdictUnevaluatedHopeless(node, t, i, depth, scope, span, hopeless) ==
    CASE span.out = "Ok" -> OkIf(UnevaluatedOk(node, Slice(t, i, span.i), depth + 1, scope), span.i)
      [] span.out = "Mismatch" -> Mismatch
      [] span.out = "Eof" ->
            IF hopeless \/ VerdictValue(node.scope, t, i, depth + 1, scope).out = "Mismatch" THEN Mismatch ELSE Eof

VerdictUnevaluatedSpan(node, t, i, depth, scope, span) ==
    LET rest == Slice(t, i, Len(t) + 1) IN
    VerdictUnevaluatedHopeless(node, t, i, depth, scope, span,
        /\ node.of = "Properties"
        /\ IsNever(node.unevaluated)
        /\ \E names \in FiniteEvaluatedNames(node.scope) : ~FiniteObjectKeysViable(rest, names, depth + 1))

VerdictUnevaluated(node, t, i, depth, scope) ==
    VerdictUnevaluatedSpan(node, t, i, depth, scope, VerdictSpanAnyValue(t, i, depth))

VerdictBranches(node, verdicts) ==
    CASE node.kind = "Union" -> VerdictUnion(verdicts)
      [] node.kind = "Intersection" -> VerdictIntersection(verdicts)
      [] node.kind = "ExactlyOne" -> VerdictExactlyOne(node.branches, verdicts)

VerdictString(node, string) ==
    IF string.out = "Eof" /\ string.decoder # "NotOpen" THEN (IF StringViable(node, string.text) THEN Eof ELSE Mismatch)
    ELSE MatchString(node, string)

VerdictNumber(node, t, i, number) ==
    IF number.out = "Eof" THEN (IF OracleSignViable(Slice(t, i, Len(t) + 1), node) THEN Eof ELSE Mismatch)
    ELSE MatchNumber(node, t, i, number)

VerdictInScope(id, t, i, depth, scope) ==
    LET node == Ir[id] IN
       CASE id \in DOMAIN Engine -> WalkRegular(Engine[id], Engine[id].start, t, i)
         [] id \notin DOMAIN Engine ->
            CASE node.kind = "Array" -> VerdictArray(node, t, i, depth, scope)
              [] node.kind = "Tuple" -> VerdictTuple(node, t, i, depth, scope)
              [] node.kind \in {"Object", "OpenObject"} -> VerdictObject(node, t, i, depth, scope)
              [] node.kind \in ByBranches ->
                    VerdictBranches(node, [k \in DOMAIN node.branches |-> VerdictValue(node.branches[k], t, i, depth + 1, scope)])
              [] node.kind = "Not" -> MatchSpan(id, node, t, i, VerdictSpanAnyValue(t, i, depth), depth, scope)
              [] node.kind \in {"Ref", "DynamicRef"} -> VerdictValue(TargetOf(node, scope), t, i, depth + 1, scope)
              [] node.kind = "Unevaluated" -> VerdictUnevaluated(node, t, i, depth, scope)
              [] node.kind \in {"StringPattern", "Enum"} -> VerdictString(node, ExpectString(t, i))
              [] node.kind = "Number" -> VerdictNumber(node, t, i, NumberFrom(t, i, "BeforeValue", FALSE))
              [] node.kind \in Unmatched -> Mismatch

VerdictValue(id, t, i, depth, scope) ==
    IF depth > MaxDepth THEN Mismatch ELSE VerdictInScope(id, t, i, depth, EnterResource(scope, id))

----------------------------------------------------------------------------
(* Whole documents and prefixes of them. *)

(* integer_range: the integers a numeric schema is confined to.  The set has
   no member when the schema is not of this form; a bound is a singleton or
   empty. *)
IntegerMinimum(bound) ==
    LET power == 10^bound.scale
    IN (bound.coef \div power) + (IF bound.coef % power # 0 \/ bound.exclusive THEN 1 ELSE 0)

IntegerMaximum(bound) ==
    LET power == 10^bound.scale
    IN (bound.coef \div power) - (IF bound.exclusive /\ bound.coef % power = 0 THEN 1 ELSE 0)

RECURSIVE IntegerRange(_, _)
IntegerRangeBelow(depth, node, below) ==
    LET ranges == UNION {below[k] : k \in DOMAIN below}
        Lows == UNION {r.minimum : r \in ranges}
        Highs == UNION {r.maximum : r \in ranges}
        Only(S, Pick(_)) == IF S = {} THEN {} ELSE {Pick(S)}
        bounded == \A r \in ranges : r.minimum # {} /\ r.maximum # {} IN
       CASE depth > MaxDepth -> {}
         [] depth <= MaxDepth ->
            CASE node.kind = "Integer" -> {[minimum |-> node.minimum, maximum |-> node.maximum, integer_only |-> TRUE]}
              [] node.kind = "Number" -> {[minimum |-> {IntegerMinimum(b) : b \in node.minimum},
                                           maximum |-> {IntegerMaximum(b) : b \in node.maximum},
                                           integer_only |-> node.integer_only]}
              [] node.kind = "Ref" -> IntegerRange(node.target, depth + 1)
              [] node.kind \notin {"Integer", "Number", "Ref", "Intersection", "Union", "ExactlyOne"} -> {}
              [] node.kind = "Intersection" ->
                    IF \E k \in DOMAIN below : below[k] = {} THEN {}
                    ELSE {[minimum |-> Only(Lows, Max), maximum |-> Only(Highs, Min),
                           integer_only |-> \E r \in ranges : r.integer_only]}
              [] node.kind \in {"Union", "ExactlyOne"} ->
                    IF below = <<>> \/ (\E k \in DOMAIN below : below[k] = {}) \/ (Len(below) > 1 /\ ~bounded) THEN {}
                    ELSE {[minimum |-> Only(Lows, Min), maximum |-> Only(Highs, Max),
                           integer_only |-> \A r \in ranges : r.integer_only]}

IntegerRange(id, depth) ==
    LET node == Ir[id] IN
    IntegerRangeBelow(depth, node, [k \in DOMAIN node.branches |-> IntegerRange(node.branches[k], depth + 1)])

NumeralOf(n) ==
    LET Byte(d) == CHOOSE b \in Digits : DigitOf[b] = d
        Numeral(m) == IF m = 0 THEN <<"0">> ELSE [k \in DOMAIN DecimalsOf[m] |-> Byte(DecimalsOf[m][k])]
    IN IF n < 0 THEN <<"-">> \o Numeral(-n) ELSE Numeral(n)

Zeros(n) == [k \in 1 .. n |-> "0"]

Exponents(power, zeros) ==
    {<<e>> \o mark \o Zeros(zeros) \o NumeralOf(IF power < 0 THEN -power ELSE power) :
        e \in {"e", "E"}, mark \in IF power < 0 THEN {<<"-">>} ELSE {<<"+">>, <<>>}}

(* number_spelling_has_prefix: a coefficient with its point, times a power. *)
SpellingHasPrefix(sign, coefficient, point, power, prefix, limit) ==
    LET fraction == SubSeq(coefficient, point + 1, Len(coefficient))
        integer == sign \o SubSeq(coefficient, 1, point) IN
    \E significand \in IF fraction = <<>> THEN {integer, integer \o <<".", "0">>} ELSE {integer \o <<".">> \o fraction} :
        \/ power = 0 /\ IsPrefix(prefix, significand)
        \/ \E zeros \in 0 .. limit : \E exponent \in Exponents(power, zeros) : IsPrefix(prefix, significand \o exponent)

IntegerHasNumberPrefixNumeral(value, prefix, numeral) ==
    LET sign == IF value < 0 THEN <<"-">> ELSE <<>>
        digits == IF value < 0 THEN Tail(numeral) ELSE numeral
        limit == Len(prefix) + 2 IN
       \/ IsPrefix(prefix, numeral)
       \/ \E trailing \in 0 .. limit :
            LET coefficient == digits \o Zeros(trailing)
            IN \/ \E point \in 1 .. Len(coefficient) :
                    SpellingHasPrefix(sign, coefficient, point, Len(coefficient) - point - trailing, prefix, limit)
               \/ \E leading \in 0 .. limit :
                    SpellingHasPrefix(sign, <<"0">> \o Zeros(leading) \o coefficient, 1,
                                      leading + Len(coefficient) - trailing, prefix, limit)

IntegerHasNumberPrefix(value, prefix) ==
    IntegerHasNumberPrefixNumeral(value, prefix, NumeralOf(value))

(* finite_integer_prefix_has_witness applies to short numeric prefixes. *)
FiniteIntegers(root, raw) ==
    {r.minimum \X r.maximum : r \in {q \in IntegerRange(root, 0) : q.integer_only /\ Len(raw) <= 8}}

FiniteIntegerWitness(root, raw, interval) ==
    \E value \in interval[1] .. interval[2] :
        IntegerHasNumberPrefix(value, raw) /\ MatchesComplete(root, NumeralOf(value), 0, <<>>)

Accepts(root, t) == root \notin Diagnosed /\ MatchesComplete(root, t, 0, <<>>)

CanContinueVerdict(root, t, i, raw, finite, verdict) ==
    /\ root \notin Diagnosed
    /\ IF Peek(t, i) \in Digits \cup {"-"} /\ finite # {}
       THEN \A interval \in finite : FiniteIntegerWitness(root, raw, interval)
       ELSE verdict.out = "Eof" \/ (verdict.out = "Ok" /\ SkipWs(t, verdict.i) = Len(t) + 1)

CanContinueFinite(root, t, i, raw, finite) ==
    CanContinueVerdict(root, t, i, raw, finite, VerdictValue(root, t, i, 0, <<>>))

CanContinue(root, t) ==
    LET i == SkipWs(t, 1)
        raw == Slice(t, i, Len(t) + 1) IN
    CanContinueFinite(root, t, i, raw,
        {interval \in UNION FiniteIntegers(root, raw) : interval[2] - interval[1] \in -1 .. 255})
=============================================================================
