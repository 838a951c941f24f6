------------------------------ MODULE SchemaIr ------------------------------
(***************************************************************************)
(* The arena a JSON Schema is lowered into: the hash-consing builder, the  *)
(* structural validation every finished arena passes, and its content      *)
(* address.                                                                *)
(*                                                                         *)
(* A builder b is a record.  b.nodes[i] is the i-th node and b.owner[i]    *)
(* the resource it belongs to, b.defs the slots of the recursive           *)
(* definitions (a slot is the set of its target, empty until assigned),    *)
(* b.failed the code of the first error, or Ok.  Operations answer a       *)
(* builder and the id of the node they made.  The string, literal,         *)
(* property and branch blobs are content addressed in the code, so a node  *)
(* holds their contents here.  An optional field is a set of at most one   *)
(* member.                                                                 *)
(*                                                                         *)
(* First the numbers of a schema: tokens of digits to counts, bounds and   *)
(* divisors, with the widths the lowering gives them.  A token has a sign, *)
(* the digits of its integer and of its fraction, and an exponent: <<>>,   *)
(* or its sign and its digits.                                             *)
(***************************************************************************)
EXTENDS Integers, SequencesExt

CONSTANTS
    I64Max, I64Digits,     \* i64::MAX, and the digits it has
    U64Max,                \* u64::MAX
    I128Max, I128Digits,   \* i128::MAX, and the digits it has
    U32Max,                \* u32::MAX
    MaxExponent            \* the exponent numeric_token_as_i64 gives up beyond

ASSUME WidthAssumption ==
    /\ {I64Max, I64Digits, U64Max, I128Max, I128Digits, U32Max, MaxExponent} \subseteq Nat \ {0}
    /\ U32Max < I64Max /\ I64Max < U64Max /\ U64Max < I128Max

The(set) == CHOOSE member \in set : TRUE

ValueOf(digits) == FoldLeft(LAMBDA n, digit : 10 * n + digit, 0, digits)

TenTo(n) == 10 ^ n

Coefficient(token) == token.int \o token.frac

(* exponent.parse::<i64>(): a sign and digits, or nothing. *)
ExponentMagnitude(token) == IF token.exp = <<>> THEN 0 ELSE ValueOf(token.exp[2])

Exponent(token) ==
    {(IF token.exp # <<>> /\ token.exp[1] = "-" THEN -1 ELSE 1) * magnitude :
        magnitude \in {n \in {ExponentMagnitude(token)} : n <= I64Max}}

NumericTokenIsZero(token) == ToSet(Coefficient(token)) \subseteq {0}

(* The digits after the decimal point, wherever the exponent moves it, are zeros. *)
IntegralFrom(token, point) ==
    \A i \in DOMAIN Coefficient(token) : i > point => Coefficient(token)[i] = 0

NumericTokenIsInteger(token) ==
    \/ NumericTokenIsZero(token)
    \/ Exponent(token) = {} /\ token.exp[1] # "-"
    \/ \E exponent \in Exponent(token) : IntegralFrom(token, Len(token.int) + exponent)

NumericTokenAsI64(token) ==
    LET digits == Coefficient(token)
        Point(exponent) == Len(token.int) + exponent
        Whole(point) == ValueOf([i \in 1 .. point |-> IF i <= Len(digits) THEN digits[i] ELSE 0])
        fit == {e \in Exponent(token) :
                    /\ e \in -MaxExponent .. MaxExponent
                    /\ IntegralFrom(token, Point(e))
                    /\ Point(e) <= I64Digits}
    IN  {n \in {(IF token.neg THEN -1 ELSE 1) * Whole(Point(e)) : e \in fit} : n \in -I64Max - 1 .. I64Max}

(* Trailing zeros of a fraction go: coefficient * 10^-scale with the least scale. *)
LeastScale(coefficient, scale) ==
    LET Drop == {n \in 0 .. scale : n <= I128Digits /\ coefficient % TenTo(n) = 0}
        most == CHOOSE n \in Drop : \A other \in Drop : other <= n
    IN  [value |-> coefficient \div TenTo(most), scale |-> scale - most]

Significant(digits) ==
    LET nonzero == {i \in DOMAIN digits : digits[i] # 0}
    IN  IF nonzero = {} THEN 0 ELSE Len(digits) - (CHOOSE i \in nonzero : \A j \in nonzero : i <= j) + 1

(* The magnitude shifted by -scale places when the exponent outweighs the fraction. *)
Shifted(magnitude, scale, most) ==
    IF scale >= 0
    THEN {magnitude}
    ELSE {n \in {magnitude * TenTo(-scale)} : n <= most}

DecimalTokenScaled(token) ==
    LET digits == Coefficient(token)
        magnitude == ValueOf(digits)
        Result(scale) ==
            IF scale < 0 /\ Significant(digits) - scale > I128Digits
            THEN {}
            ELSE {LET least == LeastScale(m, IF scale < 0 THEN 0 ELSE scale)
                  IN  [least EXCEPT !.value = IF token.neg THEN -@ ELSE @] : m \in Shifted(magnitude, scale, I128Max)}
    IN  IF magnitude > I128Max
        THEN {}
        ELSE UNION {IF magnitude = 0
                    THEN {[value |-> 0, scale |-> 0]}
                    ELSE {r \in Result(Len(token.frac) - e) : Len(token.frac) - e <= U32Max} : e \in Exponent(token)}

DecimalTokenAsCoefExp(token) ==
    LET coefficient == ValueOf(Coefficient(token))
        Result(scale) ==
            {LeastScale(m, IF scale < 0 THEN 0 ELSE scale) :
                m \in IF -scale > I128Digits /\ coefficient # 0 THEN {} ELSE Shifted(coefficient, scale, U64Max)}
    IN  IF token.neg \/ coefficient > U64Max
        THEN {}
        ELSE UNION {{r \in IF coefficient = 0 THEN {[value |-> 0, scale |-> 0]} ELSE Result(Len(token.frac) - e) :
                        Len(token.frac) - e <= U32Max} : e \in Exponent(token)}

----------------------------------------------------------------------------

DecimalDigits(n) ==
    LET length == CHOOSE l \in 0 .. I128Digits : n < TenTo(l) /\ (l = 0 \/ n >= TenTo(l - 1))
    IN  [i \in 1 .. length |-> (n \div TenTo(length - i)) % 10]

Signum(n) == IF n > 0 THEN 1 ELSE IF n < 0 THEN -1 ELSE 0

Magnitude(n) == IF n < 0 THEN -n ELSE n

(* Where two runs of digits of the same weight differ first. *)
DigitsCmp(p, q) ==
    LET Digit(s, i) == IF i \in DOMAIN s THEN s[i] ELSE 0
        differ == {i \in DOMAIN p \cup DOMAIN q : Digit(p, i) # Digit(q, i)}
    IN  IF differ = {}
        THEN 0
        ELSE LET i == CHOOSE i \in differ : \A j \in differ : i <= j IN Signum(Digit(p, i) - Digit(q, i))

(* The digits of two numbers of the same sign, with the places their units stand at. *)
MagnitudeCmp(p, q, places) ==
    LET weight == Signum((Len(p) - Len(q)) + places) IN IF weight # 0 THEN weight ELSE DigitsCmp(p, q)

(* 1 when a is greater than b, 0 when they are equal, -1 otherwise. *)
DecimalCmp(a, b) ==
    IF a.value = 0 \/ b.value = 0 \/ (a.value < 0) # (b.value < 0)
    THEN Signum(Signum(a.value) - Signum(b.value))
    ELSE Signum(a.value)
            * MagnitudeCmp(DecimalDigits(Magnitude(a.value)), DecimalDigits(Magnitude(b.value)), b.scale - a.scale)

EmptyRange(minimum, maximum) ==
    \E lo \in minimum, hi \in maximum :
        \/ DecimalCmp(lo, hi) = 1
        \/ DecimalCmp(lo, hi) = 0 /\ (lo.exclusive \/ hi.exclusive)

FastIntegerBound(bound, lower) ==
    IF bound = {}
    THEN {{}}
    ELSE LET given == The(bound)
             adjusted == given.value + (IF ~given.exclusive THEN 0 ELSE IF lower THEN 1 ELSE -1)
         IN  {{n} : n \in {m \in {adjusted} : given.scale = 0 /\ m \in -I64Max - 1 .. I64Max}}

FastIntegerMultiple(multiple_of) ==
    IF multiple_of = {}
    THEN {{}}
    ELSE {{divisor.value} : divisor \in {d \in multiple_of : d.scale = 0}}

----------------------------------------------------------------------------
(* The arena.                                                               *)

CONSTANTS
    MaxNodes,         \* MAX_NODES
    MaxDiagnostics,   \* CompileOptions::max_diagnostics
    MaxPairs,         \* MAX_DEPENDENT_REQUIRED_PAIRS
    Analysis          \* a regex to "Ordinary", "Leading", "Unsupported" or "Malformed"

Ok == "Ok"

NoNode == 0

NewBuilder ==
    [nodes |-> <<>>, owner |-> <<>>, defs |-> <<>>, diagnostics |-> <<>>, resource |-> 1, failed |-> Ok]

Made(b, id) == [b |-> b, id |-> id]

Fail(b, code) == Made(IF b.failed = Ok THEN [b EXCEPT !.failed = code] ELSE b, NoNode)

InternNode(b, node) ==
    LET same == {i \in DOMAIN b.nodes : b.owner[i] = b.resource /\ b.nodes[i].k = node.k /\ b.nodes[i] = node}
    IN  CASE b.failed # Ok -> Made(b, NoNode)
          [] same # {} -> Made(b, CHOOSE i \in same : TRUE)
          [] same = {} /\ Len(b.nodes) >= MaxNodes -> Fail(b, "Limit")
          [] OTHER -> Made([b EXCEPT !.nodes = Append(@, node), !.owner = Append(@, b.resource)], Len(b.nodes) + 1)

----------------------------------------------------------------------------
(* The nodes. *)

Leaf(kind) == [k |-> kind]

StringConst(value) == [k |-> "StringConst", value |-> value]

(* The body every string matches, and the regex of one code point. *)
AnyBody == "JSON_STRING_BODY"

CodePoint == "JSON_STRING_CODEPOINT"

StringPattern(regex, min_len, max_len, charset) ==
    [k |-> "StringPattern", regex |-> regex, min_len |-> min_len, max_len |-> max_len, charset |-> charset]

IntegerMultipleOf(b, minimum, maximum, multiple_of) ==
    IF multiple_of = {0}
    THEN Fail(b, "Malformed")
    ELSE InternNode(b, [k |-> "Integer", lo |-> minimum, hi |-> maximum, divisor |-> multiple_of])

NumberRange(b, integer_only, minimum, maximum, multiple_of) ==
    InternNode(b, [k |-> "Number", integer_only |-> integer_only, minimum |-> minimum, maximum |-> maximum,
                   multiple_of |-> multiple_of])

EnumValues(b, values) ==
    IF values = {} THEN Fail(b, "Malformed") ELSE InternNode(b, [k |-> "Enum", values |-> values])

Policy(name) == [policy |-> name, schema |-> {}]

SchemaPolicy(id) == [policy |-> "Schema", schema |-> {id}]

ArrayFull(b, items, min, max, unique_items, contains, items_annotates) ==
    InternNode(b, [k |-> "Array", items |-> items, min_items |-> min, max_items |-> max, unique |-> unique_items,
                   contains |-> contains, annotates |-> items_annotates])

TupleFull(b, prefix, tail, min, max, unique_items, contains, tail_annotates) ==
    IF prefix = <<>>
    THEN Fail(b, "Malformed")
    ELSE InternNode(b, [k |-> "Tuple", prefix |-> prefix, tail |-> tail, min_items |-> min, max_items |-> max,
                        unique |-> unique_items, contains |-> contains, annotates |-> tail_annotates])

Joined(b, kind, branches) ==
    CASE branches = <<>> -> Fail(b, "Malformed")
      [] Len(branches) = 1 -> Made(b, branches[1])
      [] OTHER -> InternNode(b, [k |-> kind, branches |-> branches])

UnionOf(b, branches) == Joined(b, "Union", branches)

IntersectionOf(b, branches) == Joined(b, "Intersection", branches)

ExactlyOneOf(b, branches) == Joined(b, "ExactlyOne", branches)

NotOf(b, inner) == InternNode(b, [k |-> "Not", inner |-> inner])

AllocDefSlot(b) ==
    IF Len(b.defs) >= MaxNodes
    THEN Fail(b, "Limit")
    ELSE Made([b EXCEPT !.defs = Append(@, {})], Len(b.defs) + 1)

SetDefTarget(b, slot, body) ==
    CASE b.failed # Ok -> b
      [] slot \notin DOMAIN b.defs \/ b.defs[slot] # {} -> Fail(b, "Malformed").b
      [] OTHER -> [b EXCEPT !.defs[slot] = {body}]

RefNode(b, slot) == InternNode(b, [k |-> "Ref", def |-> slot])

DynamicRef(b, initial_target, anchor) ==
    InternNode(b, [k |-> "DynamicRef", target |-> initial_target, anchor |-> anchor])

UnevaluatedOf(b, kind, scope, unevaluated) ==
    InternNode(b, [k |-> "Unevaluated", kind |-> kind, scope |-> scope, unevaluated |-> unevaluated])

(* Names and children in source order, and the positions of the required names. *)
NamesDistinct(fields) == \A i, j \in DOMAIN fields : fields[i][1] = fields[j][1] => i = j

(* Triggers and the names each requires, as a set of pairs. *)
InternDependentRequired(groups) ==
    LET Pairs(group) == {<<group[1], name>> : name \in ToSet(group[2])}
        Total == FoldLeft(LAMBDA n, group : n + Len(group[2]), 0, groups)
    IN  CASE Total > MaxPairs -> [code |-> "Limit", pairs |-> {}]
          [] ~NamesDistinct(groups) \/ \E i \in DOMAIN groups : ~IsInjective(groups[i][2]) ->
                [code |-> "Malformed", pairs |-> {}]
          [] OTHER -> [code |-> Ok, pairs |-> UNION {Pairs(groups[i]) : i \in DOMAIN groups}]

ObjectFull(b, fields, required, closure, dependent, dependent_required) ==
    LET pairs == InternDependentRequired(dependent_required)
    IN  CASE ~NamesDistinct(fields) -> Fail(b, "Malformed")
          [] pairs.code # Ok -> Fail(b, pairs.code)
          [] OTHER -> InternNode(b, [k |-> "Object", fields |-> fields, required |-> required, closure |-> closure,
                                     dependent |-> dependent, dependent_required |-> pairs.pairs])

OpenObjectFull(b, known, required, patterns, additional, property_names, min, max, dependent, dependent_required) ==
    LET pairs == InternDependentRequired(dependent_required)
    IN  CASE (\E lo \in min, hi \in max : hi < lo) \/ ~NamesDistinct(known) -> Fail(b, "Malformed")
          [] pairs.code # Ok -> Fail(b, pairs.code)
          [] OTHER -> InternNode(b, [k |-> "OpenObject", fields |-> known, required |-> required,
                                     patterns |-> patterns, additional |-> additional,
                                     property_names |-> property_names, min_properties |-> min,
                                     max_properties |-> max, dependent |-> dependent,
                                     dependent_required |-> pairs.pairs])

Unsupported(b, keyword, reason, pointer) ==
    IF Len(b.diagnostics) >= MaxDiagnostics
    THEN Fail(b, "TooManyDiagnostics")
    ELSE LET made == InternNode(b, [k |-> "Unsupported", keyword |-> keyword, reason |-> reason])
         IN  IF made.b.failed # Ok
             THEN made
             ELSE Made([made.b EXCEPT !.diagnostics =
                            Append(@, [node |-> made.id, keyword |-> keyword, reason |-> reason, pointer |-> pointer])],
                       made.id)

----------------------------------------------------------------------------
(* Validation of a finished arena: every child is a strict back-edge, and  *)
(* every node is one its constructor could have made.                      *)

Target(policy) == policy.schema

Contained(node) == UNION {Target(c.on) : c \in node.contains}

Seconds(pairs) == {pairs[i][2] : i \in DOMAIN pairs}

(* The nodes a node is built from.  A reference is a leaf: its target is in the table of definitions. *)
Children(node) ==
    CASE node.k = "Array" -> Target(node.items) \cup Contained(node)
      [] node.k = "Tuple" -> ToSet(node.prefix) \cup node.tail \cup Contained(node)
      [] node.k = "Object" -> Seconds(node.fields) \cup Seconds(node.dependent)
      [] node.k = "OpenObject" ->
            Seconds(node.fields) \cup Seconds(node.patterns) \cup Seconds(node.dependent) \cup Target(node.additional)
                \cup node.property_names
      [] node.k \in {"Union", "Intersection", "ExactlyOne"} -> ToSet(node.branches)
      [] node.k = "Not" -> {node.inner}
      [] node.k = "Unevaluated" -> {node.scope, node.unevaluated}
      [] OTHER -> {}

Inverted(minimum, maximum) == \E lo \in minimum, hi \in maximum : hi < lo

(* The children whose order in the arena is checked. *)
BackEdges(node) ==
    CASE node.k = "Array" -> Target(node.items)
      [] node.k = "Tuple" -> ToSet(node.prefix) \cup node.tail
      [] OTHER -> Children(node)

Searches(regex) == Analysis[regex] \in {"Ordinary", "Leading"}

ScalarValid(node) ==
    CASE node.k = "StringPattern" ->
            /\ node.charset = "Utf8Any" /\ node.regex # AnyBody => Searches(node.regex)
            /\ ~Inverted(node.min_len, node.max_len)
      [] node.k = "Integer" -> ~Inverted(node.lo, node.hi) /\ 0 \notin node.divisor
      [] node.k = "Number" -> ~EmptyRange(node.minimum, node.maximum) /\ \A d \in node.multiple_of : d.value # 0
      [] node.k = "Enum" -> node.values # {}
      [] OTHER -> TRUE

ItemsValid(node) ==
    /\ ~Inverted({node.min_items}, node.max_items)
    /\ node.k = "Tuple" => node.prefix # <<>> /\ (node.tail = {} => node.min_items <= Len(node.prefix))

MembersValid(node) ==
    /\ NamesDistinct(node.fields) /\ NamesDistinct(node.dependent)
    /\ node.k = "OpenObject" =>
            /\ \A j \in DOMAIN node.patterns : Searches(node.patterns[j][1])
            /\ ~Inverted(node.min_properties, node.max_properties)

(* The target a dynamic reference starts from is the one its anchor names, perhaps through a slot. *)
DynamicRefValid(ir, node) ==
    LET anchor == ir.anchors[node.anchor]
        initial == ir.nodes[node.target]
    IN  /\ node.target \in DOMAIN ir.nodes /\ anchor.dynamic
        /\ anchor.target = node.target \/ (initial.k = "Ref" /\ ir.defs[initial.def] = anchor.target)

ValidateNode(ir, i) ==
    LET node == ir.nodes[i]
    IN  /\ \A child \in BackEdges(node) : child < i
        /\ CASE node.k \in {"Array", "Tuple"} -> ItemsValid(node)
             [] node.k \in {"Object", "OpenObject"} -> MembersValid(node)
             [] node.k \in {"Union", "Intersection", "ExactlyOne"} -> node.branches # <<>>
             [] node.k = "Ref" -> node.def \in DOMAIN ir.defs
             [] node.k = "DynamicRef" -> DynamicRefValid(ir, node)
             [] OTHER -> ScalarValid(node)

ValidateDiagnostics(ir) ==
    \A j \in DOMAIN ir.diagnostics :
        LET d == ir.diagnostics[j]
        IN  ir.nodes[d.node] = [k |-> "Unsupported", keyword |-> d.keyword, reason |-> d.reason]

(* A resource owns its root and the targets of its anchors, and names no anchor twice. *)
ValidateResources(ir) ==
    /\ \A r \in DOMAIN ir.resources : ir.owner[ir.resources[r].root] = r
    /\ \A a \in DOMAIN ir.anchors : ir.owner[ir.anchors[a].target] = ir.anchors[a].resource
    /\ \A a, e \in DOMAIN ir.anchors :
            ir.anchors[a].resource = ir.anchors[e].resource /\ ir.anchors[a].name = ir.anchors[e].name => a = e

Validate(ir) ==
    /\ ir.root \in DOMAIN ir.nodes
    /\ Len(ir.diagnostics) <= MaxDiagnostics
    /\ ValidateResources(ir)
    /\ \A i \in DOMAIN ir.nodes : ValidateNode(ir, i)
    /\ \A slot \in DOMAIN ir.defs : ir.defs[slot] \in DOMAIN ir.nodes
    /\ ValidateDiagnostics(ir)

(* A failed arena keeps the error only. *)
Failed(code) == [failed |-> code]

(* The anchors are those of each resource in turn, the static ones first. *)
FinishWithResources(b, root, resources, anchors) ==
    LET ir == [failed |-> Ok, root |-> root, nodes |-> b.nodes, owner |-> b.owner,
               defs |-> [s \in DOMAIN b.defs |-> CHOOSE target \in b.defs[s] : TRUE],
               resources |-> resources, anchors |-> anchors, diagnostics |-> b.diagnostics]
    IN  CASE b.failed # Ok -> Failed(b.failed)
          [] b.failed = Ok /\ \E s \in DOMAIN b.defs : b.defs[s] = {} -> Failed("Malformed")
          [] OTHER -> IF Validate(ir) THEN ir ELSE Failed("Malformed")

Finish(b, root) == FinishWithResources(b, root, <<[uri |-> {}, root |-> root]>>, <<>>)

=============================================================================
