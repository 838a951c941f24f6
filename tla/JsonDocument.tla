---------------------------- MODULE JsonDocument ----------------------------
(***************************************************************************)
(* What a text has to be to satisfy a schema, stated without a matcher: a  *)
(* recogniser of JSON by sets of end positions that builds the value, and  *)
(* what each keyword asks of a value.  StructuredMatcher is compared with  *)
(* it.                                                                     *)
(*                                                                         *)
(* A value is a tuple of its kind, its spelling and its content.           *)
(***************************************************************************)
EXTENDS Integers, SequencesExt

CONSTANTS Blank, EscapeOf, Schemas, ResourceAt, Anchors

Word(t, i, j) == SubSeq(t, i, j - 1)

At(t, i, byte) == i <= Len(t) /\ t[i] = byte

Ends(t, i) == i .. Len(t) + 1

(* The positions reached from those of S over whitespace, and over one byte. *)
Spaces(t, S) == {j \in 1 .. Len(t) + 1 : \E i \in S : i <= j /\ \A k \in i .. j - 1 : t[k] \in Blank}

Past(t, S, byte) == {i + 1 : i \in {k \in S : At(t, k, byte)}}

----------------------------------------------------------------------------
(* Scalars.  A number is mantissa * 10^power without trailing zeros. *)

Decimal == <<"0", "1", "2", "3", "4", "5", "6", "7", "8", "9">>

IsDigits(w) == w # <<>> /\ ToSet(w) \subseteq ToSet(Decimal)

Unsigned(w, signs) == IF w # <<>> /\ w[1] \in signs THEN Tail(w) ELSE w

IsInt(w) == LET u == Unsigned(w, {"-"}) IN IsDigits(u) /\ (u[1] = "0" => Len(u) = 1)

(* The ends k of the integer and m of the fraction of a number. *)
Splits(w) ==
    {<<k, m>> \in (1 .. Len(w) + 1) \X (1 .. Len(w) + 1) :
        /\ k <= m
        /\ IsInt(Word(w, 1, k))
        /\ k = m \/ (w[k] = "." /\ IsDigits(Word(w, k + 1, m)))
        /\ m = Len(w) + 1 \/ (w[m] \in {"e", "E"} /\ IsDigits(Unsigned(Word(w, m + 1, Len(w) + 1), {"+", "-"})))}

Nat10(w) == FoldLeft(LAMBDA n, byte : 10 * n + (CHOOSE i \in 0 .. 9 : Decimal[i + 1] = byte), 0, w)

Signed(w) == IF w # <<>> /\ w[1] = "-" THEN -Nat10(Tail(w)) ELSE Nat10(Unsigned(w, {"+"}))

Pow10 == [n \in 0 .. 8 |-> FoldLeft(LAMBDA p, i : 10 * p, 1, [i \in 1 .. n |-> i])]

Trim(m, e) == LET z == Max({n \in 0 .. 8 : m % Pow10[n] = 0}) IN IF m = 0 THEN <<0, 0>> ELSE <<m \div Pow10[z], e + z>>

NumberOf(w) ==
    LET split == CHOOSE s \in Splits(w) : TRUE
        fraction == IF split[1] = split[2] THEN <<>> ELSE Word(w, split[1] + 1, split[2])
        mantissa == Nat10(Unsigned(Word(w, 1, split[1]), {"-"}) \o fraction)
        trimmed == Trim(mantissa, Signed(Word(w, split[2] + 1, Len(w) + 1)) - Len(fraction))
    IN IF w[1] = "-" THEN <<-trimmed[1], trimmed[2]>> ELSE trimmed

(* The order of two numbers of nearby magnitude. *)
LessEq(x, y) ==
    LET base == IF x[2] < y[2] THEN x[2] ELSE y[2]
    IN x[1] * Pow10[x[2] - base] <= y[1] * Pow10[y[2] - base]

Literals == (<<"n", "u", "l", "l">> :> <<"Null">>) @@ (<<"t", "r", "u", "e">> :> <<"True">>)
                @@ (<<"f", "a", "l", "s", "e">> :> <<"False">>)

NumberBytes == ToSet(Decimal) \cup {"-", "+", ".", "e", "E"}

(* The end positions of the string that begins at i, each with its value. *)
RECURSIVE Body(_, _, _)
Body(t, i, value) ==
    CASE i > Len(t) -> {}
      [] i <= Len(t) /\ t[i] = "\"" -> {[end |-> i + 1, value |-> value]}
      [] i <= Len(t) /\ t[i] = "\\" ->
            IF i < Len(t) /\ t[i + 1] \in DOMAIN EscapeOf
            THEN Body(t, i + 2, Append(value, EscapeOf[t[i + 1]])) ELSE {}
      [] i <= Len(t) /\ t[i] \notin {"\"", "\\"} -> Body(t, i + 1, Append(value, t[i]))

Strings(t, i) == IF At(t, i, "\"") THEN Body(t, i + 1, <<>>) ELSE {}

----------------------------------------------------------------------------
(* Values, each with the position just past it.  The keys of an object are
   distinct once decoded. *)

RECURSIVE Values(_, _), Items(_, _, _), Members(_, _, _)

Values(t, i) ==
    LET Made(kind, end, content) == [end |-> end, value |-> <<kind, Word(t, i, end), content>>]
        numbers == {j \in Ends(t, i) : ToSet(Word(t, i, j)) \subseteq NumberBytes /\ Splits(Word(t, i, j)) # {}}
        literals == {j \in Ends(t, i) : Word(t, i, j) \in DOMAIN Literals}
    IN {Made("Number", j, NumberOf(Word(t, i, j))) : j \in numbers}
        \cup {Made("Literal", j, Literals[Word(t, i, j)]) : j \in literals}
        \cup {Made("String", s.end, s.value) : s \in Strings(t, i)}
        \cup {Made("Array", a.end, a.items) : a \in IF At(t, i, "[") THEN Items(t, i + 1, <<>>) ELSE {}}
        \cup {Made("Object", o.end, o.members) : o \in IF At(t, i, "{") THEN Members(t, i + 1, <<>>) ELSE {}}

(* From an item, after those before it, to past the closing bracket. *)
Items(t, i, items) ==
    LET starts == Spaces(t, {i})
        read == UNION {Values(t, k) : k \in starts}
        After(v) == LET now == Append(items, v.value)
                        ends == Spaces(t, {v.end})
                    IN {[end |-> e, items |-> now] : e \in Past(t, ends, "]")}
                        \cup UNION {Items(t, k, now) : k \in Past(t, ends, ",")}
    IN {[end |-> e, items |-> items] : e \in IF items = <<>> THEN Past(t, starts, "]") ELSE {}}
        \cup UNION {After(v) : v \in read}

(* A member is its key's decoded text and spelling, and its value. *)
Members(t, i, members) ==
    LET starts == Spaces(t, {i})
        names == {[at |-> k, end |-> s.end, key |-> s.value] : k \in starts, s \in UNION {Strings(t, k) : k \in starts}}
        fresh == {n \in names : [end |-> n.end, value |-> n.key] \in Strings(t, n.at)
                                    /\ \A m \in ToSet(members) : m.key # n.key}
        After(n, v) == LET now == Append(members, [key |-> n.key, spelling |-> Word(t, n.at, n.end), value |-> v.value])
                           ends == Spaces(t, {v.end})
                       IN {[end |-> e, members |-> now] : e \in Past(t, ends, "}")}
                            \cup UNION {Members(t, k, now) : k \in Past(t, ends, ",")}
        Read(n) == UNION {Values(t, k) : k \in Spaces(t, Past(t, Spaces(t, {n.end}), ":"))}
    IN {[end |-> e, members |-> members] : e \in IF members = <<>> THEN Past(t, starts, "}") ELSE {}}
        \cup UNION {UNION {After(n, v) : v \in Read(n)} : n \in fresh}

----------------------------------------------------------------------------
(* Keywords. *)

(* Equality of values, by what they denote. *)
RECURSIVE Denotes(_)
Denotes(v) ==
    CASE v[1] = "Array" -> <<"Array", [i \in DOMAIN v[3] |-> Denotes(v[3][i])]>>
      [] v[1] = "Object" -> <<"Object", {<<m.key, Denotes(m.value)>> : m \in ToSet(v[3])}>>
      [] v[1] \notin {"Array", "Object"} -> <<v[1], v[3]>>

RECURSIVE Run(_, _, _)
Run(engine, q, w) ==
    IF w = <<>> THEN q \in engine.accept
    ELSE <<q, w[1]>> \in DOMAIN engine.next /\ Run(engine, engine.next[q, w[1]], Tail(w))

Reads(engine, w) == Run(engine, engine.start, w)

Entered(node, scope) == IF ResourceAt[node] = Last(scope) THEN scope ELSE Append(scope, ResourceAt[node])

(* The schema a reference stands for, where the outermost resource decides. *)
Target(node, scope) ==
    LET schema == Schemas[node]
        having == {i \in DOMAIN scope : <<schema.anchor, scope[i]>> \in DOMAIN Anchors}
    IN CASE schema.kind = "Ref" -> schema.target
         [] schema.kind = "DynamicRef" ->
               IF having = {} THEN schema.initial_target ELSE Anchors[schema.anchor, scope[Min(having)]]

NumberHolds(schema, x) ==
    /\ schema.integer_only => x[2] >= 0
    /\ \A m \in schema.multiple_of :
            LET shift == x[2] + m.scale IN x[1] = 0 \/ (shift >= 0 /\ (x[1] * Pow10[shift]) % m.coef = 0)
    /\ \A b \in schema.minimum : LessEq(<<b.coef, -b.scale>>, x) /\ (b.exclusive => ~LessEq(x, <<b.coef, -b.scale>>))
    /\ \A b \in schema.maximum : LessEq(x, <<b.coef, -b.scale>>) /\ (b.exclusive => ~LessEq(<<b.coef, -b.scale>>, x))

Keys(v) == {m.key : m \in ToSet(v[3])}

(* The schemas of one member: its own and those of the patterns its key has,
   else the additional one. *)
Obliged(schema, key) ==
    LET own == (IF key \in DOMAIN schema.known THEN {schema.known[key]} ELSE {})
                \cup {p.value : p \in {q \in ToSet(schema.patterns) : Reads(q.engine, key)}}
    IN IF own # {} THEN own ELSE {schema.additional}

ItemSchema(schema, i) == IF i <= Len(schema.prefix) THEN schema.prefix[i] ELSE schema.tail

RECURSIVE Holds(_, _, _), Evaluated(_, _, _)

Matching(schema, v, scope) ==
    {i \in DOMAIN v[3] : \E rule \in schema.contains : rule.matches # "Never"
                            /\ (rule.matches = "Always" \/ Holds(rule.matches, v[3][i], scope))}

ArrayHolds(schema, v, scope) ==
    /\ Len(v[3]) \in schema.min_items .. schema.max_items
    /\ \A i \in DOMAIN v[3] : Holds(ItemSchema(schema, i), v[3][i], scope)
    /\ schema.unique_items => \A i, j \in DOMAIN v[3] : i < j => Denotes(v[3][i]) # Denotes(v[3][j])
    /\ \A rule \in schema.contains : Cardinality(Matching(schema, v, scope)) \in rule.min .. rule.max

ObjectHolds(schema, v, scope) ==
    /\ schema.required \subseteq Keys(v)
    /\ Cardinality(Keys(v)) \in schema.min_properties .. schema.max_properties
    /\ \A m \in ToSet(v[3]) : \A node \in Obliged(schema, m.key) : Holds(node, m.value, scope)
    /\ \A m \in ToSet(v[3]) : \A node \in schema.property_names : Holds(node, <<"String", m.spelling, m.key>>, scope)
    /\ \A key \in Keys(v) \cap DOMAIN schema.dependent_required : schema.dependent_required[key] \subseteq Keys(v)
    /\ \A key \in Keys(v) \cap DOMAIN schema.dependent_by_name :
            Holds(schema.dependent_schemas[schema.dependent_by_name[key]], v, scope)

Locations(v) == IF v[1] = "Array" THEN DOMAIN v[3] ELSE {i \in DOMAIN v[3] : v[1] = "Object"}

Content(v, i) == IF v[1] = "Array" THEN v[3][i] ELSE v[3][i].value

Holds(node, v, scope) ==
    LET schema == Schemas[node]
        inside == Entered(node, scope)
        holding == {i \in DOMAIN schema.branches : Holds(schema.branches[i], v, inside)}
    IN CASE node \in {"AnyJson", "Open", "AllowAny"} -> TRUE
         [] node \in {"Closed", "Forbid"} -> FALSE
         [] node \notin {"AnyJson", "Open", "AllowAny", "Closed", "Forbid"} ->
            CASE schema.kind = "Unsupported" -> FALSE
              [] schema.kind \in {"Ref", "DynamicRef"} -> Holds(Target(node, inside), v, inside)
              [] schema.kind = "Regular" -> Reads(schema, v[2])
              [] schema.kind = "Number" -> v[1] = "Number" /\ NumberHolds(schema, v[3])
              [] schema.kind = "String" -> /\ v[1] = "String"
                                           /\ Len(v[3]) \in schema.min_scalars .. schema.max_scalars
                                           /\ \A engine \in schema.pattern : Reads(engine, v[3])
              [] schema.kind = "StringEnum" -> v[1] = "String" /\ v[3] \in schema.members
              [] schema.kind = "Array" -> v[1] = "Array" /\ ArrayHolds(schema, v, inside)
              [] schema.kind = "Object" -> v[1] = "Object" /\ ObjectHolds(schema, v, inside)
              [] schema.kind = "Negation" -> ~Holds(schema.inner, v, inside)
              [] schema.kind = "Unevaluated" ->
                    /\ Holds(schema.scope, v, inside)
                    /\ v[1] = schema.of =>
                        \A i \in Locations(v) \ Evaluated(schema.scope, v, inside) :
                            Holds(schema.unevaluated, Content(v, i), inside)
              [] schema.kind = "Combinator" ->
                    CASE schema.op = "All" -> holding = DOMAIN schema.branches
                      [] schema.op = "Any" -> holding # {}
                      [] schema.op = "ExactlyOne" -> Cardinality(holding) = 1

(* The locations of an array or object that a schema it satisfies evaluates. *)
Evaluated(node, v, scope) ==
    LET schema == Schemas[node]
        inside == Entered(node, scope)
        From(nodes) == UNION {Evaluated(n, v, inside) : n \in {n \in nodes : Holds(n, v, inside)}}
    IN CASE node = "AnyJson" \/ v[1] \notin {"Array", "Object"} -> {}
         [] node # "AnyJson" /\ v[1] \in {"Array", "Object"} ->
            CASE schema.kind \in {"Ref", "DynamicRef"} -> Evaluated(Target(node, inside), v, inside)
              [] schema.kind = "Array" ->
                    {i \in DOMAIN v[3] : i <= Len(schema.prefix) \/ schema.tail_annotates}
                        \cup Matching(schema, v, inside)
              [] schema.kind = "Object" ->
                    {i \in DOMAIN v[3] : Obliged(schema, v[3][i].key) # {"Open"}}
                        \cup From({schema.dependent_schemas[schema.dependent_by_name[key]] :
                                        key \in Keys(v) \cap DOMAIN schema.dependent_by_name})
              [] schema.kind = "Combinator" -> From(ToSet(schema.branches))
              [] schema.kind = "Unevaluated" ->
                    IF v[1] = schema.of THEN Locations(v) ELSE Evaluated(schema.scope, v, inside)
              [] schema.kind \notin {"Ref", "DynamicRef", "Array", "Object", "Combinator", "Unevaluated"} -> {}

(* The whole text is one value of the schema, in any whitespace. *)
Satisfies(root, t) ==
    \E i \in Spaces(t, {1}) : \E v \in Values(t, i) :
        Len(t) + 1 \in Spaces(t, {v.end}) /\ Holds(root, v.value, <<ResourceAt[root]>>)
=============================================================================
