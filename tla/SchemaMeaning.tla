---------------------------- MODULE SchemaMeaning ----------------------------
(***************************************************************************)
(* What a schema and an arena say of a JSON value, each by its own         *)
(* definition: the draft's, keyword by keyword, and the one the runtimes   *)
(* give to a node.  The lowering is correct when the two agree.            *)
(*                                                                         *)
(* A verdict says whether the value is valid and which of its properties   *)
(* and items were evaluated on the way.  A reference met again at the same *)
(* value makes no progress: both definitions are the least ones.  The      *)
(* dynamic scope is the sequence of resources entered on the way.          *)
(***************************************************************************)
EXTENDS SchemaResources

CONSTANTS
    Length,    \* the code points of a string
    Matches    \* the pairs of a regex and a string that it finds a match in

Verdict(ok, props, items) ==
    [ok |-> ok, props |-> IF ok THEN props ELSE {}, items |-> IF ok THEN items ELSE {}]

Refuses == Verdict(FALSE, {}, {})

(* Every verdict of a set holds, and what they evaluated together. *)
Every(verdicts) ==
    Verdict(\A v \in verdicts : v.ok, UNION {v.props : v \in verdicts}, UNION {v.items : v \in verdicts})

Some(verdicts) ==
    Verdict(\E v \in verdicts : v.ok, UNION {v.props : v \in verdicts}, UNION {v.items : v \in verdicts})

Passing(verdicts) == {i \in DOMAIN verdicts : verdicts[i].ok}

NameSet(value) == {value.fields[i][1] : i \in DOMAIN value.fields}

Member(value, name) == The(Get(value.fields, name))

----------------------------------------------------------------------------
(* Numbers as fractions of powers of ten. *)

Scaled(coefficient, scale) ==
    [value |-> coefficient * (IF scale < 0 THEN TenTo(-scale) ELSE 1), scale |-> IF scale < 0 THEN 0 ELSE scale]

Fraction(token) ==
    LET sign == IF token.neg THEN -1 ELSE 1
        down == IF token.exp # <<>> /\ token.exp[1] = "-" THEN 1 ELSE -1
    IN  Scaled(sign * ValueOf(token.int \o token.frac),
               Len(token.frac) + (IF token.exp = <<>> THEN 0 ELSE down * ValueOf(token.exp[2])))

LessThan(a, b) == a.value * TenTo(b.scale) < b.value * TenTo(a.scale)

MultipleOf(a, divisor) == (Magnitude(a.value) * TenTo(divisor.scale)) % (divisor.value * TenTo(a.scale)) = 0

IsWhole(a) == a.value % TenTo(a.scale) = 0

DigitsWithin(parts, token) ==
    LET counts == <<Len(token.int), Len(token.frac), IF token.exp = <<>> THEN 0 ELSE Len(token.exp[2])>>
    IN  \A i \in DOMAIN parts :
            /\ (i = 1 \/ counts[i] > 0) => counts[i] >= parts[i].min
            /\ \A hi \in parts[i].max : counts[i] <= hi

(* Equality of JSON values: numbers by value, objects without order. *)
RECURSIVE SameValue(_, _)
SameValue(p, q) ==
    /\ p.t = q.t
    /\ CASE p.t = "Bool" -> p.b = q.b
         [] p.t = "Str" -> p.s = q.s
         [] p.t = "Num" -> ~LessThan(Fraction(p), Fraction(q)) /\ ~LessThan(Fraction(q), Fraction(p))
         [] p.t = "Arr" -> Len(p.items) = Len(q.items) /\ \A i \in DOMAIN p.items : SameValue(p.items[i], q.items[i])
         [] p.t = "Obj" ->
                NameSet(p) = NameSet(q) /\ \A name \in NameSet(p) : SameValue(Member(p, name), Member(q, name))
         [] OTHER -> TRUE

UniqueItems(value) == \A i, j \in DOMAIN value.items : i < j => ~SameValue(value.items[i], value.items[j])

HasType(value, name) == JsonType(value) = name \/ (name = "integer" /\ value.t = "Num" /\ IsWhole(Fraction(value)))

Within(n, min, max) == (\A lo \in min : n >= lo) /\ \A hi \in max : n <= hi

----------------------------------------------------------------------------
(* The draft.  Every object of a document is marked with the URI of its    *)
(* resource and with whether it is the resource's root.  env has the root  *)
(* of the schema and, for every URI, the root of its resource, the objects *)
(* its anchors stand at and the quirks of its dialect.                     *)

EnteredScope(scope, resource) == IF scope # <<>> /\ Last(scope) = resource THEN scope ELSE Append(scope, resource)

(* The text of a string keyword. *)
TextsOf(value, key) == IF value.t = "Obj" THEN {v.s : v \in {w \in Get(value.fields, key) : w.t = "Str"}} ELSE {}

RECURSIVE Marked(_, _, _, _)
Marked(value, base, legacy, top) ==
    LET ids == {id \in TextsOf(value, IF legacy THEN "id" ELSE "$id") : ~Fragmented(Reference[id])}
        own == IF ids = {} THEN base ELSE ResolveUriReference(base, The(ids)).uri
        In(inner) == Marked(inner, own, legacy, FALSE)
    IN  CASE value.t = "Obj" ->
                [t |-> "Obj", fields |-> [i \in DOMAIN value.fields |-> <<value.fields[i][1], In(value.fields[i][2])>>],
                 resource |-> own, top |-> top \/ ids # {}]
          [] value.t = "Arr" -> [value EXCEPT !.items = [i \in DOMAIN value.items |-> In(value.items[i])]]
          [] OTHER -> value

(* A root whose metaschema leaves out the validation vocabulary asserts none of its keywords.   *)
(* The fields of a map of names are no keywords.                                                *)
ValidationKeywords ==
    {"type", "enum", "const", "multipleOf", "maximum", "exclusiveMaximum", "minimum", "exclusiveMinimum", "maxLength", "minLength", "pattern",
     "maxItems", "minItems", "uniqueItems", "maxContains", "minContains", "maxProperties", "minProperties", "required", "dependentRequired"}
NameMaps == {"properties", "patternProperties", "dependentSchemas", "$defs", "definitions"}

RECURSIVE Unasserted(_, _)
Unasserted(value, names) ==
    LET In(f) == <<f[1], Unasserted(f[2], ~names /\ f[1] \in NameMaps)>>
        kept == SelectSeq(value.fields, LAMBDA f : names \/ f[1] \notin ValidationKeywords)
    IN  CASE value.t = "Obj" -> [t |-> "Obj", fields |-> [i \in DOMAIN kept |-> In(kept[i])]]
          [] value.t = "Arr" -> [value EXCEPT !.items = [i \in DOMAIN value.items |-> Unasserted(value.items[i], FALSE)]]
          [] OTHER -> value

Asserts(root, documents) ==
    \A d \in ToSet(documents) :
        d.uri \in DeclaredDialect(root) => ObjHas(Entries(Get(d.ast.fields, "$vocabulary")), ValidationVocabulary)

(* The objects of a resource that have an anchor of the name. *)
AnchorTable(objects, keys, legacy) ==
    LET Has(v, name) ==
            \/ \E key \in keys : name \in TextsOf(v, key)
            \/ legacy /\ \E id \in TextsOf(v, "id") : Reference[id].fragment = {[kind |-> "anchor", name |-> name]}
    IN  [pair \in {v.resource : v \in objects} \X AnchorNames |-> {v \in objects : v.resource = pair[1] /\ Has(v, pair[2])}]

EnvOf(quirks, documents, objects) ==
    LET tops == {<<v.resource, v>> : v \in {w \in objects : w.top}}
        roots == tops \cup {d \in ToSet(documents) : d[2].t = "Obj"}
    IN  [root |-> Last(documents)[2],
         roots |-> [uri \in {r[1] : r \in roots} |-> The({r[2] : r \in {q \in roots : q[1] = uri}})],
         anchors |-> AnchorTable(objects, {"$anchor", "$dynamicAnchor"}, TRUE),
         dynamic |-> AnchorTable(objects, {"$dynamicAnchor"}, FALSE),
         quirks |-> [uri \in {r[1] : r \in tops} |-> QuirksOf(The({r[2] : r \in {q \in tops : q[1] = uri}}), quirks)]]

ObjectsIn(documents) ==
    UNION {ToSet(SelectSeq(Everything(documents[i][2]), LAMBDA v : v.t = "Obj")) : i \in DOMAIN documents}

DraftEnv(root, retrieval, documents) ==
    LET given == Append(documents, [uri |-> retrieval, ast |-> IF Asserts(root, documents) THEN root ELSE Unasserted(root, FALSE)])
        marked == [i \in DOMAIN given |-> <<given[i].uri, Marked(given[i].ast, given[i].uri, LegacyIds(given[i].ast), TRUE)>>]
        From(m) == EnvOf(QuirksOf(root, NoQuirks), m, ObjectsIn(m))
    IN  From(marked)

DraftTargetIn(env, root, fragments) ==
    CASE fragments = {} -> root
      [] fragments # {} /\ The(fragments).kind = "pointer" -> The(At(root, The(fragments).path))
      [] OTHER -> The(env.anchors[<<root.resource, The(fragments).name>>])

DraftTarget(env, schema, text) ==
    DraftTargetIn(env, env.roots[IF Reference[text].path = "" THEN schema.resource ELSE ResolveUriReference(schema.resource, text).uri],
                  Reference[text].fragment)

(* The outermost resource of the scope that declares the dynamic anchor, if the reference starts at one. *)
DraftDynamicTarget(env, initial, text, scope) ==
    LET names == {f.name : f \in {e \in Reference[text].fragment : e.kind = "anchor"}} \cap TextsOf(initial, "$dynamicAnchor")
        having == {i \in DOMAIN scope : \E name \in names : env.dynamic[<<scope[i], name>>] # {}}
    IN  IF having = {} THEN initial ELSE The(env.dynamic[<<scope[Min(having)], The(names)>>])

Count(fields, key) == {Fraction(token).value : token \in Get(fields, key)}

(* The digit keywords, which are not the draft's: a part that is written has a length within bounds. *)
DigitsHold(fields, token) ==
    LET int == Len(token.int)
        frac == Len(token.frac)
        rows == {<<"minDigits", "maxDigits", int>>, <<"minDigitsInteger", "maxDigitsInteger", int>>,
                 <<"minDigitsFraction", "maxDigitsFraction", frac>>}
    IN  \A row \in rows :
            /\ row[3] > 0 => \A lo \in Count(fields, row[1]) : row[3] >= lo
            /\ \A hi \in Count(fields, row[2]) : row[3] <= hi

ScalarHolds(fields, value) ==
    /\ \A type \in Get(fields, "type") : \E name \in ToSet(TypeNames(type)) : HasType(value, name)
    /\ \A constant \in Get(fields, "const") : SameValue(constant, value)
    /\ \A enum \in Get(fields, "enum") : \E i \in DOMAIN enum.items : SameValue(enum.items[i], value)
    /\ value.t = "Num" =>
            LET n == Fraction(value)
            IN  /\ \A m \in Get(fields, "minimum") : ~LessThan(n, Fraction(m))
                /\ \A m \in Get(fields, "maximum") : ~LessThan(Fraction(m), n)
                /\ \A m \in Get(fields, "exclusiveMinimum") : LessThan(Fraction(m), n)
                /\ \A m \in Get(fields, "exclusiveMaximum") : LessThan(n, Fraction(m))
                /\ \A m \in Get(fields, "multipleOf") : MultipleOf(n, Fraction(m))
                /\ DigitsHold(fields, value)
    /\ value.t = "Str" =>
            /\ Within(Length[value.s], Count(fields, "minLength"), Count(fields, "maxLength"))
            /\ \A p \in Get(fields, "pattern") : <<p.s, value.s>> \in Matches
            /\ \A f \in Get(fields, "format") : f.s \in DOMAIN FormatRegex => <<f.s, value.s>> \in Matches
    /\ value.t = "Arr" =>
            /\ Within(Len(value.items), Count(fields, "minItems"), Count(fields, "maxItems"))
            /\ IsTrue(Get(fields, "uniqueItems")) => UniqueItems(value)
    /\ value.t = "Obj" =>
            /\ Within(Len(value.fields), Count(fields, "minProperties"), Count(fields, "maxProperties"))
            /\ \A names \in Get(fields, "required") : \A i \in DOMAIN names.items : names.items[i].s \in NameSet(value)
            /\ \A key \in {"dependentRequired", "dependencies"} :
                    \A group \in ToSet(Entries(Get(fields, key))) :
                        group[1] \in NameSet(value) /\ group[2].t = "Arr" =>
                            \A i \in DOMAIN group[2].items : group[2].items[i].s \in NameSet(value)

RECURSIVE Valid(_, _, _, _, _)
Valid(env, schema, value, seen, outer) ==
    LET all == schema.fields
        scope == EnteredScope(outer, schema.resource)
        quirks == env.quirks[schema.resource]
        fields == IF quirks.ref_exclusive /\ ObjHas(all, "$ref") THEN SelectSeq(all, LAMBDA f : f[1] = "$ref") ELSE all
        Here_(sub) == Valid(env, sub, value, seen, scope)
        Child(sub, inner) == Valid(env, sub, inner, {}, scope).ok
        Follow(text, target) ==
            LET met == <<schema.resource, text, IF target.t = "Obj" THEN target.resource ELSE NoUri>>
            IN  IF met \in seen THEN Refuses ELSE Valid(env, target, value, seen \cup {met}, scope)
        Subs(key) == IF ObjHas(fields, key) THEN The(Get(fields, key)).items ELSE <<>>
        Verdicts(key) == LET subs == Subs(key) IN [i \in DOMAIN subs |-> Here_(subs[i])]
        \* The applicators at this value.
        ref == {Follow(r.s, DraftTarget(env, schema, r.s)) : r \in Get(fields, "$ref")}
                \cup {Follow(r.s, DraftDynamicTarget(env, DraftTarget(env, schema, r.s), r.s, scope)) : r \in Get(fields, "$dynamicRef")}
        allOf == LET v == Verdicts("allOf") IN {v[i] : i \in DOMAIN v}
        anyOf == IF ObjHas(fields, "anyOf") THEN LET v == Verdicts("anyOf") IN {Some({v[i] : i \in DOMAIN v})} ELSE {}
        oneOf == IF ObjHas(fields, "oneOf")
                 THEN LET v == Verdicts("oneOf")
                      IN  {IF Cardinality(Passing(v)) = 1 THEN v[The(Passing(v))] ELSE Refuses}
                 ELSE {}
        negated == {Verdict(~Here_(s).ok, {}, {}) : s \in Get(fields, "not")}
        condition == IF quirks.if_then_else_unsupported THEN {} ELSE {Here_(s) : s \in Get(fields, "if")}
        branch == UNION {{Here_(s) : s \in Get(fields, IF v.ok THEN "then" ELSE "else")} : v \in condition}
        dependents == {Here_(group[2]) : group \in
                        {g \in UNION {ToSet(Entries(Get(fields, key))) : key \in {"dependentSchemas", "dependencies"}} :
                            value.t = "Obj" /\ g[2].t # "Arr" /\ g[1] \in NameSet(value)}}
        here == Every(ref \cup allOf \cup anyOf \cup oneOf \cup negated \cup branch \cup dependents)
        noted == UNION {v.props : v \in condition}
        notedItems == UNION {v.items : v \in condition}
        \* Its members.
        names == IF value.t = "Obj" THEN NameSet(value) ELSE {}
        declared == {e \in ToSet(Entries(Get(fields, "properties"))) : e[1] \in names}
        matched == {<<e, name>> \in ToSet(Entries(Get(fields, "patternProperties"))) \X names : <<e[1], name>> \in Matches}
        others == names \ ({e[1] : e \in declared} \cup {m[2] : m \in matched})
        additional == IF ObjHas(fields, "additionalProperties") THEN others ELSE {}
        membersHold ==
            /\ \A e \in declared : Child(e[2], Member(value, e[1]))
            /\ \A m \in matched : Child(m[1][2], Member(value, m[2]))
            /\ \A s \in Get(fields, "additionalProperties") : \A name \in others : Child(s, Member(value, name))
            /\ \A s \in Get(fields, "propertyNames") : \A name \in names : Child(s, [t |-> "Str", s |-> name])
        \* Its items.
        items == IF value.t = "Arr" THEN value.items ELSE <<>>
        prefix == Subs("prefixItems")
        rest == {i \in DOMAIN items : i > Len(prefix)}
        counted == UNION {{i \in DOMAIN items : Child(s, items[i])} : s \in Get(fields, "contains")}
        itemsHold ==
            /\ \A i \in DOMAIN items : i <= Len(prefix) => Child(prefix[i], items[i])
            /\ \A s \in Get(fields, "items") : \A i \in rest : Child(s, items[i])
            /\ value.t = "Arr" /\ ObjHas(fields, "contains") =>
                    Within(Cardinality(counted),
                           IF ObjHas(fields, "minContains") THEN Count(fields, "minContains") ELSE {1},
                           Count(fields, "maxContains"))
        \* What has been evaluated when the unevaluated keywords are reached.
        props == here.props \cup noted \cup {e[1] : e \in declared} \cup {m[2] : m \in matched} \cup additional
        reached == here.items \cup notedItems \cup counted \cup {i \in DOMAIN items : i <= Len(prefix)}
                    \cup (IF ObjHas(fields, "items") THEN rest ELSE {})
        leftHold ==
            /\ \A s \in Get(fields, "unevaluatedProperties") : \A name \in names \ props : Child(s, Member(value, name))
            /\ \A s \in Get(fields, "unevaluatedItems") : \A i \in (DOMAIN items) \ reached : Child(s, items[i])
    IN  IF schema.t = "Bool"
        THEN Verdict(schema.b, {}, {})
        ELSE Verdict(here.ok /\ ScalarHolds(fields, value) /\ membersHold /\ itemsHold /\ leftHold,
                     IF ObjHas(fields, "unevaluatedProperties") THEN names ELSE props,
                     IF ObjHas(fields, "unevaluatedItems") THEN DOMAIN items ELSE reached)

DraftAccepts(env, value) == Valid(env, env.root, value, {}, <<>>).ok

----------------------------------------------------------------------------
(* The arena. *)

PolicyOf(policy) == policy.policy

(* The outermost resource of the scope that binds the name of the anchor. *)
DynamicTarget(ir, node, scope) ==
    LET Binding(resource) ==
            {a \in ToSet(ir.anchors) : a.dynamic /\ a.resource = resource /\ a.name = ir.anchors[node.anchor].name}
        having == {i \in DOMAIN scope : Binding(scope[i]) # {}}
    IN  IF having = {} THEN node.target ELSE The(Binding(scope[Min(having)])).target

RECURSIVE Holds(_, _, _, _, _)
Holds(ir, id, value, seen, outer) ==
    LET node == ir.nodes[id]
        scope == EnteredScope(outer, ir.owner[id])
        Here_(sub) == Holds(ir, sub, value, seen, scope)
        Child(sub, inner) == Holds(ir, sub, inner, {}, scope).ok
        Permits(policy, inner) ==
            CASE PolicyOf(policy) \in {"Forbid", "Never"} -> FALSE
              [] PolicyOf(policy) = "Schema" -> Child(The(policy.schema), inner)
              [] OTHER -> TRUE
        branches == {Here_(node.branches[i]) : i \in DOMAIN node.branches}
        one == {i \in DOMAIN node.branches : Here_(node.branches[i]).ok}
        ItemsHold(prefix, Rest(_), annotated) ==
            LET items == value.items
                contained == UNION {{i \in DOMAIN items : Permits(c.on, items[i])} : c \in node.contains}
                rest == {i \in DOMAIN items : i > Len(prefix)}
            IN  Verdict(/\ \A i \in DOMAIN items : i <= Len(prefix) => Child(prefix[i], items[i])
                        /\ \A i \in rest : Rest(items[i])
                        /\ Within(Len(items), {node.min_items}, node.max_items)
                        /\ node.unique => UniqueItems(value)
                        /\ \A c \in node.contains : Within(Cardinality(contained), {c.min}, c.max),
                        {}, contained \cup {i \in DOMAIN items : i <= Len(prefix)} \cup (IF annotated THEN rest ELSE {}))
        MembersHold(patterns, additional, names_hold, min, max) ==
            LET names == NameSet(value)
                known == {i \in DOMAIN node.fields : node.fields[i][1] \in names}
                matched == {<<i, name>> \in (DOMAIN patterns) \X names : <<patterns[i][1], name>> \in Matches}
                others == names \ ({node.fields[i][1] : i \in known} \cup {m[2] : m \in matched})
                dependents == {Here_(node.dependent[i][2]) : i \in {j \in DOMAIN node.dependent : node.dependent[j][1] \in names}}
                also == Every(dependents)
            IN  Verdict(/\ \A i \in known : Child(node.fields[i][2], Member(value, node.fields[i][1]))
                        /\ \A i \in node.required : i \in known
                        /\ \A m \in matched : Child(patterns[m[1]][2], Member(value, m[2]))
                        /\ \A name \in others : Permits(additional, Member(value, name))
                        /\ \A s \in names_hold : \A name \in names : Child(s, [t |-> "Str", s |-> name])
                        /\ Within(Cardinality(names), min, max)
                        /\ \A pair \in node.dependent_required : pair[1] \in names => pair[2] \in names
                        /\ also.ok,
                        also.props \cup {node.fields[i][1] : i \in known} \cup {m[2] : m \in matched}
                            \cup (IF PolicyOf(additional) = "Open" THEN {} ELSE others), {})
    IN  CASE node.k = "Null" -> Verdict(value.t = "Null", {}, {})
          [] node.k = "Boolean" -> Verdict(value.t = "Bool", {}, {})
          [] node.k = "Never" -> Refuses
          [] node.k = "StringConst" -> Verdict(value.t = "Str" /\ value.s = node.value, {}, {})
          [] node.k = "StringPattern" ->
                Verdict(/\ value.t = "Str"
                        /\ node.regex \notin {AnyBody, CodePoint} => <<node.regex, value.s>> \in Matches
                        /\ Within(Length[value.s], node.min_len, node.max_len), {}, {})
          [] node.k = "Integer" ->
                Verdict(/\ value.t = "Num" /\ IsWhole(Fraction(value))
                        /\ LET n == Fraction(value).value \div TenTo(Fraction(value).scale)
                           IN  Within(n, node.lo, node.hi) /\ \A d \in node.divisor : Magnitude(n) % d = 0, {}, {})
          [] node.k = "Number" ->
                Verdict(/\ value.t = "Num"
                        /\ node.integer_only => IsWhole(Fraction(value))
                        /\ \A m \in node.minimum :
                                IF m.exclusive THEN LessThan(m, Fraction(value)) ELSE ~LessThan(Fraction(value), m)
                        /\ \A m \in node.maximum :
                                IF m.exclusive THEN LessThan(Fraction(value), m) ELSE ~LessThan(m, Fraction(value))
                        /\ \A m \in node.multiple_of : MultipleOf(Fraction(value), m), {}, {})
          [] node.k = "LexicalNumber" -> Verdict(value.t = "Num" /\ DigitsWithin(node.digits, value), {}, {})
          [] node.k = "Enum" -> Verdict(\E v \in node.values : SameValue(v, value), {}, {})
          [] node.k = "Array" ->
                IF value.t # "Arr" THEN Refuses ELSE ItemsHold(<<>>, LAMBDA i : Permits(node.items, i), node.annotates)
          [] node.k = "Tuple" ->
                IF value.t # "Arr"
                THEN Refuses
                ELSE ItemsHold(node.prefix, LAMBDA i : \E tail \in node.tail : Child(tail, i), node.annotates)
          [] node.k = "Object" ->
                IF value.t # "Obj" THEN Refuses ELSE MembersHold(<<>>, Policy("Forbid"), {}, {}, {})
          [] node.k = "OpenObject" ->
                IF value.t # "Obj"
                THEN Refuses
                ELSE MembersHold(node.patterns, node.additional, node.property_names, node.min_properties, node.max_properties)
          [] node.k = "Union" -> Some(branches)
          [] node.k = "Intersection" -> Every(branches)
          [] node.k = "ExactlyOne" -> IF Cardinality(one) = 1 THEN Here_(node.branches[The(one)]) ELSE Refuses
          [] node.k = "Not" -> Verdict(~Here_(node.inner).ok, {}, {})
          [] node.k = "Ref" ->
                IF node.def \in seen THEN Refuses ELSE Holds(ir, ir.defs[node.def], value, seen \cup {node.def}, scope)
          [] node.k = "DynamicRef" ->
                LET target == DynamicTarget(ir, node, scope)
                IN  IF -target \in seen THEN Refuses ELSE Holds(ir, target, value, seen \cup {-target}, scope)
          [] node.k = "Unevaluated" ->
                LET below == Here_(node.scope)
                    names == IF value.t = "Obj" THEN NameSet(value) ELSE {}
                    items == IF value.t = "Arr" THEN value.items ELSE <<>>
                IN  IF node.kind = "Properties"
                    THEN Verdict(below.ok /\ \A n \in names \ below.props : Child(node.unevaluated, Member(value, n)),
                                 below.props \cup names, below.items)
                    ELSE Verdict(below.ok /\ \A i \in (DOMAIN items) \ below.items : Child(node.unevaluated, items[i]),
                                 below.props, below.items \cup DOMAIN items)
          [] OTHER -> Refuses

ArenaAccepts(ir, value) == Holds(ir, ir.root, value, {}, <<>>).ok

=============================================================================
