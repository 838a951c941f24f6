----------------------------- MODULE SchemaPlan -----------------------------
(***************************************************************************)
(* The structured plan of a finished arena: how every reachable node is    *)
(* executed, what the runtime may rule out early, and the rewriting of     *)
(* the references that come back to the same instance.                     *)
(*                                                                         *)
(* A build c holds the nodes planned so far (an id outside the domain is   *)
(* the sentinel of an unplanned node), the worklist, the ids ever queued   *)
(* and the byte budget.  Sizes are units: a table slot, an id, an entry    *)
(* and a byte each count one, an engine EngineSize.                        *)
(***************************************************************************)
EXTENDS SchemaRouting, SchemaCompile

CONSTANTS
    EngineSize,       \* engine_retained_bytes
    ProductWork,      \* PRODUCT_WORK_BYTES
    MaxProductPatterns, MaxProductSource, MaxPlainProducts, MaxPlainSource   \* the caps of a fast intersection

ASSUME EngineAssumption == EngineSize \in Nat \ {0} /\ ProductWork \in Nat

WordsFor(count) == (count + 63) \div 64

----------------------------------------------------------------------------
(* The budget.  Reserving and charging need room beside everything live.   *)

Refuse(c, code) == IF c.failed = Ok THEN [c EXCEPT !.failed = code] ELSE c

CompileBudgetProjection(c, additional) == c.retained + c.scratch + c.temporary + additional

Affords(c, additional) == CompileBudgetProjection(c, additional) <= c.options.max_plan_bytes

ReserveTemporary(c, bytes) ==
    CASE c.failed # Ok -> c
      [] c.failed = Ok /\ ~Affords(c, bytes) -> Refuse(c, "PlanBytes")
      [] OTHER -> [c EXCEPT !.temporary = @ + bytes]

ReleaseTemporary(c, bytes) == IF c.failed # Ok THEN c ELSE [c EXCEPT !.temporary = @ - bytes]

(* charge_retained while the scratch tables are live, and charge once they are gone. *)
ChargeRetained(c, bytes) ==
    CASE c.failed # Ok -> c
      [] c.failed = Ok /\ ~Affords(c, bytes) -> Refuse(c, "PlanBytes")
      [] OTHER -> [c EXCEPT !.retained = @ + bytes]

Charge(c, bytes) ==
    CASE c.failed # Ok -> c
      [] c.failed = Ok /\ c.retained + bytes > c.options.max_plan_bytes -> Refuse(c, "PlanBytes")
      [] OTHER -> [c EXCEPT !.retained = @ + bytes]

Temporarily(c, bytes) == ReleaseTemporary(ReserveTemporary(c, bytes), bytes)

RegexCompilePeak(source_len) == source_len + EngineSize

(* An engine is compiled in temporary space and what it keeps is charged. *)
ChargeEngine(c, source_len) == ChargeRetained(Temporarily(c, RegexCompilePeak(source_len)), EngineSize)

SumBytes(names) == FoldLeft(LAMBDA n, name : n + Bytes[name], 0, names)

QueueChild(c, id) ==
    IF id \in c.queued THEN c ELSE [c EXCEPT !.queued = @ \cup {id}, !.worklist = Append(@, id)]

QueueAll(c, ids) == FoldLeft(QueueChild, c, ids)

Planned(c, plan) == [c |-> c, plan |-> plan]

NoPlan == [k |-> "Unsupported"]

----------------------------------------------------------------------------
(* What is known before the first node: the dynamic anchors of each        *)
(* resource, the nodes that must report what they evaluated, and the nodes *)
(* that are one automaton.                                                 *)

DynamicBindings(ir) ==
    LET dynamic == SelectSeq(ir.anchors, LAMBDA a : a.dynamic)
    IN  [i \in DOMAIN dynamic |->
            [name |-> dynamic[i].name, resource |-> dynamic[i].resource, target |-> dynamic[i].target]]

HasKind(ir, kind) == \E i \in DOMAIN ir.nodes : ir.nodes[i].k = kind

AnnotationEdges(ir, bindings, node) ==
    CASE node.k = "Ref" -> {ir.defs[node.def]}
      [] node.k = "DynamicRef" ->
            {node.target} \cup {b.target : b \in {d \in ToSet(bindings) : d.name = ir.anchors[node.anchor].name}}
      [] node.k \in {"Intersection", "Union", "ExactlyOne"} -> ToSet(node.branches)
      [] node.k \in {"Object", "OpenObject"} -> Seconds(node.dependent)
      [] node.k = "Unevaluated" -> {node.scope}
      [] OTHER -> {}

RECURSIVE MarkRequired(_, _, _, _)
MarkRequired(ir, bindings, required, work) ==
    LET next == UNION {AnnotationEdges(ir, bindings, ir.nodes[id]) : id \in work} \ required
    IN  IF work = {} THEN required ELSE MarkRequired(ir, bindings, required \cup next, next)

ComputeAnnotationRequired(ir, bindings) ==
    LET scopes == {ir.nodes[i].scope : i \in {j \in DOMAIN ir.nodes : ir.nodes[j].k = "Unevaluated"}}
    IN  MarkRequired(ir, bindings, scopes, scopes)

AnnotationShapeRequired(node) ==
    node.k \in {"Object", "OpenObject", "Array", "Tuple", "Union", "Intersection", "ExactlyOne", "Ref", "DynamicRef",
                "Unevaluated"}

ClassifyUnstructured(ir, routes, required) ==
    {id \in DOMAIN ir.nodes :
        routes[id].kind # "Structured" /\ ~(id \in required /\ AnnotationShapeRequired(ir.nodes[id]))}

ClassifyRegular(ir, routes, required) ==
    {id \in DOMAIN ir.nodes :
        routes[id].kind = "Regular" /\ ~(id \in required /\ AnnotationShapeRequired(ir.nodes[id]))}

CompileScratchBytes(node_count) == 10 * node_count

----------------------------------------------------------------------------
(* Objects. *)

IsNever(ir, id) == ir.nodes[id].k = "Never"

PropertyPlan(ir, entry) == [name |-> entry[1], value |-> entry[2], maybe_satisfiable |-> ~IsNever(ir, entry[2])]

(* Under a closed object, the keys some satisfiable pattern allows and no unsatisfiable one forbids. *)
BuildViablePropertyPattern(c, patterns) ==
    LET live == SelectSeq(patterns, LAMBDA p : p.maybe_satisfiable)
        never == SelectSeq(patterns, LAMBDA p : ~p.maybe_satisfiable)
        references == 2 * Len(patterns)
        difference == IF never = <<>> THEN 0 ELSE 2 * EngineSize
        held == ReserveTemporary(c, references)
    IN  IF live = <<>>
        THEN Planned(ReleaseTemporary(held, references), {})
        ELSE Planned(ChargeRetained(ReleaseTemporary(Temporarily(held, difference), references), EngineSize),
                   {[live |-> {p.name : p \in ToSet(live)}, never |-> {p.name : p \in ToSet(never)}]})

ObjectPlanMinimumBytes(known, pattern_count, dependent) ==
    SumBytes(FirstOf(known)) + 2 * Len(known) + WordsFor(Len(known)) + pattern_count
        + SumBytes(FirstOf(dependent)) + 2 * Len(dependent)

BuildDependentRequiredPlan(c, pairs) ==
    LET names == {p[1] : p \in pairs} \cup {p[2] : p \in pairs}
        rules == {p[1] : p \in pairs}
    IN  IF pairs = {}
        THEN Planned(c, {})
        ELSE Planned(ChargeRetained(Temporarily(c, Cardinality(pairs)),
                                  2 * Cardinality(pairs) + SumBytes(SetToSeq(names)) + Cardinality(pairs) + Cardinality(rules)),
                   {[trigger |-> t, required |-> {p[2] : p \in {q \in pairs : q[1] = t}}] : t \in rules})

(* A dependent schema shared by several triggers is executed once. *)
DependentSchemas(dependent) ==
    FoldLeft(LAMBDA ids, d : IF d[2] \in ToSet(ids) THEN ids ELSE Append(ids, d[2]), <<>>, dependent)

ObjectBytes(known, patterns, dependent) ==
    2 * Len(known) + SumBytes(FirstOf(known)) + WordsFor(Len(known)) + Len(patterns)
        + Len(dependent) + SumBytes(FirstOf(dependent)) + Len(DependentSchemas(dependent))

BuildOpenObjectPlan(ir, c, node, patterns_src, additional, property_names, min_properties, max_properties) ==
    LET known == [i \in DOMAIN node.fields |-> PropertyPlan(ir, node.fields[i])]
        patterns == [i \in DOMAIN patterns_src |-> PropertyPlan(ir, patterns_src[i])]
        fits == c.retained + ObjectPlanMinimumBytes(node.fields, Len(patterns), node.dependent) <= c.options.max_plan_bytes
        searched == FoldLeft(LAMBDA a, p : ChargeEngine(a, Bytes[p.name]), IF fits THEN c ELSE Refuse(c, "PlanBytes"), patterns)
        viable == IF additional.policy = "Forbid" THEN BuildViablePropertyPattern(searched, patterns) ELSE Planned(searched, {})
        dependents == DependentSchemas(node.dependent)
        queued == QueueAll(viable.c, SecondOf(node.fields) \o SecondOf(patterns_src) \o SetToSeq(Target(additional))
                                        \o SetToSeq(property_names) \o dependents)
        paired == BuildDependentRequiredPlan(Temporarily(queued, Len(node.dependent)), node.dependent_required)
    IN  Planned(ChargeRetained(paired.c, ObjectBytes(node.fields, patterns, node.dependent)),
              [k |-> "Object", known |-> known, patterns |-> patterns, viable_pattern |-> viable.plan,
               required |-> node.required, additional |-> additional, property_names |-> property_names,
               min_properties |-> min_properties, max_properties |-> max_properties,
               dependent_by_name |-> node.dependent, dependent_schemas |-> dependents, dependent_required |-> paired.plan])

(* The policy a closed object's closure stands for. *)
ClosurePolicy(closure) ==
    CASE closure \in {"Forbidden", "AssumeClosedProfile"} -> "Forbid"
      [] closure = "AllowOpenProfile" -> "AllowAny"
      [] OTHER -> "Unsupported"

----------------------------------------------------------------------------
(* Strings. *)

BuildStringEnumPlan(c, members) ==
    Planned(ChargeRetained(c, Cardinality(members) + 1 + SumBytes(SetToSeq(members))), [k |-> "StringEnum", members |-> members])

(* How many strings a node admits, followed through references; {} when it is not a list of strings. *)
RECURSIVE FiniteStringMemberCountFrom(_, _, _)
FiniteStringMemberCountFrom(ir, id, steps) ==
    LET node == ir.nodes[id]
    IN  CASE node.k = "StringConst" -> {1}
          [] node.k = "Enum" /\ AllStrings(node.values) -> {Cardinality(node.values)}
          [] node.k = "Ref" /\ steps > 0 -> FiniteStringMemberCountFrom(ir, ir.defs[node.def], steps - 1)
          [] OTHER -> {}

FiniteStringMemberCount(ir, start) == FiniteStringMemberCountFrom(ir, start, Len(ir.nodes))

(* The items an array compares with each other, or with its contains schema, are compared decoded. *)
NeedsDecodedStringSemantics(ir, candidate) ==
    \E i \in DOMAIN ir.nodes :
        LET node == ir.nodes[i]
            item == CASE node.k = "Array" -> Target(node.items)
                      [] node.k = "Tuple" -> ToSet(node.prefix) \cup node.tail
                      [] OTHER -> {}
            capped == \E constraint \in node.contains : constraint.max # {}
        IN  /\ node.k \in {"Array", "Tuple"}
            /\ \/ candidate \in item /\ (node.unique \/ (capped /\ FiniteStringMemberCount(ir, candidate) # {}))
               \/ candidate \in Contained(node)

(* A branch of an intersection of strings: a pattern, a pattern it must not match, or a string it is not. *)
StringIntersectionBranch(ir, branch) ==
    LET node == ir.nodes[branch]
        inner == IF node.k = "Not" THEN ir.nodes[node.inner] ELSE node
    IN  CASE node.k = "StringPattern" -> {[node |-> node, negative |-> FALSE]}
          [] node.k = "Not" /\ inner.k = "StringPattern" /\ inner.min_len = {} /\ inner.max_len = {} ->
                {[node |-> inner, negative |-> TRUE]}
          [] node.k = "Not" /\ inner.k = "StringConst" -> {[node |-> inner, negative |-> TRUE]}
          [] OTHER -> {}

SourceBytes(branch) ==
    CASE branch.node.k = "StringConst" -> 10 * Bytes[branch.node.value]
      [] IsUserPattern(branch.node) -> Bytes[branch.node.regex]
      [] OTHER -> 0

FastStringIntersection(ir, branch_ids) ==
    LET branches == FoldLeft(LAMBDA s, id : s \o SetToSeq(StringIntersectionBranch(ir, id)), <<>>, branch_ids)
        user == SelectSeq(branches, LAMBDA b : IsUserPattern(b.node))
        source == FoldLeft(LAMBDA n, b : n + SourceBytes(b), 0, branches)
        \* The caps are looked at whenever a user pattern has been added.
        over == \E i \in DOMAIN branches :
                    /\ IsUserPattern(branches[i].node)
                    /\ LET upto == SubSeq(branches, 1, i)
                       IN  \/ Len(SelectSeq(upto, LAMBDA b : IsUserPattern(b.node))) > MaxProductPatterns
                           \/ FoldLeft(LAMBDA n, b : n + SourceBytes(b), 0, upto) > MaxProductSource
    IN  /\ \A i \in DOMAIN branch_ids : StringIntersectionBranch(ir, branch_ids[i]) # {}
        /\ ~over
        /\ (\E b \in ToSet(branches) : b.negative) \/ (Len(user) <= MaxPlainProducts /\ source <= MaxPlainSource)

CombinePatternEngines(c, count) ==
    IF count < 2 THEN c ELSE ReserveTemporary(c, count + count * EngineSize + ProductWork)

(* One engine for all the patterns of the branches, and the strictest lengths. *)
IntersectionPattern(c, branches) ==
    LET positive == SelectSeq(branches, LAMBDA b : ~b.negative)
        required == {b.node.regex : b \in {p \in ToSet(positive) : IsUserPattern(p.node)}}
        refused == UNION {IF b.node.k = "StringConst" THEN {[literal |-> TRUE, text |-> b.node.value]}
                          ELSE IF IsUserPattern(b.node) THEN {[literal |-> FALSE, text |-> b.node.regex]}
                          ELSE {} : b \in {n \in ToSet(branches) : n.negative}}
        lows == UNION {b.node.min_len : b \in ToSet(positive)}
        highs == UNION {b.node.max_len : b \in ToSet(positive)}
        compiled == FoldLeft(LAMBDA a, b : IF SourceBytes(b) = 0 THEN a ELSE ReserveTemporary(a, RegexCompilePeak(SourceBytes(b))),
                             ReserveTemporary(c, Len(branches)), branches)
        combined == CombinePatternEngines(CombinePatternEngines(compiled, Cardinality(required)),
                                          IF refused = {} THEN 0 ELSE 1 + Cardinality(refused))
    IN  Planned(combined,
              [k |-> "String", min_scalars |-> IF lows = {} THEN 0 ELSE Max(lows), max_scalars |-> IF highs = {} THEN {} ELSE {Min(highs)},
               patterns |-> required, refused |-> refused])

BuildIntersectionPattern(ir, c, branch_ids) ==
    IntersectionPattern(c, FoldLeft(LAMBDA s, id : s \o SetToSeq(StringIntersectionBranch(ir, id)), <<>>, branch_ids))

(* What the search for one engine took is given back; the engine is kept. *)
KeepFast(c, fast) ==
    LET freed == [fast.c EXCEPT !.temporary = c.temporary]
    IN  Planned(IF fast.plan.patterns = {} /\ fast.plan.refused = {} THEN freed ELSE ChargeRetained(freed, EngineSize), fast.plan)

----------------------------------------------------------------------------
(* The names an object can have evaluated, when they can be listed.  A     *)
(* property that is never valid evaluates nothing.                         *)

KeyEdges(node) ==
    CASE node.k \in {"Object", "OpenObject"} -> Seconds(node.dependent)
      [] node.k \in {"Intersection", "Union", "ExactlyOne"} -> ToSet(node.branches)
      [] node.k = "Unevaluated" -> {node.scope}
      [] OTHER -> {}

RECURSIVE KeyNodes(_, _, _)
KeyNodes(ir, visited, work) ==
    LET next == UNION {KeyEdges(ir.nodes[id]) : id \in work} \ visited
    IN  IF work = {} THEN visited ELSE KeyNodes(ir, visited \cup next, next)

EvaluatesAnyKey(ir, node) ==
    \/ node.k \in {"Ref", "DynamicRef", "Unsupported"}
    \/ /\ node.k = "OpenObject"
       /\ node.additional.policy \in {"AllowAny", "Schema"} \/ \E i \in DOMAIN node.patterns : IsNever(ir, node.patterns[i][2])
    \/ node.k = "Unevaluated" /\ node.kind = "Properties" /\ ~IsNever(ir, node.unevaluated)

KeyCollectionBytes(ir) ==
    LET objects == {i \in DOMAIN ir.nodes : ir.nodes[i].k \in {"Object", "OpenObject"}}
        CountOf(Field(_)) == FoldSet(LAMBDA i, n : n + Field(ir.nodes[i]), 0, objects)
    IN  2 * Len(ir.nodes) + CountOf(LAMBDA node : Len(node.fields))
            + CountOf(LAMBDA node : IF node.k = "OpenObject" THEN Len(node.patterns) ELSE 0)

(* Each engine stays live while the trie is built. *)
ReserveKeyEngines(c, patterns) ==
    FoldSet(LAMBDA regex, a : ReserveTemporary(Temporarily(a, RegexCompilePeak(Bytes[regex])), EngineSize), c, patterns)

KeyTrieBuildBytes(names) ==
    LET total == SumBytes(SetToSeq(names))
    IN  2 * (total + 1) + 3 * total + Cardinality(names) + 1 + (total + 1) * WordsFor(Cardinality(names))

KeyTrieBytes(trie) ==
    3 * SumBytes(SetToSeq(trie.names)) + Cardinality(trie.names) + 2 + EngineSize * Cardinality(trie.patterns)

FiniteKeys(ir, visited) ==
    LET shaped == {node \in visited : node.k \in {"Object", "OpenObject"}}
    IN  [names |-> UNION {{node.fields[i][1] : i \in {j \in DOMAIN node.fields : ~IsNever(ir, node.fields[j][2])}} : node \in shaped},
         patterns |-> UNION {{node.patterns[i][1] : i \in DOMAIN node.patterns} : node \in {s \in shaped : s.k = "OpenObject"}}]

(* Without room for the proof there is none, and the exact walk decides. *)
BuildFiniteEvaluatedKeyTrie(ir, c, scope) ==
    LET visited == {ir.nodes[id] : id \in KeyNodes(ir, {scope}, {scope})}
        trie == FiniteKeys(ir, visited)
        held == ReserveTemporary(c, KeyCollectionBytes(ir))
        engines == ReserveKeyEngines(held, trie.patterns)
        built == ReserveTemporary(engines, KeyTrieBuildBytes(trie.names))
    IN  IF (\E node \in visited : EvaluatesAnyKey(ir, node)) \/ built.failed # Ok
        THEN Planned(c, {})
        ELSE Planned(ChargeRetained(c, KeyTrieBytes(trie)), {trie})

----------------------------------------------------------------------------
(* The plan of one node. *)

BuildCombinatorPlan(c, kind, branches) ==
    Planned(ChargeRetained(QueueAll(c, branches), Len(branches)), [k |-> "Combinator", kind |-> kind, branches |-> branches])

BuildContains(node) == {[on |-> constraint.on, min |-> constraint.min, max |-> constraint.max] : constraint \in node.contains}

BuildArrayPlan(ir, c, node, prefix, tail) ==
    LET capacity == IF node.k = "Array" /\ node.unique /\ Target(node.items) # {}
                    THEN FiniteStringMemberCount(ir, The(Target(node.items)))
                    ELSE {}
    IN  Planned(ChargeRetained(QueueAll(c, prefix \o SetToSeq(Target(tail)) \o SetToSeq(Contained(node))), Len(prefix)),
              [k |-> "Array", prefix |-> prefix, tail |-> tail, min_items |-> node.min_items, max_items |-> node.max_items,
               unique |-> node.unique, finite_unique_capacity |-> capacity, contains |-> BuildContains(node),
               annotates |-> node.annotates])

AutomatonLimitHasStructuredRoute(node) ==
    node.k \in {"Object", "Array", "Tuple", "Union", "Intersection", "ExactlyOne"}

(* The object and array nodes that are executed structurally. *)
BuildShapePlan(ir, c, node) ==
    CASE node.k = "OpenObject" ->
            BuildOpenObjectPlan(ir, c, node, node.patterns, node.additional, node.property_names,
                                node.min_properties, node.max_properties)
      [] node.k = "Object" ->
            IF ClosurePolicy(node.closure) = "Unsupported"
            THEN Planned(Refuse(c, "Unsupported"), NoPlan)
            ELSE BuildOpenObjectPlan(ir, c, node, <<>>, Policy(ClosurePolicy(node.closure)), {}, {}, {})
      [] node.k = "Array" -> BuildArrayPlan(ir, c, node, <<>>, node.items)
      [] OTHER ->
            BuildArrayPlan(ir, c, node, node.prefix, IF node.tail = {} THEN Policy("Forbid") ELSE SchemaPolicy(The(node.tail)))

(* A node that is executed structurally. *)
BuildStructuredPlan(ir, c, node) ==
    CASE IsLargeStringEnum(node) -> BuildStringEnumPlan(c, {v.s : v \in node.values})
      [] node.k \in {"OpenObject", "Object", "Array", "Tuple"} -> BuildShapePlan(ir, c, node)
      [] node.k = "StringPattern" ->
            Planned(IF IsUserPattern(node) THEN ChargeEngine(c, Bytes[node.regex]) ELSE c,
                  [k |-> "String", min_scalars |-> IF node.min_len = {} THEN 0 ELSE The(node.min_len),
                   max_scalars |-> node.max_len, patterns |-> IF IsUserPattern(node) THEN {node.regex} ELSE {}, refused |-> {}])
      [] node.k = "Intersection" ->
            IF FastStringIntersection(ir, node.branches)
            THEN KeepFast(c, BuildIntersectionPattern(ir, c, node.branches))
            ELSE BuildCombinatorPlan(c, "All", node.branches)
      [] node.k = "Union" -> BuildCombinatorPlan(c, "Any", node.branches)
      [] node.k = "ExactlyOne" -> BuildCombinatorPlan(c, "ExactlyOne", node.branches)
      [] node.k = "Not" -> Planned(QueueChild(c, node.inner), [k |-> "Negation", inner |-> node.inner])
      [] node.k = "Ref" -> Planned(QueueChild(c, ir.defs[node.def]), [k |-> "Ref", target |-> ir.defs[node.def]])
      [] node.k = "DynamicRef" ->
            Planned(QueueChild(c, node.target), [k |-> "DynamicRef", target |-> node.target, anchor |-> node.anchor])
      [] node.k = "Unevaluated" ->
            LET queued == QueueAll(c, <<node.scope, node.unevaluated>>)
                rejects == IsNever(ir, node.unevaluated)
                keys == IF node.kind = "Properties" /\ rejects
                        THEN BuildFiniteEvaluatedKeyTrie(ir, queued, node.scope)
                        ELSE Planned(queued, {})
            IN  Planned(keys.c, [k |-> "Unevaluated", kind |-> node.kind, scope |-> node.scope, unevaluated |-> node.unevaluated,
                               rejects_unevaluated |-> rejects, finite_evaluated_keys |-> keys.plan])
      [] OTHER -> Planned(Refuse(c, "Unsupported"), NoPlan)

(* A node with a regular route keeps its automaton, unless it is too large and has a structured route too. *)
BuildRegularPlan(ir, c, node, compiled) ==
    CASE compiled.failed = Ok -> Planned(ChargeRetained(c, EngineSize), [k |-> "Regular", language |-> compiled.language])
      [] compiled.failed # Ok /\ ~(compiled.failed = "AutomatonLimit" /\ AutomatonLimitHasStructuredRoute(node)) ->
            Planned(Refuse(c, compiled.failed), NoPlan)
      [] OTHER -> BuildStructuredPlan(ir, c, node)

BuildNodePlan(ir, c, id) ==
    LET node == ir.nodes[id]
        decoded == NeedsDecodedStringSemantics(ir, id)
        bounded == node.k = "StringPattern" /\ node.max_len # {}
    IN  CASE decoded /\ node.k = "Enum" /\ AllStrings(node.values) -> BuildStringEnumPlan(c, {v.s : v \in node.values})
          [] decoded /\ node.k = "StringConst" -> BuildStringEnumPlan(c, {node.value})
          [] node.k = "Number" ->
                Planned(ChargeEngine(c, 64),
                      [k |-> "Number", integer_only |-> node.integer_only, minimum |-> node.minimum, maximum |-> node.maximum,
                       multiple_of |-> node.multiple_of])
          [] OTHER ->
                IF id \in c.regular /\ ~bounded
                THEN BuildRegularPlan(ir, Temporarily(c, RegexCompilePeak(64)), node, CompileNode(ir, id, c.options.max_engine))
                ELSE BuildStructuredPlan(ir, c, node)

----------------------------------------------------------------------------
(* References that come back to the same instance.  Every strongly         *)
(* connected component of them is replaced by its least solution.          *)

SameInstance(plan) ==
    CASE plan.k \in {"Ref", "DynamicRef"} -> <<plan.target>>
      [] plan.k = "Negation" -> <<plan.inner>>
      [] plan.k = "Combinator" -> plan.branches
      [] plan.k = "Object" -> plan.dependent_schemas
      [] plan.k = "Unevaluated" -> <<plan.scope>>
      [] OTHER -> <<>>

RECURSIVE SameInstanceReach(_, _, _)
SameInstanceReach(nodes, reached, work) ==
    LET next == UNION {ToSet(SameInstance(nodes[id])) : id \in work} \ reached
    IN  IF work = {} THEN reached ELSE SameInstanceReach(nodes, reached \cup next, next)

CyclicComponents(nodes) ==
    LET after == [id \in DOMAIN nodes |->
                    LET first == ToSet(SameInstance(nodes[id])) IN SameInstanceReach(nodes, first, first)]
    IN  {{m \in after[id] : id \in after[m]} : id \in {i \in DOMAIN nodes : i \in after[i]}}

AppendSyntheticNode(c, plan) ==
    LET id == Max(DOMAIN c.nodes \cup {c.node_count}) + 1
        charged == Charge(c, 1)
    IN  [c |-> [charged EXCEPT !.nodes = (id :> plan) @@ @], id |-> id]

EnsureNeverNode(c) ==
    LET made == AppendSyntheticNode(Charge(c, EngineSize), [k |-> "Regular", language |-> NeverLanguage])
    IN  IF c.never # {} THEN [c |-> c, id |-> The(c.never)] ELSE [c |-> [made.c EXCEPT !.never = {made.id}], id |-> made.id]

CombinedUncharged(c, kind, branches) ==
    AppendSyntheticNode(c, [k |-> "Combinator", kind |-> kind, branches |-> branches])

Combined(c, kind, branches) ==
    AppendSyntheticNode(Charge(c, Len(branches)), [k |-> "Combinator", kind |-> kind, branches |-> branches])

(* Every member becomes a reference to its solution, and its branches are released. *)
Resolve(c, component, TargetOf(_)) ==
    FoldSet(LAMBDA id, a :
                LET plan == a.nodes[id]
                    released == IF plan.k = "Combinator" THEN Len(plan.branches) ELSE 0
                IN  [a EXCEPT !.nodes[id] = [k |-> "Ref", target |-> TargetOf(id)], !.retained = @ - released],
            c, component)

(* One round of a mixed component: each member over the previous round's solutions. *)
MixedRound(c, members, previous) ==
    FoldLeft(LAMBDA a, id :
                LET plan == a.c.nodes[id]
                    children == SameInstance(plan)
                    resolved == [i \in DOMAIN children |->
                                    IF children[i] \in DOMAIN previous THEN previous[children[i]] ELSE children[i]]
                    made == Combined(a.c, plan.kind, resolved)
                IN  IF Len(resolved) = 1
                    THEN [a EXCEPT !.current = (id :> resolved[1]) @@ @]
                    ELSE [c |-> made.c, current |-> (id :> made.id) @@ a.current],
             [c |-> c, current |-> <<>>], members)

LowerMixedPositiveComponent(c, component) ==
    LET bottom == EnsureNeverNode(c)
        members == SetToSortSeq(component, <)
        rounds == FoldLeft(LAMBDA a, round : MixedRound(a.c, members, a.current),
                           [c |-> bottom.c, current |-> [id \in component |-> bottom.id]], members)
    IN  Resolve(rounds.c, component, LAMBDA id : rounds.current[id])

LowerPositiveComponent(c, component) ==
    LET kinds == {c.nodes[id].k : id \in component}
        combinators == {c.nodes[id].kind : id \in {i \in component : c.nodes[i].k = "Combinator"}}
        external == UNION {ToSet(SameInstance(c.nodes[id])) : id \in component} \ component
        union == Combined(c, "Any", SetToSortSeq(external, <))
        solved == IF "Any" \notin combinators \/ external = {} THEN EnsureNeverNode(c)
                  ELSE IF Cardinality(external) = 1 THEN [c |-> c, id |-> The(external)]
                  ELSE union
    IN  CASE c.failed # Ok -> c
          [] c.failed = Ok /\ ("ExactlyOne" \in combinators \/ kinds \cap {"Negation", "Object", "Unevaluated"} # {}) ->
                Refuse(c, "NonMonotoneRecursion")
          [] c.failed = Ok /\ ~("ExactlyOne" \in combinators \/ kinds \cap {"Negation", "Object", "Unevaluated"} # {})
                /\ {"Any", "All"} \subseteq combinators -> LowerMixedPositiveComponent(c, component)
          [] OTHER -> Resolve(solved.c, component, LAMBDA id : solved.id)

ResolveSameInstanceCycles(c) ==
    LET edges == FoldSet(LAMBDA id, n : n + Len(SameInstance(c.nodes[id])), 0, DOMAIN c.nodes)
        temporary == 9 * c.node_count + 1 + 2 * edges
    IN  IF c.retained + temporary > c.options.max_plan_bytes
        THEN Refuse(c, "PlanBytes")
        ELSE FoldSet(LAMBDA component, a : LowerPositiveComponent(a, component), c, CyclicComponents(c.nodes))

(* The object cursors that can read one key together: a node counts once for every way to it. *)
RECURSIVE KeyCursors(_, _)
KeyCursors(nodes, id) ==
    FoldLeft(LAMBDA n, child : n + KeyCursors(nodes, child), IF nodes[id].k = "Object" THEN 1 ELSE 0, SameInstance(nodes[id]))

MaxConcurrentKeyCursors(c, root) ==
    LET total == KeyCursors(c.nodes, root)
    IN  IF SameInstance(c.nodes[root]) # <<>> /\ total > c.options.max_active_validators
        THEN Refuse(c, "ActiveValidators")
        ELSE [c EXCEPT !.max_concurrent_key_cursors = total]

----------------------------------------------------------------------------
(* The compilation, up to the first node and after the last one. *)

StartBuild(ir, routes, options) ==
    LET count == Len(ir.nodes)
        annotation == IF HasKind(ir, "Unevaluated") THEN WordsFor(count) ELSE 0
        scratch == CompileScratchBytes(count) - count
        bindings == IF HasKind(ir, "DynamicRef") THEN DynamicBindings(ir) ELSE <<>>
        dynamic == IF HasKind(ir, "DynamicRef") THEN 2 * Len(ir.anchors) ELSE 0
        required == ComputeAnnotationRequired(ir, bindings)
        empty == [nodes |-> <<>>, node_count |-> count, worklist |-> <<ir.root>>, queued |-> {ir.root},
                  regular |-> ClassifyRegular(ir, routes, required), annotation_required |-> required,
                  bindings |-> bindings, retained |-> 0, scratch |-> scratch, temporary |-> 0, never |-> {},
                  max_concurrent_key_cursors |-> 0, options |-> options, failed |-> Ok]
        charged == Charge(Charge(Charge(empty, count), annotation), dynamic)
    IN  CASE ir.diagnostics # <<>> -> Refuse(empty, "Unsupported")
          [] ir.diagnostics = <<>> /\ count + scratch + annotation > options.max_plan_bytes -> Refuse(empty, "PlanBytes")
          [] OTHER -> QueueAll(charged, [i \in DOMAIN bindings |-> bindings[i].target])

PutPlan(id, built) == [built.c EXCEPT !.nodes = (id :> built.plan) @@ @]

BuildNext(ir, c) ==
    LET id == Last(c.worklist)
    IN  PutPlan(id, BuildNodePlan(ir, [c EXCEPT !.worklist = Front(@), !.temporary = 0], id))

CountKeyCursors(resolved, root) == IF resolved.failed # Ok THEN resolved ELSE MaxConcurrentKeyCursors(resolved, root)

ChargeNodes(counted, node_count) == Charge(counted, Max(DOMAIN counted.nodes \cup {node_count}))

FinishBuild(ir, c) ==
    ChargeNodes(CountKeyCursors(ResolveSameInstanceCycles(c), ir.root), c.node_count)

=============================================================================
