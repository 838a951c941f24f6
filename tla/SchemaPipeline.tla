--------------------------- MODULE SchemaPipeline ---------------------------
(***************************************************************************)
(* A schema on its way to a runtime: lowered into an arena, alone or with  *)
(* the resources it refers to, routed node by node, and planned by the     *)
(* worklist of the structured planner.                                     *)
(***************************************************************************)
EXTENDS SchemaPlan

CONSTANTS
    Inputs,      \* triples of a schema, the options it is compiled with and the name of its probes
    Instances    \* the JSON values the languages are compared on, by the name of the probes

VARIABLES
    stage,    \* "given", "discovered", "lowered", "routed", "planning", "planned", or "failed"
    schema,   \* the schema document
    options,  \* the compile options and limits
    probes,   \* the name of the values the languages are compared on
    graph,    \* the resource graph, once discovered
    ir,       \* the arena, once lowered
    routes,   \* the route of every node, once analysed
    build     \* the plan under construction

vars == <<stage, schema, options, probes, graph, ir, routes, build>>

NotYet == [failed |-> "none"]

Init ==
    /\ stage = "given"
    /\ \E input \in Inputs : schema = input[1] /\ options = input[2] /\ probes = input[3]
    /\ graph = NotYet
    /\ ir = NotYet
    /\ routes = <<>>
    /\ build = NotYet

(* schema_set_to_ir is given a registry; schema_to_ir makes one when the schema asks for it. *)
InGraph == options.set \/ (~PreflightUnsupported(schema) /\ NeedsResourceGraph(schema))

LowerSchema ==
    /\ stage = "given" /\ ~InGraph
    /\ ir' = IrFromAst(schema, options)
    /\ stage' = IF ir'.failed = Ok THEN "lowered" ELSE "failed"
    /\ UNCHANGED <<schema, options, probes, graph, routes, build>>

DiscoverResources ==
    /\ stage = "given" /\ InGraph
    /\ graph' = SchemaSetGraph(schema, options)
    /\ stage' = IF graph'.failed = Ok THEN "discovered" ELSE "failed"
    /\ UNCHANGED <<schema, options, probes, ir, routes, build>>

LowerGraph ==
    /\ stage = "discovered"
    /\ ir' = LowerResourceGraph(graph, schema, options.retrieval, options)
    /\ stage' = IF ir'.failed = Ok THEN "lowered" ELSE "failed"
    /\ UNCHANGED <<schema, options, probes, graph, routes, build>>

Route ==
    /\ stage = "lowered"
    /\ routes' = Analyze(ir)
    /\ stage' = "routed"
    /\ UNCHANGED <<schema, options, probes, graph, ir, build>>

StartPlan ==
    /\ stage = "routed"
    /\ build' = StartBuild(ir, routes, options)
    /\ stage' = IF build'.failed = Ok THEN "planning" ELSE "failed"
    /\ UNCHANGED <<schema, options, probes, graph, ir, routes>>

BuildNode ==
    /\ stage = "planning" /\ build.worklist # <<>>
    /\ build' = BuildNext(ir, build)
    /\ stage' = IF build'.failed = Ok THEN "planning" ELSE "failed"
    /\ UNCHANGED <<schema, options, probes, graph, ir, routes>>

FinishPlan ==
    /\ stage = "planning" /\ build.worklist = <<>>
    /\ build' = FinishBuild(ir, build)
    /\ stage' = IF build'.failed = Ok THEN "planned" ELSE "failed"
    /\ UNCHANGED <<schema, options, probes, graph, ir, routes>>

Next == LowerSchema \/ DiscoverResources \/ LowerGraph \/ Route \/ StartPlan \/ BuildNode \/ FinishPlan

Spec == Init /\ [][Next]_vars

----------------------------------------------------------------------------
(* What a plan accepts, every early refusal of the runtime included.  An   *)
(* automaton reports nothing it evaluated.                                 *)

KeyPermitted(plan, name) ==
    LET named == {p \in ToSet(plan.known) : p.name = name}
        found == {p \in ToSet(plan.patterns) : <<p.name, name>> \in Matches}
    IN  /\ \A p \in named \cup found : p.maybe_satisfiable
        /\ plan.additional.policy = "Forbid" /\ named = {} =>
                \E viable \in plan.viable_pattern :
                    /\ \E regex \in viable.live : <<regex, name>> \in Matches
                    /\ \A regex \in viable.never : <<regex, name>> \notin Matches

StringHolds(plan, text) ==
    /\ Within(Length[text], {plan.min_scalars}, plan.max_scalars)
    /\ \A regex \in plan.patterns : <<regex, text>> \in Matches
    /\ \A r \in plan.refused : IF r.literal THEN r.text # text ELSE <<r.text, text>> \notin Matches

NumberHolds(plan, number) ==
    /\ plan.integer_only => IsWhole(number)
    /\ \A m \in plan.minimum : IF m.exclusive THEN LessThan(m, number) ELSE ~LessThan(number, m)
    /\ \A m \in plan.maximum : IF m.exclusive THEN LessThan(number, m) ELSE ~LessThan(m, number)
    /\ \A m \in plan.multiple_of : MultipleOf(number, m)

(* An appended node belongs to the resource of the root. *)
ResourceOf(id) == ir.owner[IF id \in DOMAIN ir.owner THEN id ELSE ir.root]

RECURSIVE Runs(_, _, _, _)
Runs(nodes, id, value, outer) ==
    LET plan == nodes[id]
        scope == EnteredScope(outer, ResourceOf(id))
        HereAt(sub) == Runs(nodes, sub, value, scope)
        ChildAt(sub, inner) == Runs(nodes, sub, inner, scope).ok
        bound == {i \in DOMAIN scope : \E b \in ToSet(build.bindings) : b.resource = scope[i] /\ b.name = ir.anchors[plan.anchor].name}
        binding == {b \in ToSet(build.bindings) : b.resource = scope[Min(bound)] /\ b.name = ir.anchors[plan.anchor].name}
        Permits(policy, inner) ==
            CASE policy.policy \in {"Forbid", "Never"} -> FALSE
              [] policy.policy = "Schema" -> ChildAt(The(policy.schema), inner)
              [] OTHER -> TRUE
        branches == {HereAt(plan.branches[i]) : i \in DOMAIN plan.branches}
        one == {i \in DOMAIN plan.branches : HereAt(plan.branches[i]).ok}
    IN  CASE plan.k = "Regular" -> Verdict(InLanguage(plan.language, value), {}, {})
          [] plan.k = "Number" -> Verdict(value.t = "Num" /\ NumberHolds(plan, Fraction(value)), {}, {})
          [] plan.k = "String" -> Verdict(value.t = "Str" /\ StringHolds(plan, value.s), {}, {})
          [] plan.k = "StringEnum" -> Verdict(value.t = "Str" /\ value.s \in plan.members, {}, {})
          [] plan.k = "Ref" -> HereAt(plan.target)
          [] plan.k = "DynamicRef" -> HereAt(IF bound = {} THEN plan.target ELSE The(binding).target)
          [] plan.k = "Negation" -> Verdict(~HereAt(plan.inner).ok, {}, {})
          [] plan.k = "Combinator" ->
                CASE plan.kind = "All" -> Every(branches)
                  [] plan.kind = "Any" -> Some(branches)
                  [] OTHER -> IF Cardinality(one) = 1 THEN HereAt(plan.branches[The(one)]) ELSE Refuses
          [] plan.k = "Array" /\ value.t = "Arr" ->
                LET items == value.items
                    contained == UNION {{i \in DOMAIN items : Permits(c.on, items[i])} : c \in plan.contains}
                    rest == {i \in DOMAIN items : i > Len(plan.prefix)}
                IN  Verdict(/\ \A i \in DOMAIN items : i <= Len(plan.prefix) => ChildAt(plan.prefix[i], items[i])
                            /\ \A i \in rest : Permits(plan.tail, items[i])
                            /\ Within(Len(items), {plan.min_items}, plan.max_items)
                            /\ plan.unique => UniqueItems(value) /\ Within(Len(items), {}, plan.finite_unique_capacity)
                            /\ \A c \in plan.contains : Within(Cardinality(contained), {c.min}, c.max),
                            {}, contained \cup ((DOMAIN items) \ rest) \cup (IF plan.annotates THEN rest ELSE {}))
          [] plan.k = "Object" /\ value.t = "Obj" ->
                LET names == NameSet(value)
                    known == {i \in DOMAIN plan.known : plan.known[i].name \in names}
                    matched == {<<i, name>> \in (DOMAIN plan.patterns) \X names : <<plan.patterns[i].name, name>> \in Matches}
                    others == names \ ({plan.known[i].name : i \in known} \cup {m[2] : m \in matched})
                    started == {d \in ToSet(plan.dependent_by_name) : d[1] \in names}
                    also == Every({HereAt(d[2]) : d \in started})
                IN  Verdict(/\ \A name \in names : KeyPermitted(plan, name)
                            /\ \A i \in known : ChildAt(plan.known[i].value, Member(value, plan.known[i].name))
                            /\ plan.required \subseteq known
                            /\ \A m \in matched : ChildAt(plan.patterns[m[1]].value, Member(value, m[2]))
                            /\ \A name \in others : Permits(plan.additional, Member(value, name))
                            /\ \A s \in plan.property_names : \A name \in names : ChildAt(s, [t |-> "Str", s |-> name])
                            /\ Within(Cardinality(names), plan.min_properties, plan.max_properties)
                            /\ \A rule \in plan.dependent_required : rule.trigger \in names => rule.required \subseteq names
                            /\ \A d \in started : d[2] \in ToSet(plan.dependent_schemas)
                            /\ also.ok,
                            also.props \cup {plan.known[i].name : i \in known} \cup {m[2] : m \in matched}
                                \cup (IF plan.additional.policy = "Open" THEN {} ELSE others), {})
          [] plan.k = "Unevaluated" ->
                LET below == HereAt(plan.scope)
                    names == IF value.t = "Obj" THEN NameSet(value) ELSE {}
                    items == IF value.t = "Arr" THEN value.items ELSE <<>>
                    Evaluable(name) == \A keys \in plan.finite_evaluated_keys :
                                            name \in keys.names \/ \E regex \in keys.patterns : <<regex, name>> \in Matches
                IN  IF plan.kind = "Properties"
                    THEN Verdict(/\ below.ok /\ \A name \in names : Evaluable(name)
                                 /\ \A n \in names \ below.props :
                                        ~plan.rejects_unevaluated /\ ChildAt(plan.unevaluated, Member(value, n)),
                                 below.props \cup names, below.items)
                    ELSE Verdict(/\ below.ok
                                 /\ \A i \in (DOMAIN items) \ below.items :
                                        ~plan.rejects_unevaluated /\ ChildAt(plan.unevaluated, items[i]),
                                 below.props, below.items \cup DOMAIN items)
          [] OTHER -> Refuses

PlanAccepts(value) == Runs(build.nodes, ir.root, value, <<>>).ok

----------------------------------------------------------------------------
(* Properties. *)

ProbeValues == ToSet(Instances[probes])

(* The frontend keeps the meaning: an arena without diagnostics accepts a value exactly when the *)
(* draft does, whatever slot, shared node, inlined reference, resource or dynamic anchor the     *)
(* lowering went through (schema_to_ir, schema_set_to_ir and the lower_* functions).             *)
LoweringKeepsMeaning ==
    stage = "lowered" /\ ir.diagnostics = <<>> /\ options.object_closure = "AllowOpen" =>
        \A env \in {DraftEnv(schema, options.retrieval, options.documents)} :
            \A value \in ProbeValues : ArenaAccepts(ir, value) = DraftAccepts(env, value)

(* The planner keeps the meaning: an automaton, an early refusal and a rewritten cycle decide as *)
(* the node they stand for (StructuredPlan::compile and compile_ir).                             *)
PlanKeepsMeaning ==
    stage = "planned" => \A value \in ProbeValues : PlanAccepts(value) = ArenaAccepts(ir, value)

(* What one planned node keeps beyond its slot in the table. *)
NodeBytes(plan) ==
    CASE plan.k \in {"Regular", "Number"} -> EngineSize
      [] plan.k = "String" -> IF plan.patterns = {} /\ plan.refused = {} THEN 0 ELSE EngineSize
      [] plan.k = "StringEnum" -> Cardinality(plan.members) + 1 + SumBytes(SetToSeq(plan.members))
      [] plan.k = "Combinator" -> Len(plan.branches)
      [] plan.k = "Array" -> Len(plan.prefix)
      [] plan.k = "Unevaluated" -> SumSet({KeyTrieBytes(trie) : trie \in plan.finite_evaluated_keys})
      [] plan.k = "Object" ->
            LET known == {p.name : p \in ToSet(plan.known)}
                rules == plan.dependent_required
                named == {r.trigger : r \in rules} \cup UNION {r.required : r \in rules}
                pairs == FoldSet(LAMBDA r, n : n + Cardinality(r.required), 0, rules)
            IN  2 * Cardinality(known) + WordsFor(Cardinality(known)) + (1 + EngineSize) * Len(plan.patterns)
                    + SumBytes(SetToSeq(known) \o FirstOf(plan.dependent_by_name) \o SetToSeq(named))
                    + EngineSize * Cardinality(plan.viable_pattern) + Len(plan.dependent_by_name)
                    + Len(plan.dependent_schemas) + 3 * pairs + Cardinality(rules)
      [] OTHER -> 0

(* Every byte the plan keeps is charged exactly once and every byte it gives up is released,     *)
(* through the rewriting of the cycles: the retained count is what the tables and the nodes hold *)
(* (charge, charge_retained and the release of lower_positive_component).                        *)
RetainedMatchesPlan ==
    stage \in {"planning", "planned"} =>
        LET count == build.node_count
            appended == {id \in DOMAIN build.nodes : id > count}
            tables == count + (IF HasKind(ir, "Unevaluated") THEN WordsFor(count) ELSE 0)
                        + (IF HasKind(ir, "DynamicRef") THEN 2 * Len(ir.anchors) ELSE 0)
                        + (IF stage = "planned" THEN count + Cardinality(appended) ELSE 0)
        IN  build.retained = tables + Cardinality(appended)
                                + FoldSet(LAMBDA id, n : n + NodeBytes(build.nodes[id]), 0, DOMAIN build.nodes)

(* The router never promises an automaton that cannot be built: an arena without diagnostics is  *)
(* refused by a limit or by a recursion without a least solution, never as unsupported           *)
(* (routing::analyze against compile_node and build_node_plan).                                  *)
RefusedOnlyByLimits ==
    stage = "failed" /\ ir.failed = Ok /\ ir.diagnostics = <<>> =>
        build.failed \in {"PlanBytes", "ActiveValidators", "AutomatonLimit", "NonMonotoneRecursion"}

=============================================================================
