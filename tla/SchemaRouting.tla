---------------------------- MODULE SchemaRouting ----------------------------
(***************************************************************************)
(* Which nodes of a finished arena are compiled to one byte automaton and  *)
(* which are executed structurally, by a bounded estimate of the           *)
(* automaton's size.                                                       *)
(*                                                                         *)
(* A bound is {n}, or {} once the value exceeds its cap.                   *)
(***************************************************************************)
EXTENDS SchemaLowering

CONSTANTS
    StateCap, CellCap, ProductCellCap, ShuffleCellCap, MemoryCap,   \* the caps of the estimate
    MaxSafeShuffleFields, MaxUnrolledCodepointLen, MaxUnrolledArrayItems, MaxUnrolledEnum,
    Bytes                                                           \* the bytes of a string or of a regex

ASSUME CapAssumption == {StateCap, CellCap, ProductCellCap, ShuffleCellCap, MemoryCap} \subseteq Nat \ {0}

ExceedsLimit == {}

AddBound(a, b, cap) == {m + n : m \in {i \in a : i <= cap}, n \in {j \in b : \A i \in a : i <= cap /\ j <= cap - i}}

MulBound(a, b, cap) == {m * n : m \in a, n \in {j \in b : \A i \in a : j = 0 \/ i <= cap \div j}}

Pow2Bound(n, cap) == IF n > 30 THEN ExceedsLimit ELSE {p \in {2 ^ n} : p <= cap}

RegularEstimate(states, cells) ==
    LET retained == AddBound(MulBound(states, {64}, MemoryCap), MulBound(cells, {8}, MemoryCap), MemoryCap)
    IN  [states |-> states, cells |-> cells, retained |-> retained,
         peak |-> AddBound(retained, MulBound(states, {96}, MemoryCap), MemoryCap)]

(* A counted string too long to unroll, a string that runs a user's regex, an enum matched by search. *)
IsUnrolledCodepointString(node) ==
    /\ node.k = "StringPattern" /\ node.charset = "Utf8CountedCodepoints" /\ node.regex = CodePoint
    /\ \E n \in node.min_len \cup node.max_len : n > MaxUnrolledCodepointLen

IsUserPattern(node) == node.k = "StringPattern" /\ node.charset = "Utf8Any" /\ node.regex # AnyBody

AllStrings(values) == \A v \in values : v.t = "Str"

IsLargeStringEnum(node) == node.k = "Enum" /\ Cardinality(node.values) > MaxUnrolledEnum /\ AllStrings(node.values)

----------------------------------------------------------------------------
(* Every edge of the graph, references included, in the order they are visited. *)

ForEachChild(ir, node) ==
    LET counted == SetToSeq(Contained(node))
    IN  CASE node.k = "Object" -> SecondOf(node.fields) \o SecondOf(node.dependent)
          [] node.k = "OpenObject" ->
                SecondOf(node.fields) \o SecondOf(node.patterns) \o SetToSeq(Target(node.additional))
                    \o SetToSeq(node.property_names) \o SecondOf(node.dependent)
          [] node.k = "Array" -> SetToSeq(Target(node.items)) \o counted
          [] node.k = "Tuple" -> node.prefix \o SetToSeq(node.tail) \o counted
          [] node.k \in {"Union", "Intersection", "ExactlyOne"} -> node.branches
          [] node.k = "Not" -> <<node.inner>>
          [] node.k = "Ref" -> <<ir.defs[node.def]>>
          [] node.k = "DynamicRef" -> <<node.target>>
          [] node.k = "Unevaluated" -> <<node.scope, node.unevaluated>>
          [] OTHER -> <<>>

LiteralBytes(values) ==
    FoldSet(LAMBDA v, total : AddBound(total, {1 + IF v.t = "Str" THEN Bytes[v.s] ELSE 16}, StateCap), {1}, values)

(* The states a field adds to the shuffle of a closed object. *)
RECURSIVE ShuffleChildStates(_, _)
ShuffleChildStates(ir, id) ==
    LET node == ir.nodes[id]
        Sum(from, ids) == FoldLeft(LAMBDA total, i : AddBound(total, ShuffleChildStates(ir, i), StateCap), from, ids)
        Worst(p, q) == IF p = ExceedsLimit \/ q = ExceedsLimit THEN ExceedsLimit ELSE IF The(p) > The(q) THEN p ELSE q
    IN  CASE node.k = "StringPattern" ->
                IF node.max_len = {}
                THEN {512}
                ELSE AddBound(MulBound(node.max_len, {IF Bytes[node.regex] <= 8 THEN 8 ELSE 96}, StateCap), {16}, StateCap)
          [] node.k = "Union" ->
                FoldLeft(LAMBDA worst, i : Worst(worst, ShuffleChildStates(ir, i)), {0}, node.branches)
          [] node.k = "Enum" -> MulBound(LiteralBytes(node.values), {8}, StateCap)
          [] node.k \in {"Boolean", "Null", "Never"} -> {1}
          [] node.k \in {"Integer", "Number"} -> {512}
          [] node.k = "Array" /\ Target(node.items) # {} ->
                AddBound(ShuffleChildStates(ir, The(Target(node.items))), {32}, StateCap)
          [] node.k = "Tuple" -> Sum(Sum({32}, node.prefix), SetToSeq(node.tail))
          [] node.k = "LexicalNumber" -> {Bytes["LexicalNumber"]}
          [] OTHER -> {2048}

(* The states of a node's automaton, from the estimates of its resolved children. *)
RegularStates(ir, node, children) ==
    LET first == IF children = <<>> THEN {1} ELSE children[1].regular.states
    IN  CASE node.k = "Union" ->
                FoldLeft(LAMBDA total, child : AddBound(total, child.regular.states, StateCap), {1}, children)
          [] node.k \in {"Intersection", "ExactlyOne"} ->
                FoldLeft(LAMBDA total, child : MulBound(total, child.regular.states, StateCap), {1}, children)
          [] node.k = "StringPattern" ->
                CASE node.max_len # {} /\ node.charset = "Utf8CountedCodepoints" ->
                        AddBound(MulBound(node.max_len, {8}, StateCap), {16}, StateCap)
                  [] node.max_len = {} -> {64}
                  [] OTHER -> {32}
          [] node.k = "LexicalNumber" -> AddBound({Bytes["LexicalNumber"]}, {16}, StateCap)
          [] node.k = "Object" ->
                LET n == Len(node.fields)
                    sum == FoldLeft(LAMBDA total, f : AddBound(total, ShuffleChildStates(ir, f[2]), StateCap), {0}, node.fields)
                IN  AddBound(Pow2Bound(n, StateCap), MulBound(Pow2Bound(n - 1, StateCap), sum, StateCap), StateCap)
          [] node.k \in {"Array", "Tuple"} ->
                IF node.max_items = {}
                THEN AddBound(first, {16}, StateCap)
                ELSE AddBound({1}, MulBound(node.max_items, first, StateCap), StateCap)
          [] node.k = "Enum" -> LiteralBytes(node.values)
          [] OTHER -> {32}

CostOfStates(node, states) ==
    LET product == node.k \in {"Intersection", "ExactlyOne"}
        shuffle == node.k = "Object"
        cells == CASE product -> MulBound(states, {256}, ProductCellCap)
                   [] shuffle -> MulBound(states, {256}, ShuffleCellCap)
                   [] OTHER -> MulBound(states, {64}, CellCap)
        reason == CASE states # ExceedsLimit /\ cells # ExceedsLimit -> "CheapRegular"
                    [] product -> "ProductCost"
                    [] shuffle -> "ShuffleCost"
                    [] OTHER -> "AutomatonMemory"
        members == AddBound({Cardinality(node.values)}, {1}, StateCap)
    IN  CASE IsLargeStringEnum(node) ->
                [regular |-> RegularEstimate(members, MulBound(members, {1}, CellCap)), reason |-> "CheapRegular"]
          [] shuffle /\ node.fields = <<>> -> [regular |-> RegularEstimate({1}, {64}), reason |-> "CheapRegular"]
          [] OTHER -> [regular |-> RegularEstimate(states, cells), reason |-> reason]

RegularCost(ir, node, children) == CostOfStates(node, RegularStates(ir, node, children))

CombinatorHasExpensiveBranch(ir, branches) ==
    \E i \in DOMAIN branches :
        LET node == ir.nodes[branches[i]]
        IN  CASE node.k = "Integer" -> node.divisor # {}
              [] node.k = "Number" -> node.multiple_of # {}
              [] node.k \in {"Object", "OpenObject"} -> Len(node.fields) >= 2
              [] node.k \in {"Array", "Tuple"} -> node.max_items = {} \/ The(node.max_items) > 5
              [] OTHER -> IsLargeStringEnum(node)

(* The reason a node is structured whatever its children are, or none. *)
LocalStructuredReason(ir, node, regular) ==
    LET unbounded == regular.states = ExceedsLimit \/ regular.cells = ExceedsLimit
        long == \E n \in {node.min_items} \cup node.max_items : n > MaxUnrolledArrayItems
    IN  CASE node.k = "OpenObject" -> {"OpenObject"}
          [] node.k = "StringPattern" /\ IsUserPattern(node) -> {"UserPattern"}
          [] node.k = "StringPattern" /\ ~IsUserPattern(node) /\ IsUnrolledCodepointString(node) -> {"RepetitionCost"}
          [] node.k = "Object" ->
                CASE node.dependent # <<>> \/ node.dependent_required # {} -> {"EvaluationAnnotations"}
                  [] node.dependent = <<>> /\ node.dependent_required = {}
                        /\ (Len(node.fields) > MaxSafeShuffleFields \/ unbounded) -> {"ShuffleCost"}
                  [] OTHER -> {}
          [] node.k \in {"Array", "Tuple"} ->
                IF node.unique \/ node.contains # {} \/ (node.k = "Array" /\ Target(node.items) = {})
                THEN {"StructuredOnlySemantics"}
                ELSE IF long \/ regular.states = ExceedsLimit THEN {"RepetitionCost"} ELSE {}
          [] node.k \in {"Intersection", "ExactlyOne"} /\ (CombinatorHasExpensiveBranch(ir, node.branches) \/ unbounded) ->
                {"ProductCost"}
          [] node.k = "Number" /\ (node.integer_only \/ node.minimum # {} \/ node.maximum # {} \/ node.multiple_of # {}) ->
                {"StructuredOnlySemantics"}
          [] node.k \in {"Not", "Unsupported"} -> {"StructuredOnlySemantics"}
          [] node.k \in {"Ref", "DynamicRef"} -> {"DynamicReference"}
          [] node.k = "Unevaluated" -> {"EvaluationAnnotations"}
          [] OTHER -> IF regular.retained = ExceedsLimit \/ regular.peak = ExceedsLimit THEN {"AutomatonMemory"} ELSE {}

(* The route of a node, from the routes its children have by then. *)
RouteOf(local, unresolved, child_routes, cost) ==
    LET KindOf(i) == child_routes[i].kind
        other == {i \in DOMAIN child_routes : KindOf(i) # "Regular"}
        Route(kind, reason) == [kind |-> kind, reason |-> reason, regular |-> cost.regular]
    IN  CASE local # {} ->
                Route(IF \E i \in DOMAIN child_routes : KindOf(i) = "Regular" THEN "Hybrid" ELSE "Structured", The(local))
          [] local = {} /\ unresolved -> Route("Hybrid", "DynamicReference")
          [] local = {} /\ ~unresolved /\ other # {} ->
                Route("Hybrid", child_routes[CHOOSE i \in other : \A j \in other : i <= j].reason)
          [] OTHER -> Route(IF cost.reason # "CheapRegular" THEN "Hybrid" ELSE "Regular", cost.reason)

RouteAtCost(ir, node, unresolved, child_routes, cost) ==
    RouteOf(LocalStructuredReason(ir, node, cost.regular), unresolved, child_routes, cost)

EstimateNode(ir, routes, id) ==
    LET node == ir.nodes[id]
        children == ForEachChild(ir, node)
        resolved == SelectSeq(children, LAMBDA child : child \in DOMAIN routes)
        child_routes == [i \in DOMAIN resolved |-> routes[resolved[i]]]
    IN  RouteAtCost(ir, node, Len(resolved) # Len(children), child_routes, RegularCost(ir, node, child_routes))

(* Depth first from every node in turn, the last child first; a node on the way has no route yet. *)
RECURSIVE Visit(_, _, _)
Visit(ir, acc, id) ==
    LET below == FoldLeft(LAMBDA a, child : Visit(ir, a, child), [acc EXCEPT !.visited = @ \cup {id}],
                          Reverse(ForEachChild(ir, ir.nodes[id])))
    IN  IF id \in acc.visited
        THEN acc
        ELSE [below EXCEPT !.routes = (id :> EstimateNode(ir, below.routes, id)) @@ @]

Analyze(ir) ==
    FoldLeft(LAMBDA acc, id : Visit(ir, acc, id), [visited |-> {}, routes |-> <<>>], [i \in DOMAIN ir.nodes |-> i]).routes

=============================================================================
