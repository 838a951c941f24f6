-------------------------- MODULE ReferenceMatcher --------------------------
(***************************************************************************)
(* The matcher of the reference backend (structured/reference.rs): the     *)
(* text so far, a token at a time.  It keeps nothing else, so that every   *)
(* call parses the whole text again; the streaming matcher is compared     *)
(* with it by the repository's tests, and here it is compared with what    *)
(* the schema asks of a document.                                          *)
(***************************************************************************)
EXTENDS ReferenceBackend

CONSTANTS
    RefRoots,           \* the roots of the schemas to try
    RefVocabularyOf,    \* root -> the tokens tried with it
    RefLimits,          \* limit sets: max_document_bytes and max_mask_work
    RefCompletions,     \* the texts tried as the rest of a document
    MaxBuffer           \* root -> the longest text that is extended (bound of the model)

VARIABLES
    root,       \* the schema of this matcher
    limits,     \* its limits
    buffer      \* the text so far

vars == <<root, limits, buffer>>

TypeOK ==
    /\ root \in RefRoots
    /\ limits \in RefLimits
    /\ Len(buffer) <= limits.max_document_bytes

Init ==
    /\ root \in RefRoots
    /\ limits \in RefLimits
    /\ buffer = <<>>

Viable(t) == Accepts(root, t) \/ CanContinue(root, t)

IsAccepting == Accepts(root, buffer)

(* try_advance: what a call with this token answers and leaves. *)
Advance(token) ==
    LET required == Len(buffer) + Len(token)
        text == buffer \o token
    IN CASE token = <<>> -> [out |-> "Refused", buffer |-> buffer]
         [] token # <<>> /\ required > limits.max_document_bytes -> [out |-> "Error", buffer |-> buffer]
         [] token # <<>> /\ required <= limits.max_document_bytes ->
               IF Viable(text) THEN [out |-> "Applied", buffer |-> text] ELSE [out |-> "Refused", buffer |-> buffer]

TryAdvance(token) ==
    /\ Len(buffer) <= MaxBuffer[root]
    /\ buffer' = Advance(token).buffer
    /\ UNCHANGED <<root, limits>>

(* allowed_mask_from_records: every token is tried, or the call fails. *)
MaskWork == MapThenSumSet(LAMBDA token : Len(token) + 1, RefVocabularyOf[root])

Mask ==
    LET tokens == RefVocabularyOf[root]
    IN CASE root \in Diagnosed -> [out |-> "Ok", tokens |-> {}]
         [] root \notin Diagnosed ->
            IF \/ MaskWork > limits.max_mask_work
               \/ \E token \in tokens : Len(buffer) + Len(token) > limits.max_document_bytes
            THEN [out |-> "Error", tokens |-> {}]
            ELSE [out |-> "Ok", tokens |-> {token \in tokens : Viable(buffer \o token)}]

Next == \E token \in RefVocabularyOf[root] \cup {<<>>} : TryAdvance(token)

Spec == Init /\ [][Next]_vars

----------------------------------------------------------------------------
(* What each node of the IR asks of a value, as the schemas of JsonDocument.
   A rule is a policy and, for some, a schema. *)
AsRule(rule, any, none) ==
    CASE rule.policy = "Schema" -> rule.schema
      [] rule.policy \in {"AllowAny", "Open"} -> any
      [] rule.policy \in {"None", "Forbid"} -> none

AsArray(node) ==
    [kind |-> "Array", prefix |-> IF node.kind = "Tuple" THEN node.prefix ELSE <<>>,
     tail |-> AsRule(IF node.kind = "Tuple" THEN node.tail ELSE node.items, "AnyJson", "Closed"),
     min_items |-> node.min_items, max_items |-> node.max_items, unique_items |-> node.unique_items,
     tail_annotates |-> IF node.kind = "Tuple" THEN node.tail_annotates ELSE node.items_annotates,
     contains |-> {[matches |-> IF rule.policy = "Schema" THEN rule.schema ELSE rule.policy, min |-> rule.min,
                    max |-> rule.max] : rule \in node.contains}]

AsEngine(names) ==
    LET prefixes == UNION {{SubSeq(name, 1, k) : k \in 0 .. Len(name)} : name \in names}
        steps == {<<p, s>> \in prefixes \X prefixes : s # <<>> /\ Front(s) = p}
        Moves == {<<step[1], Last(step[2])>> : step \in steps}
    IN [start |-> <<>>, accept |-> names, next |-> [move \in Moves |-> Append(move[1], move[2])]]

AsObject(node) ==
    LET names == {node.known[k][1] : k \in DOMAIN node.known}
        Index(name) == CHOOSE k \in DOMAIN node.known : node.known[k][1] = name
    IN [kind |-> "Object", known |-> [name \in names |-> node.known[Index(name)][2]],
        required |-> {node.known[k][1] : k \in node.known_required},
        additional |-> AsRule(node.additional, IF node.additional.policy = "Open" THEN "Open" ELSE "AllowAny", "Forbid"),
        patterns |-> [k \in DOMAIN node.patterns |->
                        [engine |-> AsEngine(node.patterns[k][1]), value |-> node.patterns[k][2], satisfiable |-> TRUE]],
        property_names |-> node.property_names,
        min_properties |-> node.min_properties, max_properties |-> node.max_properties,
        dependent_required |-> [name \in {p[1] : p \in node.dependent_required} |->
                                    {p[2] : p \in {q \in node.dependent_required : q[1] = name}}],
        dependent_schemas |-> [k \in DOMAIN node.dependent |-> node.dependent[k][2]],
        dependent_by_name |-> [name \in {p[1] : p \in ToSet(node.dependent)} |->
                                    CHOOSE k \in DOMAIN node.dependent : node.dependent[k][1] = name]]

AsString(node) ==
    CASE node.kind = "Enum" -> [kind |-> "StringEnum", members |-> node.values]
      [] Counted(node) -> [kind |-> "String", min_scalars |-> node.min_len, max_scalars |-> node.max_len, pattern |-> {}]
      [] node.kind = "StringPattern" /\ ~Counted(node) -> [kind |-> "StringEnum", members |-> node.regex]

AsSchema(id) ==
    LET node == Ir[id]
    IN CASE id \in DOMAIN Engine -> Engine[id] @@ [kind |-> "Regular"]
         [] id \notin DOMAIN Engine ->
            CASE node.kind \in {"Array", "Tuple"} -> AsArray(node)
              [] node.kind \in {"Object", "OpenObject"} -> AsObject(AsOpen(node))
              [] node.kind \in {"Union", "Intersection", "ExactlyOne"} ->
                    [kind |-> "Combinator", branches |-> node.branches,
                     op |-> CASE node.kind = "Union" -> "Any" [] node.kind = "Intersection" -> "All"
                              [] node.kind = "ExactlyOne" -> "ExactlyOne"]
              [] node.kind = "Not" -> [kind |-> "Negation", inner |-> node.inner]
              [] node.kind = "Unevaluated" ->
                    [kind |-> "Unevaluated", of |-> IF node.of = "Properties" THEN "Object" ELSE "Array",
                     scope |-> node.scope, unevaluated |-> node.unevaluated, rejects_unevaluated |-> IsNever(node.unevaluated)]
              [] node.kind \in {"StringPattern", "Enum"} -> AsString(node)
              [] node.kind \in {"Number", "Ref", "DynamicRef"} -> node
              [] node.kind \in Unmatched -> [kind |-> "Unsupported"]

Document ==
    INSTANCE JsonDocument WITH Blank <- WS, EscapeOf <- Escapes, Schemas <- [id \in DOMAIN Ir |-> AsSchema(id)],
                               ResourceAt <- IrResource, Anchors <- IrAnchors

(* The tokens that a mask refuses. *)
Lost(tokens, mask) == IF mask.out = "Ok" THEN tokens \ mask.tokens ELSE {}

Satisfies(t) == root \notin Diagnosed /\ Document!Satisfies(root, t)

----------------------------------------------------------------------------
(* is_accepting is exactly what the schema says of the text (accepts): the
   descent by spans, the pairwise uniqueness, the evaluated members and the
   dynamic scope of the oracle agree with the keywords. *)
OracleIsExact == IsAccepting <=> Satisfies(buffer)

(* A token that some continuation completes keeps its bit in the mask
   (allowed_mask_from_records, can_continue): the reading of a prefix never
   gives up a document the schema allows. *)
OracleKeepsCompletable ==
    \A token \in Lost(RefVocabularyOf[root], Mask) :
        \A rest \in RefCompletions : ~Satisfies(buffer \o token \o rest)
=============================================================================
