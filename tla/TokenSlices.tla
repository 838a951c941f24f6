---------------------------- MODULE TokenSlices ----------------------------
(***************************************************************************)
(* Slices of the vocabulary (index/slice.rs) and when a mask may take one  *)
(* whole (structured/state.rs, structured/matcher.rs).                     *)
(*                                                                         *)
(* Inside a string most tokens neither end it nor escape anything, and the *)
(* position admits all of them or none.  Such safe tokens are set in the   *)
(* mask at once when a certificate shows that none of them crosses a       *)
(* boundary of the state, and when every automaton that reads the string   *)
(* is proved to stay alive on them; the rest of the vocabulary is walked.  *)
(*                                                                         *)
(* A mask is a set of tokens and a trie the set of its nodes, each node    *)
(* the bytes that lead to it.  The sizes of buffers are left out, and with *)
(* them what is reserved ahead of the walk.                                *)
(***************************************************************************)
EXTENDS StructuredState

CONSTANTS
    Roots,          \* the root schemas tried
    VocabularyOf,   \* root -> its tokens: non-empty sequences of bytes
    ByteOrder,      \* the bytes of the vocabulary in trie order
    CatalogBudget,  \* MAX_CATALOG_BYTES
    MaxBoundedLen,  \* MAX_BOUNDED_LEN: the longest tokens the length tables know
    NeutralCapacity,\* CAPACITY of neutral_language_subsumes
    MaxProofDepth   \* the length of ProofContext::visited

ASSUME VocabularyAssumption ==
    \A root \in Roots : \A token \in VocabularyOf[root] : token # <<>> /\ ToSet(token) \subseteq ToSet(ByteOrder)

ASSUME SliceAssumption == MaxBoundedLen \in Nat \ {0} /\ NeutralCapacity \in Nat \ {0}

----------------------------------------------------------------------------
(* The catalog of a vocabulary. *)

(* safe_scalar_count is Some: the token neither ends a string nor escapes.
   Every byte is a scalar here, so the count is the token's length. *)
IsSafe(token) == ToSet(token) \cap {"\"", "\\"} = {}

(* body_class: what a token does to a string that is open at a boundary. *)
RECURSIVE BodyClassFrom(_, _)
BodyClassFrom(decoder, bytes) ==
    CASE bytes = <<>> -> "Prefix"
      [] bytes # <<>> /\ decoder = "None" /\ bytes[1] = "\"" -> "Boundary"
      [] bytes # <<>> /\ ~(decoder = "None" /\ bytes[1] = "\"") ->
            IF Decode(decoder, bytes[1]).ok
            THEN BodyClassFrom(Decode(decoder, bytes[1]).decoder, Tail(bytes)) ELSE "Invalid"

BodyClass(token) == BodyClassFrom("None", token)

Longest(tokens) == Max({Len(token) : token \in tokens} \cup {0})

(* estimated_build_bytes, with one id for each token and without the size   *)
(* of the catalog record itself.                                            *)
Words(tokens) == (Cardinality(tokens) + 63) \div 64

TotalBytes(tokens) == FoldSet(LAMBDA token, sum : sum + Len(token), 0, tokens)

EstimatedBuildBytes(tokens) ==
    LET unsafe == {token \in tokens : ~IsSafe(token)}
        long == {token \in tokens : IsSafe(token) /\ Len(token) > MaxBoundedLen}
    IN 24 * TotalBytes(tokens) + 8 * Cardinality(tokens) + 8 * Words(tokens) + 7 * 16
        + 24 * TotalBytes(long) + 8 * Cardinality(long)
        + 48 * TotalBytes(unsafe) + 16 * Cardinality(unsafe) + 8 * Words(tokens)
        + 2 * MaxBoundedLen * (8 * Words(tokens) + 16)

(* try_build_with_budget: the tokens of each slice. *)
Slices(tokens) ==
    [all |-> tokens,
     safe |-> {token \in tokens : IsSafe(token)},
     uncertain |-> {token \in tokens : ~IsSafe(token)},
     body_extra |-> {token \in tokens : ~IsSafe(token) /\ BodyClass(token) = "Prefix"},
     body_uncertain |-> {token \in tokens : BodyClass(token) # "Prefix"},
     body_boundary |-> {token \in tokens : BodyClass(token) = "Boundary"},
     body_invalid |-> {token \in tokens : BodyClass(token) = "Invalid"},
     scalar_overflow |-> {token \in tokens : IsSafe(token) /\ Len(token) > MaxBoundedLen}]

TrieOf(tokens) == UNION {Prefixes(token) : token \in tokens} \cup {<<>>}

(* A vocabulary whose catalog would be too large has none. *)
NewCatalog(tokens, slices) ==
    [built |-> EstimatedBuildBytes(tokens) <= CatalogBudget, slices |-> slices,
     tries |-> [name \in DOMAIN slices |-> TrieOf(slices[name])]]

CatalogOf == [r \in Roots |-> NewCatalog(VocabularyOf[r], Slices(VocabularyOf[r]))]

Children(trie, node) == SelectSeq(ByteOrder, LAMBDA byte : Append(node, byte) \in trie)

(* cumulative_masks: the safe tokens of at most n bytes. *)
UpTo(safe, n) == {token \in safe : Len(token) <= n}

(* bounded_mask, as a set of at most one: what the length tables know of the
   safe tokens within two budgets, and whether longer ones remain. *)
BoundedMask(safe, max_bytes, max_scalars) ==
    LET longest == Longest(safe)
        fits == {n \in max_scalars : n < longest}
    IN IF max_bytes < longest /\ max_bytes > MaxBoundedLen THEN {}
       ELSE {[tokens |-> {token \in UpTo(safe, max_bytes) :
                              \A n \in fits : Len(token) <= Min({n, MaxBoundedLen})},
              overflow |-> \E n \in fits : n > MaxBoundedLen]}

----------------------------------------------------------------------------
(* Proofs about one automaton. *)

(* The bytes of strings without quotes and escapes, in order. *)
Neutral == SelectSeq(ByteOrder, LAMBDA byte : byte \notin {"\"", "\\"})

(* neutral_language_subsumes: from the states reached so far, the automaton is
   closed under neutral bytes; states is the queue, i the byte of its cursor. *)
RECURSIVE NeutralFrom(_, _, _, _, _, _)
NeutralFrom(engine, states, cursor, i, work, limit) ==
    IF cursor > Len(states) THEN [ok |-> TRUE, work |-> work]
    ELSE IF i > Len(Neutral) THEN NeutralFrom(engine, states, cursor + 1, 1, work, limit)
    ELSE IF work = limit THEN [ok |-> FALSE, work |-> work]
    ELSE IF ~Live(engine, states[cursor], Neutral[i]) THEN [ok |-> FALSE, work |-> work + 1]
    ELSE LET next == engine.next[states[cursor], Neutral[i]]
             known == next \in ToSet(states)
         IN IF ~known /\ Len(states) = NeutralCapacity THEN [ok |-> FALSE, work |-> work + 1]
            ELSE NeutralFrom(engine, IF known THEN states ELSE Append(states, next), cursor, i + 1, work + 1, limit)

NeutralLanguageSubsumes(engine, q, limit) == NeutralFrom(engine, <<q>>, 1, 1, 0, limit)

(* The number of a node's edges that are tried, the last one being the first
   that fails. *)
Tried(bytes, failing) == IF failing = {} THEN Len(bytes) ELSE Min(failing)

(* slice_subsumes: every node of the trie is reached. *)
RECURSIVE SubsumesFrom(_, _, _, _, _)
SubsumesFrom(engine, trie, stack, work, limit) ==
    IF stack = <<>> THEN [ok |-> TRUE, work |-> work]
    ELSE LET node == Last(stack)[1]
             q == Last(stack)[2]
             bytes == Reverse(Children(trie, node))
             failing == {i \in DOMAIN bytes : ~Live(engine, q, bytes[i])}
             spent == work + Tried(bytes, failing)
         IN IF spent > limit THEN [ok |-> FALSE, work |-> limit]
            ELSE IF failing # {} THEN [ok |-> FALSE, work |-> spent]
            ELSE SubsumesFrom(engine, trie,
                    Front(stack) \o [i \in DOMAIN bytes |-> <<Append(node, bytes[i]), engine.next[q, bytes[i]]>>],
                    spent, limit)

SliceSubsumes(engine, q, trie, limit) == SubsumesFrom(engine, trie, <<<<<<>>, q>>>>, 0, limit)

(* safe_slice_subsumes: the language first, then the tokens. *)
SafeSliceSubsumes(engine, q, trie, limit) ==
    LET neutral == NeutralLanguageSubsumes(engine, q, limit)
        tokens == SliceSubsumes(engine, q, trie, limit - neutral.work)
    IN IF neutral.ok THEN neutral ELSE [ok |-> tokens.ok, work |-> neutral.work + tokens.work]

(* candidate_live_mask, as a set of at most one: the tokens the automaton
   survives.  The mask must fit half of the proof cache. *)
Reached(engine, q, trie) == {node \in trie : ConsumeText(engine, q, node) # {}}

CandidateLiveMask(engine, q, tries, limits) ==
    LET nodes == UNION {Reached(engine, q, trie) : trie \in tries}
        work == FoldSet(LAMBDA trie, sum :
                            sum + Cardinality({node \in trie \ {<<>>} : Front(node) \in Reached(engine, q, trie)}),
                        0, tries)
    IN IF limits.max_slice_cache < 2 \/ work > limits.max_mask_work THEN {}
       ELSE {[tokens |-> nodes, work |-> work]}

(* slice_rejects_at_lexical_error: on every token that is no string body the
   automaton fails at the byte at which the decoder does, and never accepts
   before it. *)
RECURSIVE RejectsFrom(_, _, _, _, _, _)
RejectsFrom(engine, trie, tokens, stack, work, limit) ==
    IF stack = <<>> THEN [ok |-> TRUE, work |-> work]
    ELSE LET node == Last(stack)[1]
             q == Last(stack)[2]
             decoder == Last(stack)[3]
             bytes == Reverse(Children(trie, node))
             Invalid(byte) == ~Decode(decoder, byte).ok
             Fails(byte) ==
                \/ byte = "\"" /\ decoder = "None"
                \/ Invalid(byte) /\ (Live(engine, q, byte) \/ q \in engine.accept)
                \/ ~Invalid(byte) /\ (~Live(engine, q, byte) \/ engine.next[q, byte] \in engine.accept)
             failing == {i \in DOMAIN bytes : Fails(bytes[i])}
             spent == work + Tried(bytes, failing)
             open == SelectSeq(bytes, LAMBDA byte : ~Invalid(byte))
         IN IF node \in tokens THEN [ok |-> FALSE, work |-> work]
            ELSE IF spent > limit THEN [ok |-> FALSE, work |-> limit]
            ELSE IF failing # {} THEN [ok |-> FALSE, work |-> spent]
            ELSE RejectsFrom(engine, trie, tokens,
                    Front(stack) \o [i \in DOMAIN open |->
                        <<Append(node, open[i]), engine.next[q, open[i]], Decode(decoder, open[i]).decoder>>],
                    spent, limit)

SliceRejectsAtLexicalError(engine, q, trie, tokens, limit) ==
    IF q \in engine.accept THEN [ok |-> FALSE, work |-> 0]
    ELSE RejectsFrom(engine, trie, tokens, <<<<<<>>, q, "None">>>>, 0, limit)

----------------------------------------------------------------------------
(* The local residual: what the innermost frame leaves open inside a string. *)

EngineForNode(node) == IF Nodes[node].kind = "String" THEN Nodes[node].pattern ELSE {Nodes[node]}

RemainingBytes(s) == s.limits.max_document_bytes - s.document_bytes

Residual(node, engine, q, bytes, scalars) ==
    {[node |-> node, engine |-> engine, state |-> q, bytes |-> bytes, scalars |-> scalars]}

(* A string under maxLength and pattern is left to the exact walk. *)
StringResidual(s, frame, plan) ==
    IF frame.phase # "Body" \/ frame.decoder # "None" \/ (plan.pattern # {} /\ plan.max_scalars # Unbounded) THEN {}
    ELSE Residual(frame.node, plan.pattern, frame.pattern, RemainingBytes(s),
                  IF plan.max_scalars = Unbounded THEN {} ELSE {plan.max_scalars - frame.scalars})

(* A key of an object that admits any name, or those of one automaton. *)
KeyResidual(s, frame, bytes) ==
    IF frame.phase # "InKey" \/ frame.key_decoder # "None" \/ Nodes[frame.node].additional = "Forbid" THEN {}
    ELSE IF frame.property_name = 0 THEN Residual(frame.node, {}, {}, bytes, {})
    ELSE IF s.slots[frame.property_name].kind # "Regular" THEN {}
    ELSE LET slot == s.slots[frame.property_name]
         IN Residual(slot.node, {Nodes[slot.node]}, {slot.state}, bytes, {})

(* local_slice_residual, as a set of at most one. *)
LocalSliceResidual(s) ==
    IF s.dead \/ s.root_closed \/ s.frames = <<>> THEN {}
    ELSE LET frame == Last(s.frames)
         IN CASE frame.kind = "Regular" ->
                    Residual(frame.node, {Nodes[frame.node]}, {frame.state}, RemainingBytes(s), {})
              [] frame.kind = "String" -> StringResidual(s, frame, Nodes[frame.node])
              [] frame.kind = "Object" ->
                    KeyResidual(s, frame, Min({RemainingBytes(s), s.limits.max_key_bytes - Len(frame.key)}))
              [] frame.kind \notin {"Regular", "String", "Object"} -> {}

(* prepare_local_slice: items that are tracked and dependent schemas read the
   bytes too, and a token's undo entries must fit. *)
LocalSliceReady(s, max_bytes) ==
    LET top == Last(s.frames)
        per_byte == IF top.kind = "Object" THEN 2 + Cardinality({top.property_name} \ {0}) ELSE 1
    IN /\ max_bytes <= RemainingBytes(s)
       /\ \A d \in DOMAIN s.frames :
             /\ s.frames[d].kind = "Array" => s.frames[d].item = <<>>
             /\ s.frames[d].kind = "Object" => s.frames[d].cursors = <<>>
       /\ Len(s.undo) + max_bytes * per_byte <= s.limits.max_undo_entries

----------------------------------------------------------------------------
(* The cursors that read the bytes of the innermost value, with whether the
   value fails when the cursor does. *)

Observer(cursor, required) == [cursor |-> cursor, required |-> required]

LiveCandidate(frame) ==
    IF frame.candidate # 0 /\ ~frame.candidate_dead THEN <<Observer(frame.candidate, FALSE)>> ELSE <<>>

ActiveObservers(frame, required) ==
    LET active == SetToSortSeq(frame.active, LAMBDA i, j : i < j)
    IN [i \in DOMAIN active |-> Observer(frame.cursors[active[i]], active[i] \in required)]

FrameObservers(frame) ==
    CASE frame.kind = "Obligation" -> [i \in DOMAIN frame.cursors |-> Observer(frame.cursors[i], TRUE)]
      [] frame.kind = "Unevaluated" ->
            <<Observer(frame.cursor, TRUE), Observer(frame.tracker, TRUE)>> \o LiveCandidate(frame)
      [] frame.kind = "Combinator" ->
            ActiveObservers(frame, IF Nodes[frame.node].op = "All" \/ Cardinality(frame.active) = 1
                                   THEN frame.active ELSE {})
      [] frame.kind = "Negation" ->
            <<Observer(frame.syntax, TRUE)>>
                \o (IF frame.inner_state = "Active" THEN <<Observer(frame.inner, FALSE)>> ELSE <<>>)

DependencyObservers(s) ==
    FlattenSeq([d \in DOMAIN s.frames |->
        IF s.frames[d].kind = "Object"
        THEN ActiveObservers(s.frames[d], s.frames[d].triggered) ELSE <<>>])

UnevaluatedObservers(s) ==
    FlattenSeq([d \in 1 .. Len(s.frames) - 1 |->
        IF s.frames[d].kind = "Unevaluated" THEN FrameObservers(s.frames[d]) ELSE <<>>])

(* slice_undo_entries: one for each byte and each cursor it is shown to. *)
ObserverEntries(s) ==
    Len(DependencyObservers(s)) + Len(UnevaluatedObservers(s))
        + Cardinality({d \in DOMAIN s.frames :
                          s.frames[d].kind = "Array" /\ ItemCursor(s.frames[d].item) # <<>>})

SliceUndoEntries(s, max_bytes) ==
    LET top == Last(s.frames)
        wraps == top.kind \in {"Obligation", "Combinator", "Unevaluated", "Negation"}
        per_byte == CASE wraps -> Len(FrameObservers(top))
                      [] top.kind = "Object" -> 2 + Cardinality({top.property_name} \ {0})
                      [] top.kind = "AnyObject" -> 2
                      [] ~wraps /\ top.kind \notin {"Object", "AnyObject"} -> 1
        headroom == CASE top.kind = "Combinator" -> Len(top.cursors) - Cardinality(top.active)
                      [] top.kind = "Negation" -> IF top.inner_state = "Active" THEN 0 ELSE 1
                      [] top.kind \notin {"Combinator", "Negation"} -> 0
    IN Len(s.undo) + max_bytes * (per_byte + ObserverEntries(s)) + headroom

(* slice_resources_ready: no token of the slice can meet a limit. *)
SliceResourcesReady(s, max_bytes) ==
    LET top == Last(s.frames)
    IN /\ max_bytes <= RemainingBytes(s)
       /\ \A d \in DOMAIN s.frames :
             s.frames[d].kind = "Array" /\ s.frames[d].item # <<>> => s.frames[d].item[1].builder = <<>>
       /\ SliceUndoEntries(s, max_bytes) <= s.limits.max_undo_entries
       /\ top.kind = "AnyString" => max_bytes <= s.limits.max_string_bytes - top.bytes
       /\ top.kind \in {"Object", "AnyObject"} =>
             max_bytes <= s.limits.max_key_bytes - Len(Part(s, Len(s.frames)).key)

----------------------------------------------------------------------------
(* The certificate: c.ok while it is AllNoBoundary, with what is left of the
   fuel, the scalars that every string admits, and the proofs it needs. *)

NewProof(max_bytes, body, fuel) ==
    [ok |-> TRUE, fuel |-> fuel, depth |-> 0, max_bytes |-> max_bytes, body |-> body, required |-> TRUE,
     scalars |-> {}, proofs |-> <<>>]

Unknown(c) == [c EXCEPT !.ok = FALSE]

NeedsProof(c, node, q) == [c EXCEPT !.proofs = Append(@, [node |-> node, state |-> q, live |-> FALSE])]

(* Mutant: a length bound of one branch is taken for a bound of all. *)
BoundScalarsAlways(c, scalars) ==
    CASE scalars = {} -> c
      [] scalars # {} -> IF c.body THEN Unknown(c) ELSE [c EXCEPT !.scalars = {Min(@ \cup scalars)}]

BoundScalars(c, scalars) ==
    CASE scalars = {} -> c
      [] scalars # {} -> IF c.body \/ ~c.required THEN Unknown(c) ELSE [c EXCEPT !.scalars = {Min(@ \cup scalars)}]

(* The frames that carry their own lexical position. *)
CertifyLocal(c, frame, residuals) ==
    IF residuals = {} \/ (c.body /\ frame.kind = "String" /\ Nodes[frame.node].pattern # {}) THEN Unknown(c)
    ELSE LET residual == CHOOSE r \in residuals : TRUE
             bounded == BoundScalars(c, residual.scalars)
         IN IF bounded.ok /\ residual.engine # {}
            THEN NeedsProof(bounded, residual.node, CHOOSE q \in residual.state : TRUE) ELSE bounded

RECURSIVE CertifySlice(_, _)

(* certify_cursors, for one cursor. *)
CertifyCursor(s, c, observer) ==
    LET slot == s.slots[observer.cursor]
        fed == [c EXCEPT !.fuel = @ - 1, !.required = @ /\ observer.required]
        certified == IF slot.kind = "Regular" THEN NeedsProof(fed, slot.node, slot.state) ELSE CertifySlice(slot.sub, fed)
    IN CASE ~c.ok -> c
         [] c.ok -> IF c.fuel = 0 \/ slot.kind = "Vacant" THEN Unknown(c)
                    ELSE [certified EXCEPT !.required = c.required]

CertifyObservers(s, c, observers) ==
    FoldLeft(LAMBDA acc, observer : CertifyCursor(s, acc, observer), c, observers)

(* An unevaluated frame that follows the keys of its value decides on each
   byte of a key. *)
FollowsKeys(s, frame) ==
    LET tracker == s.slots[frame.tracker].sub
        object == Part(tracker, 1)
    IN /\ frame.kind = "Unevaluated"
       /\ Nodes[frame.node].finite_evaluated_keys # {}
       /\ Len(tracker.frames) = 1
       /\ tracker.frames[1].kind = "AnyObject"
       /\ object.key_decoder = "None"
       /\ object.phase \in {"InKey", "AfterKeyBeforeColon"}

(* certify_frames: what the innermost frame needs. *)
CertifyFrames(s, c) ==
    LET frame == Last(s.frames)
        object == Part(s, Len(s.frames))
        wraps == frame.kind \in {"Obligation", "Combinator", "Unevaluated", "Negation"}
        inside == \/ frame.kind = "AnyString" /\ frame.decoder = "None"
                  \/ frame.kind = "AnyObject" /\ object.phase = "InKey" /\ object.key_decoder = "None"
    IN CASE frame.kind \in {"Regular", "String", "Object"} -> CertifyLocal(c, frame, LocalSliceResidual(s))
         [] wraps -> IF FollowsKeys(s, frame) \/ FrameObservers(frame) = <<>> THEN Unknown(c)
                     ELSE CertifyObservers(s, c, FrameObservers(frame))
         [] ~wraps /\ frame.kind \notin {"Regular", "String", "Object"} -> IF inside THEN c ELSE Unknown(c)

(* contains_slice_policy and classify_array_item_product: whether the item may
   leave what it must match.  The count classes are those of the code. *)
ItemMustMatch(array, plan, rule, annotates) ==
    \/ /\ array.contains_count < rule.min
       /\ rule.max # array.contains_count
       /\ plan.max_items # Unbounded
       /\ array.contains_count + (plan.max_items - array.index) < rule.min
    \/ annotates

RejectingUnevaluated(s) ==
    \E d \in DOMAIN s.frames : /\ s.frames[d].kind = "Unevaluated"
                               /\ NodeOf(s, d).of = "Array"
                               /\ NodeOf(s, d).rejects_unevaluated

ContainsPolicy(s, array, plan, rule) ==
    LET candidate == array.item[1].contains
        annotated == array.index <= Len(plan.prefix) \/ plan.tail_annotates
        rejecting == ~annotated /\ RejectingUnevaluated(s)
        sole == Cardinality({d \in DOMAIN s.frames : s.frames[d].kind = "Array"}) = 1
        annotates == rejecting /\ plan.annotations_required /\ sole
        full == array.contains_count >= rule.max /\ candidate[1] # "Dead"
    IN CASE full \/ (rejecting /\ ~annotates) -> "Unknown"
         [] ~full /\ ~(rejecting /\ ~annotates) ->
               IF ~ItemMustMatch(array, plan, rule, annotates) \/ candidate[1] = "Always" THEN "Unrestricted"
               ELSE IF candidate[1] = "Cursor" THEN "MustKeep" ELSE "Unknown"

(* The one automaton a structured candidate runs, or none. *)
KeepOne(c, certified) ==
    IF certified.ok /\ Len(certified.proofs) = Len(c.proofs) + 1 /\ ~Last(certified.proofs).live
    THEN [certified EXCEPT !.proofs[Len(certified.proofs)].live = TRUE] ELSE Unknown(c)

(* certify_array_item_observers, for one array. *)
CertifyItem(s, c, array) ==
    LET plan == Nodes[array.node]
        policies == {ContainsPolicy(s, array, plan, rule) : rule \in plan.contains}
        kept == KeepOne(c, CertifyCursor(s, [c EXCEPT !.required = TRUE], Observer(array.item[1].contains[2], TRUE)))
    IN CASE ~c.ok \/ array.item = <<>> -> c
         [] c.ok /\ array.item # <<>> ->
               IF array.item[1].builder # <<>> \/ policies = {"Unknown"} THEN Unknown(c)
               ELSE IF policies = {"MustKeep"} THEN [kept EXCEPT !.required = c.required] ELSE c

CertifyArrayItems(s, c) ==
    FoldLeft(LAMBDA acc, array : CertifyItem(s, acc, array), c, SelectSeq(s.frames, LAMBDA f : f.kind = "Array"))

CertifySlice(s, c) ==
    LET entered == [c EXCEPT !.fuel = @ - 1, !.depth = @ + 1]
        framed == CertifyFrames(s, entered)
        observed == CertifyObservers(s, framed, DependencyObservers(s) \o UnevaluatedObservers(s))
    IN IF s.dead \/ s.root_closed \/ c.fuel = 0 \/ c.depth = MaxProofDepth \/ ~SliceResourcesReady(s, c.max_bytes)
       THEN Unknown(c)
       ELSE [CertifyArrayItems(s, observed) EXCEPT !.depth = c.depth]

----------------------------------------------------------------------------
(* SliceProofCache: verdicts in a ring, and the last candidate mask.  A mask
   and an entry weigh the same here; the ring is reserved as a whole. *)

NoProofs == [entries |-> <<>>, next |-> 1, candidate |-> <<>>]

ProofKey(proof, body, reject) == [node |-> proof.node, state |-> proof.state, body |-> body, reject |-> reject]

Cached(cache, key) == {entry.subsumes : entry \in {e \in ToSet(cache.entries) : e.key = key}}

InsertProof(cache, key, subsumes, limits) ==
    LET entry == [key |-> key, subsumes |-> subsumes]
    IN CASE limits.max_slice_cache = 0 -> cache
         [] limits.max_slice_cache > Len(cache.entries) -> [cache EXCEPT !.entries = Append(@, entry)]
         [] limits.max_slice_cache \in 1 .. Len(cache.entries) ->
               [cache EXCEPT !.entries[cache.next] = entry, !.next = (@ % Len(cache.entries)) + 1]

CachedCandidate(cache, key) == {entry.tokens : entry \in {e \in ToSet(cache.candidate) : e.key = key}}

InsertCandidate(cache, key, tokens, limits) ==
    IF cache.entries # <<>> \/ limits.max_slice_cache = 0 THEN cache
    ELSE [cache EXCEPT !.candidate = <<[key |-> key, tokens |-> tokens]>>]

----------------------------------------------------------------------------
(* The selection of a slice: p.ok while everything is proved, with the work
   done, the cache, the mask of a candidate, and whether tokens that are no
   string body are known to fail. *)

Discover(p, cache, work) == [p EXCEPT !.cache = cache, !.work = @ + work]

CandidateTries(tries, body) == {tries.safe} \cup IF body THEN {tries.body_extra} ELSE {}

ProveCandidateMask(p, key, masks, limits) ==
    IF masks = {} THEN [p EXCEPT !.ok = FALSE]
    ELSE LET mask == CHOOSE m \in masks : TRUE
         IN [Discover(p, InsertCandidate(p.cache, key, mask.tokens, limits), mask.work) EXCEPT !.candidate = {mask.tokens}]

ProveCandidate(p, key, engine, tries, limits) ==
    IF p.candidate # {} THEN [p EXCEPT !.ok = FALSE]
    ELSE IF CachedCandidate(p.cache, key) # {} THEN [p EXCEPT !.candidate = CachedCandidate(p.cache, key)]
    ELSE ProveCandidateMask(p, key, CandidateLiveMask(engine, key.state, tries, limits), limits)

(* Every token of the slice keeps the automaton alive. *)
SubsumptionExtra(engine, q, tries, body, limit, safe) ==
    LET extra == SliceSubsumes(engine, q, tries.body_extra, limit)
    IN IF safe.ok /\ body THEN [ok |-> extra.ok, work |-> safe.work + extra.work] ELSE safe

Subsumption(engine, q, tries, body, limit) ==
    SubsumptionExtra(engine, q, tries, body, limit, SafeSliceSubsumes(engine, q, tries.safe, limit))

(* A verdict of the cache, or a new one that is put into it. *)
Decided(p, key, verdict, limits) ==
    LET cached == Cached(p.cache, key)
    IN IF cached # {} THEN [at |-> p, ok |-> TRUE \in cached]
       ELSE [at |-> Discover(p, InsertProof(p.cache, key, verdict.ok, limits), verdict.work), ok |-> verdict.ok]

Rejected(rejection) == [rejection.at EXCEPT !.reject = rejection.ok]

ProveRejection(key, engine, catalog, limits, decided) ==
    IF ~decided.ok THEN [decided.at EXCEPT !.ok = FALSE]
    ELSE IF ~decided.at.reject THEN decided.at
    ELSE Rejected(Decided(decided.at, [key EXCEPT !.reject = TRUE],
                          SliceRejectsAtLexicalError(engine, key.state, catalog.tries.body_invalid,
                                                     catalog.slices.body_invalid, limits.max_mask_work),
                          limits))

ProveAll(p, key, engine, catalog, limits) ==
    ProveRejection(key, engine, catalog, limits,
        Decided(p, key, Subsumption(engine, key.state, catalog.tries, key.body, limits.max_mask_work), limits))

Prove(p, catalog, key, live, engine, limits) ==
    IF ~p.ok THEN p
    ELSE IF live THEN ProveCandidate(p, key, engine, CandidateTries(catalog.tries, key.body), limits)
    ELSE ProveAll(p, key, engine, catalog, limits)

(* A slice: the tokens set at once and the tries that are still walked.  No
   slice: the whole trie is walked. *)
NoSlice(cache, work) == [sliced |-> FALSE, tokens |-> {}, trie |-> "all", overflow |-> FALSE, cache |-> cache, work |-> work]

Slice(slices, bounded, body, p) ==
    LET safe == IF bounded = {} THEN slices.safe ELSE UNION {mask.tokens : mask \in bounded}
        tokens == safe \cup IF body THEN slices.body_extra ELSE {}
    IN [sliced |-> TRUE,
        tokens |-> {token \in tokens : \A live \in p.candidate : token \in live},
        trie |-> IF p.reject THEN "body_boundary" ELSE IF body THEN "body_uncertain" ELSE "uncertain",
        overflow |-> \E mask \in bounded : mask.overflow,
        cache |-> p.cache, work |-> p.work]

(* What must be proved before a slice is taken, as a set of at most one. *)
Claim(bounded, needed) == {[bounded |-> bounded, proofs |-> needed]}

(* The longest token whose resources a certificate covers. *)
CoveredBytes(slices, body) ==
    Max({Longest(slices.safe)} \cup
        IF body THEN {Longest(slices.body_extra), Longest(slices.body_boundary), Longest(slices.body_invalid)} ELSE {})

(* select_wrapped_slice: every frame and cursor is asked. *)
CertifiedClaim(safe, c) ==
    LET bounded == UNION {BoundedMask(safe, c.max_bytes, {n}) : n \in c.scalars}
    IN IF ~c.ok \/ (c.scalars # {} /\ bounded = {}) THEN {} ELSE Claim(bounded, c.proofs)

WrappedClaim(s, slices, body) ==
    CertifiedClaim(slices.safe, CertifySlice(s, NewProof(CoveredBytes(slices, body), body, 2 * LedgerLive(s) + 1)))

(* select_plain_adaptive_trie: the innermost frame alone decides. *)
LocalBounded(safe, residual) ==
    IF residual.scalars = {} THEN {} ELSE BoundedMask(safe, residual.bytes, residual.scalars)

LocalAdmitted(safe, residual) ==
    IF residual.scalars = {} THEN Longest(safe)
    ELSE Min({residual.bytes, Longest(safe), 4 * Min(residual.scalars)})

LocalClaim(safe, residual, bounded) ==
    LET letters == \A engine \in residual.engine, q \in residual.state : Live(engine, q, "a") /\ Live(engine, q, "z")
        needed == [node |-> residual.node, state |-> CHOOSE q \in residual.state : TRUE, live |-> FALSE]
    IN IF ~letters \/ Longest(safe) > residual.bytes \/ (residual.scalars # {} /\ bounded = {}) THEN {}
       ELSE Claim(bounded, IF residual.engine = {} THEN <<>> ELSE <<needed>>)

LocalClaims(safe, residuals) ==
    UNION {LocalClaim(safe, residual, LocalBounded(safe, residual)) : residual \in residuals}

ClaimOf(s, slices, body, residuals, locals) ==
    IF ~body /\ residuals # {} /\ locals = {} THEN {}
    ELSE IF ~body /\ \E residual \in residuals : LocalSliceReady(s, LocalAdmitted(slices.safe, residual)) THEN locals
    ELSE WrappedClaim(s, slices, body)

SelectProved(slices, claim, body, p) ==
    IF p.ok THEN Slice(slices, claim.bounded, body, p) ELSE NoSlice(p.cache, p.work)

SelectClaim(s, catalog, cache, body, claim) ==
    SelectProved(catalog.slices, claim, body,
        FoldLeft(LAMBDA p, proof : Prove(p, catalog, ProofKey(proof, body, FALSE), proof.live,
                                         CHOOSE engine \in EngineForNode(proof.node) : TRUE, s.limits),
                 [ok |-> TRUE, reject |-> body, candidate |-> {}, cache |-> cache, work |-> 0], claim.proofs))

SelectClaims(s, catalog, cache, body, claims) ==
    IF claims = {} THEN NoSlice(cache, 0) ELSE SelectClaim(s, catalog, cache, body, CHOOSE claim \in claims : TRUE)

SelectTrie(s, catalog, cache, body, residuals) ==
    SelectClaims(s, catalog, cache, body, ClaimOf(s, catalog.slices, body, residuals, LocalClaims(catalog.slices.safe, residuals)))

(* select_adaptive_trie: the wider slice of string bodies first. *)
SelectAfter(slice, next) == IF slice.sliced THEN slice ELSE [next EXCEPT !.work = @ + slice.work]

SelectSlice(s, catalog, cache) ==
    IF ~catalog.built THEN NoSlice(cache, 0)
    ELSE FoldLeft(LAMBDA slice, body :
                     SelectAfter(slice, SelectTrie(s, catalog, slice.cache, body, LocalSliceResidual(s))),
                  NoSlice(cache, 0), <<TRUE, FALSE>>)

----------------------------------------------------------------------------
(* next_byte_is_lexically_impossible: the frame at depth d, or one below it
   when it may be left, refuses the byte whatever else is open. *)

Impossible(phase, byte) ==
    \/ phase = "AfterKeyBeforeColon" /\ byte \notin WS \cup {":"}
    \/ phase = "AfterValueBeforeCommaOrClose" /\ byte \notin WS \cup {",", "}"}

RECURSIVE ImpossibleAt(_, _, _)
ImpossibleAt(s, d, byte) ==
    IF d = 0 THEN FALSE
    ELSE LET frame == s.frames[d]
         IN CASE frame.kind = "Obligation" ->
                    (\A i \in DOMAIN frame.cursors : CursorAccepts(s, frame.cursors[i])) /\ ImpossibleAt(s, d - 1, byte)
              [] frame.kind = "Regular" ->
                    IF Live(Nodes[frame.node], frame.state, byte) THEN FALSE
                    ELSE IF d # 1 /\ frame.state \in Nodes[frame.node].accept THEN ImpossibleAt(s, d - 1, byte)
                    ELSE TRUE
              [] frame.kind \in {"Object", "AnyObject"} -> Impossible(Part(s, d).phase, byte)
              [] frame.kind = "Array" ->
                    frame.phase = "AfterValueBeforeCommaOrClose" /\ byte \notin WS \cup {",", "]"}
              [] frame.kind = "AnyArray" -> frame.phase = "AfterValue" /\ byte \notin WS \cup {",", "]"}
              [] frame.kind \notin {"Obligation", "Regular", "Object", "AnyObject", "Array", "AnyArray"} -> FALSE

NextByteIsImpossible(s, byte) ==
    \/ s.dead
    \/ s.root_closed /\ byte \notin WS
    \/ ~s.dead /\ ~s.root_closed /\ ImpossibleAt(s, Len(s.frames), byte)
=============================================================================
