-------------------------- MODULE StructuredState --------------------------
(***************************************************************************)
(* The pushdown state of the structured matcher (structured/state.rs) as a *)
(* value, and what one byte does to it.                                    *)
(*                                                                         *)
(* A state s is a record: its limits, the stack of frames with the dynamic *)
(* scope of each, the undo log, the arena of dynamic keys, the arena of    *)
(* AnyJson objects with its free list, the pool of cursors, the evaluated  *)
(* locations of the root, and s.res, the outcome of the routine that runs: *)
(* "run" while it goes on, then "true", "false" or "err" for Ok(true),     *)
(* Ok(false) and Err.  The operators that change a state do nothing once   *)
(* the outcome is known, which is the code's `?` and early return; so a    *)
(* sequence of statements is a nesting of operators.                       *)
(*                                                                         *)
(* A cursor is a validator of its own: a Regular engine state or a whole   *)
(* StructuredState.  Combinators, negation, obligations, dependentSchemas, *)
(* propertyNames, contains and unevaluated locations run cursors beside    *)
(* the frames, so a state is a tree of states.                             *)
(*                                                                         *)
(* Bytes are one-character strings, keys are sequences of decoded scalars, *)
(* a KeyId is the position of a key in the arena, a cursor is the index of *)
(* its slot (0: no cursor).  A dynamic scope is the sequence of resources  *)
(* entered.  Memory accounting and the key lease, which change no decision *)
(* below their limits, are left out; so are the pools of frame storage,    *)
(* which are cleared on reuse.                                             *)
(***************************************************************************)
EXTENDS JsonNumber, CanonicalItem

CONSTANTS
    Nodes,          \* StructuredPlan::nodes: node id -> plan
    ResourceOf,     \* StructuredPlan::node_resource
    DynamicTargets, \* StructuredPlan::dynamic_target: <<anchor, resource>> -> node
    KeyHash(_)      \* the session's hash of a key; keys may collide

Unbounded == 1000   \* an absent maximum

----------------------------------------------------------------------------
(* Outcomes, the undo log, and fields that are assigned under it. *)

Alive(s) == s.res = "run"

Answer(s, outcome) == IF Alive(s) THEN [s EXCEPT !.res = outcome] ELSE s

Require(s, condition) == IF condition THEN s ELSE Answer(s, "false")

Within(s, observed, limit) == IF observed <= limit THEN s ELSE Answer(s, "err")

ReserveUndo(s, n) == Within(s, Len(s.undo) + n, s.limits.max_undo_entries)

PushUndo(s, entry) == IF Alive(s) THEN [s EXCEPT !.undo = Append(@, entry)] ELSE s

(* What depth d stands for: the frame, the slot an AnyJson object frame
   refers to, or, for depth 0, the state itself. *)
Part(s, d) ==
    CASE d = 0 -> s
      [] d > 0 -> IF s.frames[d].kind = "AnyObject" THEN s.objs[s.frames[d].id] ELSE s.frames[d]

Put(s, d, field, value) ==
    CASE d = 0 -> [s EXCEPT ![field] = value]
      [] d > 0 -> IF s.frames[d].kind = "AnyObject"
                  THEN [s EXCEPT !.objs[s.frames[d].id][field] = value]
                  ELSE [s EXCEPT !.frames[d][field] = value]

(* Assign under an undo entry that was reserved before, and with its own
   reservation. *)
Logged(s, d, field, value) ==
    IF Alive(s)
    THEN Put(PushUndo(s, [op |-> "Field", depth |-> d, field |-> field, old |-> Part(s, d)[field]]),
             d, field, value)
    ELSE s

Assign(s, d, field, value) == Logged(ReserveUndo(s, 1), d, field, value)

SetFrame(s, d, op, frame) ==
    IF Alive(s)
    THEN [PushUndo(s, [op |-> op, depth |-> d, old |-> s.frames[d]]) EXCEPT !.frames[d] = frame]
    ELSE s

(* What a routine that consumed the byte returns. *)
Consumed(s) == Answer(s, "true")

Truncate(seq, n) == IF n < Len(seq) THEN SubSeq(seq, 1, n) ELSE seq

----------------------------------------------------------------------------
(* Engines of regular values and patterns: a partial function next on pairs
   of a state and a byte or scalar, without dead states. *)

Live(engine, q, byte) == <<q, byte>> \in DOMAIN engine.next

ExtendsValue(engine, q) == \E step \in DOMAIN engine.next : step[1] = q /\ step[2] \notin WS

(* The engine's state after a text, as a set of at most one. *)
RECURSIVE ConsumeFrom(_, _, _)
ConsumeFrom(engine, at, text) ==
    IF text = <<>> THEN at
    ELSE ConsumeFrom(engine, {engine.next[p, text[1]] : p \in {q \in at : Live(engine, q, text[1])}}, Tail(text))

ConsumeText(engine, q, text) == ConsumeFrom(engine, {q}, text)

EngineAccepts(engine, text) == ConsumeText(engine, engine.start, text) \cap engine.accept # {}

----------------------------------------------------------------------------
(* Dynamic scopes and references. *)

DynamicScopeEnabled == \E node \in DOMAIN Nodes : Nodes[node].kind = "DynamicRef"

(* The outermost resource of the scope that has the anchor wins. *)
ResolveDynamicTarget(initial, anchor, scope) ==
    LET having == {i \in DOMAIN scope : <<anchor, scope[i]>> \in DOMAIN DynamicTargets}
    IN IF having = {} THEN initial ELSE DynamicTargets[anchor, scope[Min(having)]]

EnterScope(scope, resource) ==
    IF DynamicScopeEnabled /\ Last(scope) # resource THEN Append(scope, resource) ELSE scope

(* resolve_runtime_node: references are followed to a node that matches; a
   reference that leads back to itself, or a scope that grows too deep, fails. *)
RECURSIVE ResolveHop(_, _, _, _)
ResolveHopScope(node, plan, scope, max_scope, hops) ==
    CASE Len(scope) > max_scope \/ hops = 0 -> [node |-> node, scope |-> scope, out |-> "err"]
      [] Len(scope) <= max_scope /\ hops > 0 ->
            CASE plan.kind = "Ref" -> ResolveHop(plan.target, scope, max_scope, hops - 1)
              [] plan.kind = "DynamicRef" ->
                    ResolveHop(ResolveDynamicTarget(plan.initial_target, plan.anchor, scope), scope, max_scope, hops - 1)
              [] plan.kind \notin {"Ref", "DynamicRef"} -> [node |-> node, scope |-> scope, out |-> "ok"]

ResolveHop(node, scope, max_scope, hops) ==
    ResolveHopScope(node, Nodes[node], EnterScope(scope, ResourceOf[node]), max_scope, hops)

ResolveRuntimeNode(node, scope, limits) ==
    ResolveHop(node, scope, limits.max_dynamic_scope_depth, Cardinality(DOMAIN Nodes) + 1)

----------------------------------------------------------------------------
(* Cursors and sub-states: operators that call each other. *)

RECURSIVE TryPushByte(_, _, _), Rollback(_, _), CommitCheckpoint(_), NewAt(_, _, _, _, _),
          SlotCount(_), CanExtendValue(_), RootAnnotations(_)

Vacant == [kind |-> "Vacant"]

LiveSlots(s) == {id \in DOMAIN s.slots : s.slots[id].kind # "Vacant"}

(* validator_count: every live cursor of the state and of its sub-states. *)
SlotCount(slots) ==
    CASE slots = <<>> -> 0
      [] slots # <<>> /\ slots[1].kind = "Vacant" -> SlotCount(Tail(slots))
      [] slots # <<>> /\ slots[1].kind = "Structured" -> 1 + SlotCount(slots[1].sub.slots) + SlotCount(Tail(slots))
      [] slots # <<>> /\ slots[1].kind \notin {"Vacant", "Structured"} -> 1 + SlotCount(Tail(slots))

ValidatorCount(s) == SlotCount(s.slots)

(* The session's ledger: s.outside counts the validators beside this state. *)
LedgerLive(s) == s.outside + ValidatorCount(s)

(* Mutant: each state counts its own validators only. *)
EnsureOwnAvailable(s, n) == Within(s, ValidatorCount(s) + n, s.limits.max_active_validators)

EnsureAvailable(s, n) == Within(s, LedgerLive(s) + n, s.limits.max_active_validators)

SlotId(s) == IF s.free_slots # <<>> THEN Last(s.free_slots) ELSE Len(s.slots) + 1

InsertSlot(s, slot) ==
    IF s.free_slots # <<>>
    THEN [s EXCEPT !.slots[Last(s.free_slots)] = slot, !.free_slots = Front(@)]
    ELSE [s EXCEPT !.slots = Append(@, slot)]

CanReuse(entry, node, depth, scope) ==
    /\ entry # <<>>
    /\ entry[1].resettable
    /\ entry[1].node = node
    /\ entry[1].depth_offset = depth
    /\ entry[1].scopes[1] = scope

SwapRemove(seq, i) ==
    IF i = Len(seq) THEN Front(seq) ELSE Front([seq EXCEPT ![i] = Last(seq)])

(* start_in_context: the slot of a Regular engine, a cached state, or a new
   one.  A new state takes the place of the last cached one. *)
StartStructuredMade(fits, entry, reused, ready, made) ==
    LET Install(t, sub) == InsertSlot(t, [kind |-> "Structured", sub |-> [sub EXCEPT !.outside = 0]]) IN
       IF fits # {}
       THEN IF Alive(reused)
            THEN Install([reused EXCEPT !.cached = SwapRemove(@, Max(fits))], entry) ELSE reused
       ELSE IF ~Alive(ready) THEN ready
            ELSE IF made.res = "err" THEN Answer(ready, "err")
            ELSE Install([ready EXCEPT !.cached = IF @ = <<>> THEN @ ELSE Front(@)], made)

StartStructured(s, node, depth, scope) ==
    LET fits == {i \in DOMAIN s.cached : CanReuse(s.cached[i], node, depth, scope)}
        entry == s.cached[Max(fits)][1]
        reused == Within(s, LedgerLive(s) + 1 + ValidatorCount(entry), s.limits.max_active_validators)
        ready == EnsureAvailable(s, 1) IN
    StartStructuredMade(fits, entry, reused, ready, NewAt(node, s.limits, depth, scope, LedgerLive(s) + 1))

StartRegular(s, node) ==
    LET ready == EnsureAvailable(s, 1)
    IN IF Alive(ready) THEN InsertSlot(ready, [kind |-> "Regular", node |-> node, state |-> Nodes[node].start]) ELSE ready

StartCursorAt(s, node, depth, at) ==
    LET kind == IF node = "AnyJson" THEN "AnyJson" ELSE Nodes[at.node].kind IN
       CASE ~Alive(s) -> s
         [] Alive(s) /\ (at.out # "ok" \/ kind = "Unsupported") -> Answer(s, "err")
         [] Alive(s) /\ at.out = "ok" /\ kind # "Unsupported" ->
               IF kind = "Regular" THEN StartRegular(s, at.node) ELSE StartStructured(s, at.node, depth, at.scope)

StartCursor(s, node, depth) ==
    LET any == [out |-> "ok", node |-> "AnyJson", scope |-> Last(s.scopes)] IN
    StartCursorAt(s, node, depth, IF node = "AnyJson" THEN any ELSE ResolveRuntimeNode(node, Last(s.scopes), s.limits))

(* Mutant: a state that saw bytes is cached as it is. *)
ResetNot(sub) == sub

ResetForReuse(sub) == Rollback(sub, sub.initial)

(* A released state that was never committed with bytes goes back to its
   beginning and is cached; another one is dropped. *)
ReleaseCursor(s, id) ==
    LET slot == s.slots[id]
        freed == [s EXCEPT !.slots[id] = Vacant, !.free_slots = Append(@, id)]
    IN IF slot.kind # "Structured" THEN freed
       ELSE [freed EXCEPT !.cached = Append(@, IF slot.sub.resettable THEN <<ResetForReuse(slot.sub)>> ELSE <<>>)]

RECURSIVE ReleaseAll(_, _)
ReleaseAll(s, ids) == IF ids = <<>> THEN s ELSE ReleaseAll(ReleaseCursor(s, ids[1]), Tail(ids))

(* rollback_unpublished: the first of two cursors when the second one fails;
   the pool has the sizes of its mark again. *)
RollbackUnpublished(s, id, mark) ==
    LET slot == s.slots[id]
        freed == [s EXCEPT !.slots[id] = Vacant, !.free_slots = Append(@, id),
                           !.cached = IF slot.kind = "Structured" THEN Append(@, <<>>) ELSE @]
    IN [freed EXCEPT !.slots = Truncate(@, Len(mark.slots)),
                     !.free_slots = Truncate(@, Len(mark.free_slots)),
                     !.cached = Truncate(@, Len(mark.cached))]

CursorMark(s, id) ==
    LET slot == s.slots[id]
    IN IF slot.kind = "Structured"
       THEN [undo_len |-> Len(slot.sub.undo), document_bytes |-> slot.sub.document_bytes,
             accepting |-> slot.sub.accepting, dead |-> slot.sub.dead]
       ELSE [state |-> slot.state]

(* Mutant: the states inside cursors keep the bytes of a token taken back. *)
CursorRollbackRegular(s, id, mark) ==
    IF s.slots[id].kind = "Structured" THEN s ELSE [s EXCEPT !.slots[id].state = mark.state]

CursorRollback(s, id, mark) ==
    IF s.slots[id].kind = "Structured"
    THEN [s EXCEPT !.slots[id].sub = Rollback(@, mark)]
    ELSE [s EXCEPT !.slots[id].state = mark.state]

CursorAccepts(s, id) ==
    IF s.slots[id].kind = "Structured" THEN s.slots[id].sub.accepting
    ELSE s.slots[id].state \in Nodes[s.slots[id].node].accept

CursorExtends(s, id) ==
    IF s.slots[id].kind = "Structured" THEN CanExtendValue(s.slots[id].sub)
    ELSE ExtendsValue(Nodes[s.slots[id].node], s.slots[id].state)

CursorNode(s, id) == IF s.slots[id].kind = "Structured" THEN s.slots[id].sub.node ELSE s.slots[id].node

(* CursorPool::try_push_byte: s.step is "Live", "Dead" or "err".  A byte that
   is not taken leaves the cursor as it was. *)
PushCursorByteSub(s, id, byte, slot, engine, sub) ==
    IF slot.kind = "Structured"
    THEN [s EXCEPT !.slots[id].sub = [sub EXCEPT !.outside = 0, !.res = "true"],
                   !.step = IF sub.res = "true" THEN "Live" ELSE IF sub.res = "false" THEN "Dead" ELSE "err"]
    ELSE IF Live(engine, slot.state, byte)
         THEN [s EXCEPT !.slots[id].state = engine.next[slot.state, byte], !.step = "Live"]
         ELSE [s EXCEPT !.step = "Dead"]

PushCursorByte(s, id, byte) ==
    LET slot == s.slots[id]
        engine == Nodes[slot.node] IN
    PushCursorByteSub(s, id, byte, slot, engine,
        TryPushByte([slot.sub EXCEPT !.outside = LedgerLive(s) - ValidatorCount(slot.sub)], byte, TRUE))

----------------------------------------------------------------------------
(* Evaluated locations. *)

NoneEvaluated == [all |-> FALSE, ordinals |-> {}]

IsEvaluated(set, ordinal) == set.all \/ ordinal \in set.ordinals

InsertEvaluated(s, d, field, ordinal) ==
    IF Alive(s) /\ ~IsEvaluated(Part(s, d)[field], ordinal)
    THEN Assign(s, d, field, [Part(s, d)[field] EXCEPT !.ordinals = @ \cup {ordinal}]) ELSE s

MarkAllEvaluated(s, d, field) ==
    IF Alive(s) /\ ~Part(s, d)[field].all THEN Assign(s, d, field, [all |-> TRUE, ordinals |-> {}]) ELSE s

NoAnnotations == [shape |-> "None", set |-> NoneEvaluated]

CursorAnnotations(s, id) ==
    IF s.slots[id].kind = "Structured" THEN RootAnnotations(s.slots[id].sub) ELSE NoAnnotations

(* accepted_annotation_summary and _word: the annotations an accepting state
   publishes, or those of its accepting branches when it is one combinator. *)
RootAnnotationsFound(s, frame, found) ==
    LET shapes == {f.shape : f \in found} IN
       CASE s.root_shape # "None" -> [shape |-> s.root_shape, set |-> s.root_evaluated]
         [] s.root_shape = "None" ->
               IF Len(s.frames) = 1 /\ frame.kind = "Combinator" /\ Cardinality(shapes) = 1
               THEN [shape |-> CHOOSE shape \in shapes : TRUE,
                     set |-> [all |-> \E f \in found : f.set.all, ordinals |-> UNION {f.set.ordinals : f \in found}]]
               ELSE NoAnnotations

RootAnnotations(s) ==
    LET frame == s.frames[1] IN
    RootAnnotationsFound(s, frame,
        {CursorAnnotations(s, frame.cursors[i]) : i \in {j \in frame.active : CursorAccepts(s, frame.cursors[j])}}
           \ {NoAnnotations})

AnnotationContains(s, id, shape, ordinal) ==
    LET found == CursorAnnotations(s, id) IN found.shape = shape /\ IsEvaluated(found.set, ordinal)

RECURSIVE InsertAllEvaluated(_, _, _, _)
InsertAllEvaluated(s, d, field, ordinals) ==
    IF ordinals = {} THEN s
    ELSE InsertAllEvaluated(InsertEvaluated(s, d, field, Min(ordinals)), d, field, ordinals \ {Min(ordinals)})

(* The annotations of a cursor are added to a set of the same shape. *)
MergeFound(s, d, field, shape, found) ==
    CASE found.shape # shape -> s
      [] found.shape = shape -> IF found.set.all THEN MarkAllEvaluated(s, d, field)
                                ELSE InsertAllEvaluated(s, d, field, found.set.ordinals)

MergeCursorAnnotations(s, d, field, shape, id) == MergeFound(s, d, field, shape, CursorAnnotations(s, id))

EnsureRootAnnotationTarget(s, shape) ==
    CASE s.root_shape = shape -> s
      [] s.root_shape # shape -> IF s.root_shape = "None" THEN Assign(s, 0, "root_shape", shape) ELSE Answer(s, "err")

(* A root frame that closes hands its set over to the state. *)
PublishRootAnnotations(s, d, shape) ==
    LET ready == ReserveUndo(s, 1)
        logged == PushUndo(ready, [op |-> "Publish", depth |-> d,
                                   old_shape |-> s.root_shape, old_set |-> s.root_evaluated])
    IN IF Alive(ready)
       THEN [logged EXCEPT !.root_shape = shape, !.root_evaluated = s.frames[d].evaluated,
                           !.frames[d].evaluated = NoneEvaluated]
       ELSE ready

----------------------------------------------------------------------------
(* Checkpoint, rollback and commit. *)

Bucket(dynamic, hash) == IF hash \in DOMAIN dynamic THEN dynamic[hash] ELSE <<>>

(* Mutant: the interned key stays in the arena. *)
RevertInternKeeps(s, old_len) == s

RevertIntern(s, old_len) == [s EXCEPT !.arena = Truncate(@, old_len)]

RECURSIVE SelectOwned(_, _)
SelectOwned(cursors, owned) ==
    IF owned = {} THEN <<>> ELSE <<cursors[Min(owned)]>> \o SelectOwned(cursors, owned \ {Min(owned)})

ItemCursor(item) ==
    IF item # <<>> /\ item[1].contains[1] = "Cursor" THEN <<item[1].contains[2]>> ELSE <<>>

Present(id) == IF id = 0 THEN <<>> ELSE <<id>>

(* The cursors a frame owns, in the order in which they are released. *)
FrameCursors(frame) ==
    CASE frame.kind = "Obligation" -> frame.cursors
      [] frame.kind = "Combinator" -> SelectOwned(frame.cursors, frame.owned)
      [] frame.kind = "Negation" ->
            <<frame.syntax>> \o (IF frame.inner_state = "Released" THEN <<>> ELSE <<frame.inner>>)
      [] frame.kind = "Unevaluated" -> <<frame.cursor, frame.tracker>> \o Present(frame.candidate)
      [] frame.kind = "Array" -> ItemCursor(frame.item)
      [] frame.kind = "Object" -> Present(frame.property_name) \o SelectOwned(frame.cursors, frame.owned)
      [] frame.kind \in {"Regular", "Number", "String", "StringEnum", "AnyScalar", "AnyString", "AnyArray", "AnyObject"}
            -> <<>>

DiscardNewFrame(s, frame) == ReleaseAll(s, FrameCursors(frame))

NoCandidate(s, d) ==
    [s EXCEPT !.frames[d].candidate = 0, !.frames[d].ordinal = 0, !.frames[d].candidate_dead = FALSE]

(* The inverses of the mutations of an unevaluated frame's candidate and of
   the published annotations. *)
RevertUnevaluated(entry, s, d) ==
    CASE entry.op = "StartCandidate" -> ReleaseCursor(NoCandidate(s, d), entry.id)
      [] entry.op = "FinishCandidate" ->
            [s EXCEPT !.frames[d].candidate = entry.id, !.frames[d].ordinal = entry.ordinal,
                      !.frames[d].candidate_dead = entry.dead, !.frames[d].location_count = entry.old_count]
      [] entry.op = "Publish" ->
            [s EXCEPT !.frames[d].evaluated = s.root_evaluated,
                      !.root_shape = entry.old_shape, !.root_evaluated = entry.old_set]

(* The inverses of what a key under construction or just completed changed. *)
RevertKey(entry, s, d) ==
    CASE entry.op = "TruncateKey" -> Put(s, d, "key", Truncate(Part(s, d).key, entry.old_len))
      [] entry.op = "ResetKey" -> Put(Put(s, d, "key", entry.old_key), d, "key_decoder", entry.old_decoder)
      [] entry.op = "SeenDynamic" ->
            LET dynamic == Part(s, d).seen_dynamic
                rest == Truncate(dynamic[entry.hash], entry.old_len)
            IN Put(s, d, "seen_dynamic",
                   IF rest = <<>> THEN Restrict(dynamic, DOMAIN dynamic \ {entry.hash})
                                  ELSE [dynamic EXCEPT ![entry.hash] = rest])

(* The inverse of one logged mutation. *)
Revert(entry, s) ==
    LET d == entry.depth IN
    CASE entry.op = "Field" -> Put(s, d, entry.field, entry.old)
      [] entry.op = "Frame" -> [s EXCEPT !.frames[d] = entry.old]
      [] entry.op = "ReplaceAny" ->
            [s EXCEPT !.frames[d] = entry.old,
                      !.free = IF s.frames[d].kind = "AnyObject" THEN Append(@, s.frames[d].id) ELSE @]
      [] entry.op = "Cursor" -> CursorRollback(s, entry.id, entry.mark)
      [] entry.op = "StartCursor" -> ReleaseCursor(Put(s, d, entry.field, 0), entry.id)
      [] entry.op = "Reactivate" -> [s EXCEPT !.frames[d].active = @ \cup {entry.index}]
      [] entry.op \in {"StartCandidate", "FinishCandidate", "Publish"} -> RevertUnevaluated(entry, s, d)
      [] entry.op = "StartItem" -> ReleaseAll([s EXCEPT !.frames[d].item = <<>>], ItemCursor(s.frames[d].item))
      [] entry.op = "ItemContains" ->
            IF s.frames[d].item # <<>> THEN [s EXCEPT !.frames[d].item[1].contains = entry.old]
            ELSE IF entry.old[1] = "Cursor" THEN ReleaseCursor(s, entry.old[2]) ELSE s
      [] entry.op = "CanonicalBuild" ->
            [s EXCEPT !.frames[d].item[1].builder[1] = RestoreBuilder(@, entry.mark)]
      [] entry.op = "CanonicalInsert" ->
            [s EXCEPT !.frames[d].canonical = RollbackInsert(@, entry.hash, entry.old_len)]
      [] entry.op \in {"TruncateKey", "ResetKey", "SeenDynamic"} -> RevertKey(entry, s, d)
      [] entry.op = "InternKey" -> RevertIntern(s, entry.old_len)
      [] entry.op = "PopFrame" ->
            DiscardNewFrame([s EXCEPT !.frames = Front(@), !.scopes = Front(@)], Last(s.frames))
      [] entry.op = "PushFrame" ->
            [s EXCEPT !.frames = Append(@, entry.frame), !.scopes = Append(@, entry.scope)]

Checkpoint(s) ==
    [undo_len |-> Len(s.undo), document_bytes |-> s.document_bytes, accepting |-> s.accepting, dead |-> s.dead]

Rollback(s, mark) ==
    [FoldRight(Revert, SubSeq(s.undo, mark.undo_len + 1, Len(s.undo)), s) EXCEPT
        !.undo = SubSeq(s.undo, 1, mark.undo_len),
        !.document_bytes = mark.document_bytes,
        !.accepting = mark.accepting,
        !.dead = mark.dead]

(* Mutant: the arena is emptied whenever an object closes. *)
ReclaimAll(arena, starts) == IF starts = {} THEN arena ELSE <<>>

Reclaim(arena, starts) == IF starts = {} THEN arena ELSE Truncate(arena, Min(starts))

(* What is left over when an entry is dropped: the cursors of popped frames,
   and those a finished key, item or candidate was validated with. *)
Leftover(entry) ==
    CASE entry.op = "PushFrame" -> FrameCursors(entry.frame)
      [] entry.op = "FinishCandidate" -> <<entry.id>>
      [] entry.op = "ItemContains" -> IF entry.old[1] = "Cursor" THEN <<entry.old[2]>> ELSE <<>>
      [] entry.op = "Field" ->
            IF entry.field = "property_name" THEN Present(entry.old)
            ELSE IF entry.field = "item" THEN ItemCursor(entry.old) ELSE <<>>
      [] entry.op \notin {"PushFrame", "FinishCandidate", "ItemContains", "Field"} -> <<>>

(* Mutant: a released branch stays in the ledger of owned ones. *)
ReleasePrunedKeepsOwner(s, d) ==
    LET frame == s.frames[d] IN
    IF frame.kind = "Combinator" THEN ReleaseAll(s, SelectOwned(frame.cursors, frame.owned \ frame.active)) ELSE s

(* Branches and dependent schemas that died in the committed token. *)
ReleasePruned(s, d) ==
    LET frame == s.frames[d] IN
    CASE frame.kind \in {"Combinator", "Object"} ->
            [ReleaseAll(s, SelectOwned(frame.cursors, frame.owned \ frame.active)) EXCEPT
                !.frames[d].owned = {i \in @ : i \in frame.active}]
      [] frame.kind = "Negation" ->
            IF frame.inner_state = "PrunedOwned"
            THEN [ReleaseCursor(s, frame.inner) EXCEPT !.frames[d].inner_state = "Released"] ELSE s
      [] frame.kind \notin {"Combinator", "Object", "Negation"} -> s

CommitBuilder(frame) ==
    IF frame.kind = "Array" /\ frame.item # <<>> /\ frame.item[1].builder # <<>>
    THEN [frame EXCEPT !.item[1].builder[1] = CommitHistory(@)] ELSE frame

(* apply_commit: the log is drained from its end, the slots of closed AnyJson
   objects are free again, cursors nobody can go back to are released, and
   the key arena is cut back to the lowest fill level at which a closed
   object was opened. *)
ApplyCommitDrained(s, drained) ==
    FoldLeft(ReleasePruned, drained, [d \in DOMAIN s.frames |-> d])

ApplyCommit(s) ==
    LET Closed(kind) == {i \in DOMAIN s.undo : s.undo[i].op = "PushFrame" /\ s.undo[i].frame.kind = kind}
        starts == {s.undo[i].frame.arena_start : i \in Closed("Object")}
                    \cup {s.objs[s.undo[i].frame.id].arena_start : i \in Closed("AnyObject")}
        slots == FoldRight(LAMBDA e, ids :
                               IF e.op = "PushFrame" /\ e.frame.kind = "AnyObject"
                               THEN Append(ids, e.frame.id) ELSE ids,
                           s.undo, <<>>) IN
    ApplyCommitDrained(s,
        FoldRight(LAMBDA entry, t : ReleaseAll(t, Leftover(entry)), s.undo,
                  [s EXCEPT !.resettable = @ /\ s.document_bytes = s.initial.document_bytes,
                            !.undo = <<>>,
                            !.free = @ \o slots,
                            !.arena = Reclaim(@, starts),
                            !.frames = FoldLeft(LAMBDA frames, f : Append(frames, CommitBuilder(f)), <<>>, @)]))

(* apply_commit_tree: the sub-states first. *)
CommitCheckpoint(s) ==
    LET Committed(slot) == IF slot.kind = "Structured" THEN [slot EXCEPT !.sub = CommitCheckpoint(@)] ELSE slot
    IN ApplyCommit([s EXCEPT !.slots = FoldLeft(LAMBDA slots, slot : Append(slots, Committed(slot)), <<>>, @)])

----------------------------------------------------------------------------
(* Frames. *)

NodeOf(s, d) == Nodes[s.frames[d].node]

FreshObject(s) ==
    [phase |-> "BeforeFirstKeyOrClose", key |-> <<>>, key_decoder |-> "None",
     seen_dynamic |-> <<>>, arena_start |-> Len(s.arena), properties |-> 0]

PrepareFrame(s, node) ==
    LET plan == Nodes[node] IN
    CASE plan.kind = "Regular" -> [kind |-> "Regular", node |-> node, state |-> plan.start]
      [] plan.kind = "Number" -> [kind |-> "Number", node |-> node, state |-> "Leading", accumulator |-> NewAccumulator]
      [] plan.kind = "String" ->
            [kind |-> "String", node |-> node, phase |-> "BeforeQuote", decoder |-> "None", scalars |-> 0,
             pattern |-> {engine.start : engine \in plan.pattern}]
      [] plan.kind = "StringEnum" ->
            [kind |-> "StringEnum", node |-> node, phase |-> "BeforeQuote", decoder |-> "None", text |-> <<>>]
      [] plan.kind = "Array" ->
            [kind |-> "Array", node |-> node, phase |-> "Start", index |-> 0, canonical |-> <<>>,
             contains_count |-> 0, item |-> <<>>, evaluated |-> NoneEvaluated]
      [] plan.kind = "Object" ->
            [kind |-> "Object", node |-> node, resolved_value |-> <<>>, missing |-> plan.required, property_name |-> 0,
             seen_known |-> {}, dependent_seen |-> {}, evaluated |-> NoneEvaluated,
             cursors |-> <<>>, active |-> {}, owned |-> {}, triggered |-> {}]
                @@ [FreshObject(s) EXCEPT !.phase = "Start"]

(* The cursors of a new frame, one after the other; on an error those already
   started are released. *)
StartNextMore(s, more) ==
    IF Alive(more) THEN [more EXCEPT !.made = Append(@, SlotId(s))] ELSE more

StartNext(s, node, depth) ==
    StartNextMore(s, StartCursor(s, node, depth))

StartCursorsAll(s, all) ==
    LET started == SubSeq(all.made, Len(s.made) + 1, Len(all.made)) IN
       IF Alive(all) THEN all ELSE [ReleaseAll(all, Reverse(started)) EXCEPT !.made = s.made]

RECURSIVE StartEach(_, _, _)
StartEach(s, nodes, depth) ==
    IF nodes = <<>> THEN s ELSE StartEach(StartNext(s, nodes[1], depth), Tail(nodes), depth)

StartCursors(s, nodes, depth) == StartCursorsAll(s, StartEach(s, nodes, depth))

ChildDepth(s) == s.depth_offset + Len(s.frames) + 1

AppendFrame(s, frame) == IF Alive(s) THEN [s EXCEPT !.frames = Append(@, frame), !.made = <<>>] ELSE s

(* The ids of the cursors just started, in order. *)
Branches(s, nodes) == SubSeq(s.made, Len(s.made) - Len(nodes) + 1, Len(s.made))

(* A combinator runs its branches, an object its dependent schemas; only the
   object checks the depth once more. *)
RunSchemas(plan) == IF plan.kind = "Combinator" THEN plan.branches ELSE plan.dependent_schemas

PrepareCombinator(node, ids) ==
    [kind |-> "Combinator", node |-> node, cursors |-> ids, active |-> DOMAIN ids, owned |-> DOMAIN ids]

PrepareDependentObject(s, node, ids) ==
    [PrepareFrame(s, node) EXCEPT !.cursors = ids, !.active = DOMAIN ids, !.owned = DOMAIN ids]

PrepareFamilyStarted(s, node, plan, started) ==
    LET ids == Branches(started, RunSchemas(plan)) IN
    IF Alive(started)
    THEN AppendFrame(started, IF plan.kind = "Combinator" THEN PrepareCombinator(node, ids)
                              ELSE PrepareDependentObject(s, node, ids))
    ELSE started

PrepareFamily(s, node, plan) ==
    LET available == EnsureAvailable(s, Len(RunSchemas(plan)))
        checked == IF plan.kind = "Combinator" THEN available ELSE Within(available, ChildDepth(s), s.limits.max_depth) IN
    PrepareFamilyStarted(s, node, plan, StartCursors(checked, RunSchemas(plan), ChildDepth(s)))

(* Two cursors, the first of which is taken back when the second one fails. *)
StartPairBoth(s, both) ==
    IF Alive(both) \/ both.made = s.made THEN both
    ELSE [RollbackUnpublished(both, Last(both.made), s) EXCEPT !.made = s.made]

StartPair(s, pair) ==
    StartPairBoth(s, StartEach(Within(EnsureAvailable(s, 2), ChildDepth(s), s.limits.max_depth), pair, ChildDepth(s)))

PrepareNegation(node, ids) ==
    [kind |-> "Negation", node |-> node, syntax |-> ids[1], inner |-> ids[2], inner_state |-> "Active"]

PrepareUnevaluated(node, ids) ==
    [kind |-> "Unevaluated", node |-> node, cursor |-> ids[1], tracker |-> ids[2], candidate |-> 0, ordinal |-> 0,
     candidate_dead |-> FALSE, candidates |-> NoneEvaluated, location_count |-> 0, instance_kind |-> "None"]

PreparePairStarted(node, plan, started) ==
    LET ids == Branches(started, <<1, 2>>) IN
    IF Alive(started)
    THEN AppendFrame(started, IF plan.kind = "Negation" THEN PrepareNegation(node, ids) ELSE PrepareUnevaluated(node, ids))
    ELSE started

PreparePair(s, node, plan) ==
    PreparePairStarted(node, plan,
        StartPair(s, IF plan.kind = "Negation" THEN <<"AnyJson", plan.inner>> ELSE <<plan.scope, "AnyJson">>))

(* prepare_resolved_child_frame and the push of what it prepared, under the
   scope the node is entered with; an unsupported node has no frame. *)
PrepareResolvedMade(s, made) ==
    IF Alive(made) THEN made ELSE [made EXCEPT !.scopes = s.scopes]

RunsFamily(plan) == plan.kind = "Combinator" \/ (plan.kind = "Object" /\ plan.dependent_schemas # <<>>)

PrepareResolved(s, node, scope) ==
    LET plan == Nodes[node]
        entered == IF Alive(s) THEN [s EXCEPT !.scopes = Append(@, scope)] ELSE s IN
    PrepareResolvedMade(s,
        CASE plan.kind = "Unsupported" -> Answer(entered, "false")
          [] RunsFamily(plan) -> PrepareFamily(entered, node, plan)
          [] plan.kind \in {"Negation", "Unevaluated"} -> PreparePair(entered, node, plan)
          [] plan.kind \in {"Regular", "Number", "String", "StringEnum", "Array", "Object"} /\ ~RunsFamily(plan) ->
                AppendFrame(entered, PrepareFrame(s, node)))

AnyScalar(phase, bytes) == [kind |-> "AnyScalar", phase |-> phase, bytes |-> bytes]

PopNewFrame == [op |-> "PopFrame", depth |-> 0]

(* push_child: references are resolved, the depth checked, an entry reserved. *)
PushChildAt(s, at) ==
    LET resolved == IF at.out = "ok" THEN s ELSE Answer(s, "err")
        ready == ReserveUndo(Within(resolved, ChildDepth(s), s.limits.max_depth), 1) IN
       PushUndo(PrepareResolved(ready, at.node, at.scope), PopNewFrame)

PushChild(s, node) ==
    PushChildAt(s, ResolveRuntimeNode(node, Last(s.scopes), s.limits))

(* push_any_child does not count the depth of the state itself. *)
PushAnyChild(s) ==
    LET ready == ReserveUndo(Within(s, Len(s.frames) + 1, s.limits.max_depth), 1)
    IN IF Alive(ready)
       THEN PushUndo([ready EXCEPT !.frames = Append(@, AnyScalar("BeforeValue", 0)), !.scopes = Append(@, Last(@))],
                     PopNewFrame)
       ELSE ready

(* Several schemas hold of one value: a cursor for each, in lockstep. *)
PushObligationChildStarted(nodes, started) ==
    LET frame == [kind |-> "Obligation", cursors |-> Branches(started, nodes)] IN
       IF Alive(started)
       THEN PushUndo([AppendFrame(started, frame) EXCEPT !.scopes = Append(@, Last(@))], PopNewFrame)
       ELSE started

PushObligationChild(s, nodes) ==
    LET checked == EnsureAvailable(Within(s, ChildDepth(s), s.limits.max_depth), Len(nodes)) IN
    PushObligationChildStarted(nodes, StartCursors(ReserveUndo(checked, 1), nodes, s.depth_offset + Len(s.frames)))

(* A value's obligations: any value, or all of some schemas. *)
PushValue(s, target) ==
    CASE target = <<"AnyJson">> -> PushAnyChild(s)
      [] target # <<"AnyJson">> -> IF Len(target) = 1 THEN PushChild(s, target[1]) ELSE PushObligationChild(s, target)

PopLogged(s) ==
    LET ready == ReserveUndo(s, 1)
    IN IF Alive(ready)
       THEN PushUndo([ready EXCEPT !.frames = Front(@), !.scopes = Front(@)],
                     [op |-> "PushFrame", depth |-> 0, frame |-> Last(s.frames), scope |-> Last(s.scopes)])
       ELSE ready

(* A completed frame is popped; the root's completion closes the document. *)
PopFramePopped(s, popped) ==
    IF ~Alive(s) THEN s
    ELSE IF Len(s.frames) > 1 THEN popped ELSE Assign(popped, 0, "root_closed", TRUE)

PopFrame(s) ==
    PopFramePopped(s, PopLogged(s))

----------------------------------------------------------------------------
(* Observers of a byte: the item trackers of the arrays above the frame that
   consumed it and the dependent schemas of the objects up to it. *)

LogCursor(s, id, mark) == PushUndo(s, [op |-> "Cursor", depth |-> 0, id |-> id, mark |-> mark])

(* push_cursor_byte with `?`. *)
TryCursorPushed(s, pushed) ==
    IF ~Alive(s) THEN s ELSE IF pushed.step = "err" THEN Answer(pushed, "err") ELSE pushed

TryCursor(s, id, byte) ==
    TryCursorPushed(s, PushCursorByte(s, id, byte))

(* A contains cursor that dies only ends the item's candidacy. *)
FeedContainsPushed(s, d, old, ready, pushed) ==
    CASE old[1] # "Cursor" -> s
      [] old[1] = "Cursor" ->
            IF ~Alive(ready) \/ ~Alive(pushed) THEN pushed
            ELSE IF pushed.step = "Live" THEN LogCursor(pushed, old[2], CursorMark(s, old[2]))
            ELSE [PushUndo(pushed, [op |-> "ItemContains", depth |-> d, old |-> old]) EXCEPT
                     !.frames[d].item[1].contains = <<"Dead">>]

FeedContains(s, d, byte) ==
    LET old == s.frames[d].item[1].contains
        ready == ReserveUndo(s, 1) IN
    FeedContainsPushed(s, d, old, ready, TryCursor(ready, old[2], byte))

FeedItemTrackerFed(d, ready, builder, fed) ==
    IF ~Alive(ready) \/ builder = <<>> THEN ready
    ELSE IF fed.out = "err" THEN Answer(ready, "err")
    ELSE [PushUndo(ready, [op |-> "CanonicalBuild", depth |-> d, mark |-> BuilderMark(builder[1])]) EXCEPT
             !.frames[d].item[1].builder[1] = fed]

FeedItemTrackerReady(s, d, byte, ready) ==
    LET builder == s.frames[d].item[1].builder IN
    FeedItemTrackerFed(d, ready, builder, FeedItem(builder[1], byte))

FeedItemTracker(s, d, byte) ==
    FeedItemTrackerReady(s, d, byte, ReserveUndo(FeedContains(s, d, byte), 1))

FeedDependencyPushed(s, d, index, id, pushed) ==
    IF ~Alive(pushed) THEN pushed
    ELSE IF pushed.step = "Live" THEN LogCursor(pushed, id, CursorMark(s, id))
    ELSE [PushUndo(pushed, [op |-> "Reactivate", depth |-> d, index |-> index]) EXCEPT
             !.frames[d].active = @ \ {index}]

FeedDependency(s, d, index, byte) ==
    LET id == s.frames[d].cursors[index] IN
    FeedDependencyPushed(s, d, index, id, TryCursor(s, id, byte))

(* A triggered dependent schema that dies kills the state. *)
FeedObjectDependenciesFed(d, fed) ==
    IF Alive(fed) THEN [fed EXCEPT !.dead = @ \/ ~(fed.frames[d].triggered \subseteq fed.frames[d].active)]
    ELSE fed

RECURSIVE FeedEachDependency(_, _, _, _), FeedTrackers(_, _, _), FeedDependencies(_, _, _)
FeedEachDependency(s, d, indexes, byte) ==
    IF indexes = {} THEN s
    ELSE FeedEachDependency(FeedDependency(s, d, Min(indexes), byte), d, indexes \ {Min(indexes)}, byte)

FeedObjectDependencies(s, d, byte) ==
    LET active == s.frames[d].active IN
    FeedObjectDependenciesFed(d, FeedEachDependency(ReserveUndo(s, Cardinality(active)), d, active, byte))

(* record_item_byte: the arrays around the consumer first, from the outermost
   one, then the objects, the consumer included. *)
FeedTrackers(s, depths, byte) ==
    LET d == Min(depths)
        tracks == s.frames[d].kind = "Array" /\ s.frames[d].item # <<>> IN
    IF ~Alive(s) \/ depths = {} THEN s
    ELSE FeedTrackers(IF tracks THEN FeedItemTracker(s, d, byte) ELSE s, depths \ {d}, byte)

FeedDependencies(s, depths, byte) ==
    LET d == Min(depths)
        depends == s.frames[d].kind = "Object" /\ s.frames[d].cursors # <<>> IN
    IF ~Alive(s) \/ depths = {} THEN s
    ELSE FeedDependencies(IF depends THEN FeedObjectDependencies(s, d, byte) ELSE s, depths \ {d}, byte)

RecordItemByte(s, consumer, byte) ==
    IF ~Alive(s) \/ s.observed THEN s
    ELSE FeedDependencies(FeedTrackers([s EXCEPT !.observed = TRUE], 1 .. consumer - 1, byte), 1 .. consumer, byte)

(* uniqueItems: the item's value is finished and must be new. *)
FinishCanonicalItemLogged(d, ready, builder, done, value, set, logged) ==
    IF ~Alive(ready) THEN ready
    ELSE IF ~CanFinish(builder) THEN Answer(ready, "err")
    ELSE IF SetContains(set, value) THEN Answer(ready, "false")
    ELSE [logged EXCEPT !.frames[d].item[1].builder[1] = done, !.frames[d].canonical = SetInsert(set, value)]

FinishCanonicalItemDone(s, d, ready, builder, done) ==
    LET value == done.root[1]
        set == s.frames[d].canonical
        hash == Fingerprint(value) IN
    FinishCanonicalItemLogged(d, ready, builder, done, value, set,
        PushUndo(PushUndo(ready, [op |-> "CanonicalBuild", depth |-> d, mark |-> BuilderMark(builder)]),
                 [op |-> "CanonicalInsert", depth |-> d, hash |-> hash, old_len |-> Len(ItemBucket(set, hash))]))

FinishCanonicalItem(s, d) ==
    LET ready == ReserveUndo(s, 2)
        builder == s.frames[d].item[1].builder[1] IN
    FinishCanonicalItemDone(s, d, ready, builder, FinishBuilder(builder))

(* finish_array_item_tracker: duplicates, annotations, the contains count. *)
FinishItemTaken(d, frame, plan, matched, taken) ==
    LET count == frame.contains_count + 1 IN
       IF matched THEN Assign(Require(taken, \A rule \in plan.contains : count <= rule.max), d, "contains_count", count)
       ELSE taken

FinishItemAnnotated(d, frame, plan, matched, annotated) ==
    FinishItemTaken(d, frame, plan, matched, Assign(annotated, d, "item", <<>>))

FinishItemUnique(d, frame, plan, matched, unique) ==
    FinishItemAnnotated(d, frame, plan, matched,
        IF matched /\ plan.annotations_required
        THEN InsertEvaluated(unique, d, "evaluated", frame.index - 1) ELSE unique)

FinishItem(s, d) ==
    LET frame == s.frames[d]
        plan == NodeOf(s, d)
        candidate == frame.item[1].contains
        matched == \E rule \in plan.contains :
                        \/ rule.matches = "Always"
                        \/ candidate[1] = "Cursor" /\ CursorAccepts(s, candidate[2]) IN
    FinishItemUnique(d, frame, plan, matched, IF plan.unique_items THEN FinishCanonicalItem(s, d) ELSE s)

(* finish_tracked_item_if_direct_child. *)
FinishTrackedItem(s, d) ==
    IF Alive(s) /\ d > 1 /\ s.frames[d - 1].kind = "Array" /\ s.frames[d - 1].item # <<>>
    THEN FinishItem(s, d - 1) ELSE s

TrackedItemIsClosed(s, d) ==
    /\ d > 1
    /\ s.frames[d - 1].kind = "Array"
    /\ s.frames[d - 1].item # <<>>
    /\ s.frames[d - 1].item[1].builder # <<>>
    /\ ItemIsDone(s.frames[d - 1].item[1].builder[1])

PopValue(s, d) == PopFrame(FinishTrackedItem(s, d))

----------------------------------------------------------------------------
(* Keys, shared by schema objects and AnyJson objects. *)

ResetKey(s, d) ==
    LET part == Part(s, d)
    IN IF Alive(s)
       THEN PushUndo(Put(Put(s, d, "key", <<>>), d, "key_decoder", "None"),
                     [op |-> "ResetKey", depth |-> d, old_key |-> part.key, old_decoder |-> part.key_decoder])
       ELSE s

StartAnyKey(s, d) == Assign(ResetKey(ReserveUndo(s, 1), d), d, "phase", "InKey")

(* propertyNames: a cursor reads the key with its quotes, and is released
   when the key cannot begin or the log is full. *)
StartKeyLogged(s, d, names, started, id, ready, logged) ==
    CASE ~Alive(s) -> s
      [] Alive(s) /\ names = {} -> StartAnyKey(s, d)
      [] Alive(s) /\ names # {} ->
            IF ~Alive(started) THEN started
            ELSE IF ~Alive(ready) THEN ReleaseCursor(ready, id)
            ELSE Assign([logged EXCEPT !.frames[d].property_name = id], d, "phase", "InKey")

StartKeyPushed(s, d, names, started, id, pushed) ==
    LET quoted == IF Alive(pushed) THEN Require(pushed, pushed.step = "Live") ELSE pushed
        ready == ReserveUndo(quoted, 2) IN
    StartKeyLogged(s, d, names, started, id, ready,
        PushUndo(ResetKey(ready, d), [op |-> "StartCursor", depth |-> d, field |-> "property_name", id |-> id]))

StartKeyStarted(s, d, names, started) ==
    LET id == SlotId(s) IN
    StartKeyPushed(s, d, names, started, id, TryCursor(started, id, "\""))

StartKey(s, d) ==
    LET names == NodeOf(s, d).property_names IN
    StartKeyStarted(s, d, names, StartCursor(s, CHOOSE node \in names : TRUE, s.depth_offset + Len(s.frames)))

PushKeyScalarGrown(s, d, step, grown) ==
    IF ~step.ok THEN Answer(s, "false")
    ELSE Assign(IF step.scalar = <<>> THEN s ELSE grown, d, "key_decoder", step.decoder)

PushKeyScalar(s, d, byte) ==
    LET part == Part(s, d)
        step == Decode(part.key_decoder, byte)
        ready == ReserveUndo(Within(s, Len(part.key) + 1, s.limits.max_key_bytes), 1) IN
    PushKeyScalarGrown(s, d, step,
        IF Alive(ready)
        THEN PushUndo(Put(ready, d, "key", part.key \o step.scalar),
                      [op |-> "TruncateKey", depth |-> d, old_len |-> Len(part.key)])
        ELSE ready)

(* KeyArena::get answers None for an id past the arena's end. *)
Names(s, ids) == {s.arena[ids[i]] : i \in {j \in DOMAIN ids : ids[j] <= Len(s.arena)}}

SeenNames(s, part) == UNION {Names(s, ids) : ids \in Range(part.seen_dynamic)}

KeyInterned(s, d) ==
    LET part == Part(s, d) IN part.key \in Names(s, Bucket(part.seen_dynamic, KeyHash(part.key)))

InternKey(s, d) ==
    LET part == Part(s, d)
        hash == KeyHash(part.key)
        ids == Bucket(part.seen_dynamic, hash)
        ready == ReserveUndo(s, 2)
        stored == PushUndo([ready EXCEPT !.arena = Append(@, part.key)],
                           [op |-> "InternKey", depth |-> 0, old_len |-> Len(s.arena)])
        seen == PushUndo(stored, [op |-> "SeenDynamic", depth |-> d, hash |-> hash, old_len |-> Len(ids)])
    IN IF ~Alive(s) THEN s
       ELSE IF KeyInterned(s, d) THEN Answer(s, "false")
       ELSE IF Alive(ready)
            THEN Put(seen, d, "seen_dynamic", (hash :> Append(ids, Len(s.arena) + 1)) @@ part.seen_dynamic)
            ELSE ready

----------------------------------------------------------------------------
(* Objects with a schema. *)

CanConsumeScalar(engine, q) == \E step \in DOMAIN engine.next : step[1] = q

(* The names a closed object can still reach from a key: unseen, satisfiable,
   and matched by no pattern whose value is unsatisfiable. *)
OpenNames(s, d) ==
    LET node == NodeOf(s, d)
    IN {name \in node.viable \ s.frames[d].seen_known :
            \A i \in DOMAIN node.patterns :
                node.patterns[i].satisfiable \/ ~EngineAccepts(node.patterns[i].engine, name)}

(* The names of a pattern's language below a prefix that are used up. *)
Unavailable(s, d, engine, prefix) ==
    LET node == NodeOf(s, d)
        known == {name \in DOMAIN node.known : name \in s.frames[d].seen_known \/ name \notin node.viable}
    IN Cardinality({name \in known \cup SeenNames(s, s.frames[d]) :
                        IsPrefix(prefix, name) /\ EngineAccepts(engine, name)})

(* object_key_prefix_viable: a closed object admits a key only while an open
   name or an unused word of the patterns extends it. *)
PrefixViable(s, d, prefix) ==
    \/ NodeOf(s, d).additional # "Forbid"
    \/ \E name \in OpenNames(s, d) : IsPrefix(prefix, name)
    \/ \E engine \in NodeOf(s, d).viable_pattern : \E q \in ConsumeText(engine, engine.start, prefix) :
            engine.count[q] > Unavailable(s, d, engine, prefix)

NextKeyViable(s, d) == PrefixViable(s, d, <<>>)

(* Mutant: a complete key is not a prefix of itself. *)
CurrentKeyStrict(s, d) ==
    \/ NodeOf(s, d).additional # "Forbid"
    \/ \E name \in OpenNames(s, d) : IsStrictPrefix(s.frames[d].key, name)

(* A pending escape may still become any scalar. *)
CurrentKeyViable(s, d) ==
    LET key == s.frames[d].key
    IN IF s.frames[d].key_decoder = "None" THEN PrefixViable(s, d, key)
       ELSE \/ NodeOf(s, d).additional # "Forbid"
            \/ \E name \in OpenNames(s, d) : IsStrictPrefix(key, name)
            \/ \E engine \in NodeOf(s, d).viable_pattern : \E q \in ConsumeText(engine, engine.start, key) :
                    CanConsumeScalar(engine, q)

MatchingPatterns(s, d) ==
    LET node == NodeOf(s, d)
    IN {i \in DOMAIN node.patterns : EngineAccepts(node.patterns[i].engine, s.frames[d].key)}

CompleteKeyViable(s, d) ==
    LET node == NodeOf(s, d)
        key == s.frames[d].key
        matching == MatchingPatterns(s, d)
    IN \/ node.additional # "Forbid"
       \/ /\ key \in DOMAIN node.known => key \in node.viable
          /\ \A i \in matching : node.patterns[i].satisfiable
          /\ key \in DOMAIN node.known \/ matching # {}

KeyIsDuplicate(s, d) ==
    LET key == s.frames[d].key
    IN IF key \in DOMAIN NodeOf(s, d).known THEN key \in s.frames[d].seen_known ELSE KeyInterned(s, d)

RecordDependentRequired(s, d) ==
    LET key == s.frames[d].key
        seen == s.frames[d].dependent_seen
        rules == NodeOf(s, d).dependent_required
    IN IF ~Alive(s) \/ key \notin DOMAIN rules \cup UNION Range(rules) THEN s
       ELSE IF key \in seen THEN Answer(s, "err")
       ELSE Assign(s, d, "dependent_seen", seen \cup {key})

(* A trigger whose schema has already died refuses the key. *)
TriggerDependentSchema(s, d) ==
    LET key == s.frames[d].key
        rules == NodeOf(s, d).dependent_by_name
        frame == s.frames[d]
    IN IF ~Alive(s) \/ key \notin DOMAIN rules THEN s
       ELSE Require(IF rules[key] \in frame.triggered THEN s
                    ELSE Assign(s, d, "triggered", frame.triggered \cup {rules[key]}),
                    rules[key] \in frame.active)

(* The propertyNames cursor takes the byte of the key first. *)
PushPropertyNamePushed(s, id, pushed) ==
    IF id = 0 THEN s
    ELSE IF ~Alive(pushed) THEN pushed
    ELSE IF pushed.step = "Live" THEN LogCursor(pushed, id, CursorMark(s, id)) ELSE Answer(pushed, "false")

PushPropertyName(s, d, byte, entries) ==
    LET id == s.frames[d].property_name
        ready == ReserveUndo(s, entries) IN
    PushPropertyNamePushed(s, id, TryCursor(ready, id, byte))

FinishPropertyName(s, d) ==
    LET id == s.frames[d].property_name
    IN IF ~Alive(s) \/ id = 0 THEN s ELSE Logged(Require(s, CursorAccepts(s, id)), d, "property_name", 0)

PushKeyByteGrown(d, closes, complete, grown) ==
    IF closes
    THEN Assign(TriggerDependentSchema(RecordDependentRequired(complete, d), d), d, "phase", "AfterKeyBeforeColon")
    ELSE IF Alive(grown) THEN Require(grown, CurrentKeyViable(grown, d)) ELSE grown

PushKeyByteRead(d, byte, closes, complete, read) ==
    PushKeyByteGrown(d, closes, complete, IF Alive(read) THEN PushKeyScalar(read, d, byte) ELSE read)

PushKeyByteComplete(s, d, byte, closes, complete) ==
    PushKeyByteRead(d, byte, closes, complete, PushPropertyName(s, d, byte, 1))

PushKeyByteNamed(s, d, byte, closes, named) ==
    PushKeyByteComplete(s, d, byte, closes, Require(named, ~KeyIsDuplicate(s, d) /\ CompleteKeyViable(s, d)))

PushKeyByte(s, d, byte) ==
    LET closes == byte = "\"" /\ s.frames[d].key_decoder = "None" IN
    PushKeyByteNamed(s, d, byte, closes, FinishPropertyName(PushPropertyName(s, d, byte, 2), d))

(* resolve_property: the schemas a key's value obeys, its own first, then
   those of the patterns that match, each once; else the additional one. *)
RECURSIVE InsertSchemas(_, _, _)
InsertSchemas(schemas, node, matching) ==
    LET value == node.patterns[Min(matching)].value IN
    IF matching = {} THEN schemas
    ELSE InsertSchemas(IF value \in ToSet(schemas) THEN schemas ELSE Append(schemas, value), node, matching \ {Min(matching)})

ResolvePropertyMatched(node, matched) ==
    IF matched # <<>> THEN matched
    ELSE IF node.additional \in {"Open", "AllowAny"} THEN <<"AnyJson">> ELSE <<node.additional>>

ResolveProperty(s, d) ==
    LET node == NodeOf(s, d)
        key == s.frames[d].key
        own == IF key \in DOMAIN node.known THEN <<node.known[key]>> ELSE <<>> IN
    ResolvePropertyMatched(node, InsertSchemas(own, node, MatchingPatterns(s, d)))

PropertyAnnotates(s, d) ==
    \/ NodeOf(s, d).additional # "Open"
    \/ s.frames[d].key \in DOMAIN NodeOf(s, d).known
    \/ MatchingPatterns(s, d) # {}

MarkKnownMarked(s, d, key, frame, marked) ==
    IF ~Alive(s) THEN s
    ELSE IF key \in frame.seen_known THEN Answer(s, "false")
    ELSE IF key \in frame.missing THEN Assign(marked, d, "missing", frame.missing \ {key}) ELSE marked

MarkKnown(s, d) ==
    LET key == s.frames[d].key
        frame == s.frames[d] IN
    MarkKnownMarked(s, d, key, frame, Assign(s, d, "seen_known", frame.seen_known \cup {key}))

ResolveAtColonCounted(d, target, counted) ==
    Assign(Assign(counted, d, "resolved_value", target), d, "phase", "AfterColonBeforeValue")

ResolveAtColonAnnotated(d, node, key, target, annotated) ==
    ResolveAtColonCounted(d, target,
        IF key \in DOMAIN node.known THEN MarkKnown(annotated, d) ELSE InternKey(annotated, d))

ResolveAtColonTarget(s, d, node, key, target) ==
    LET sized == Within(s, Len(node.patterns) * Len(key), s.limits.max_mask_work)
        allowed == Require(sized, target # <<"Forbid">>) IN
    ResolveAtColonAnnotated(d, node, key, target,
        IF node.annotations_required /\ PropertyAnnotates(s, d)
        THEN InsertEvaluated(allowed, d, "evaluated", s.frames[d].properties) ELSE allowed)

ResolveAtColon(s, d) ==
    LET node == NodeOf(s, d)
        key == s.frames[d].key IN
    ResolveAtColonTarget(s, d, node, key, ResolveProperty(s, d))

(* The resolved value leaves the frame only when its child is on the stack
   and the parent's entries are reserved. *)
StartValueTaken(s, d, count, taken) ==
    Assign(Within(taken, count, s.limits.max_properties), d, "properties", count)

StartValuePushed(s, d, count, pushed) ==
    StartValueTaken(s, d, count,
        Assign(Logged(pushed, d, "resolved_value", <<>>), d, "phase", "AfterValueBeforeCommaOrClose"))

StartValue(s, d) ==
    LET count == s.frames[d].properties + 1 IN
    StartValuePushed(s, d, count, ReserveUndo(PushValue(s, s.frames[d].resolved_value), 3))

(* Mutant: dependentRequired is not looked at. *)
DependentRequiredIgnored(s, d) == TRUE

DependentRequiredSatisfied(s, d) ==
    LET rules == NodeOf(s, d).dependent_required
        seen == s.frames[d].dependent_seen
    IN \A trigger \in DOMAIN rules \cap seen : rules[trigger] \subseteq seen

DependentSchemasSatisfied(s, d) ==
    \A index \in s.frames[d].triggered :
        index \in s.frames[d].active /\ CursorAccepts(s, s.frames[d].cursors[index])

RECURSIVE MergeTriggered(_, _, _)
MergeTriggered(s, d, indexes) ==
    IF indexes = {} THEN s
    ELSE MergeTriggered(MergeCursorAnnotations(s, d, "evaluated", "Object", s.frames[d].cursors[Min(indexes)]),
                        d, indexes \ {Min(indexes)})

CloseObjectMerged(d, node, closing, merged) ==
    LET published == IF d = 1 THEN PublishRootAnnotations(merged, d, "Object") ELSE merged IN
       IF ~Alive(closing) THEN closing
       ELSE PopValue(IF node.annotations_required THEN published ELSE closing, d)

CloseObjectClosing(d, node, frame, closing) ==
    CloseObjectMerged(d, node, closing, MergeTriggered(closing, d, frame.triggered))

CloseObjectRecorded(s, d, node, frame, recorded) ==
    CloseObjectClosing(d, node, frame,
        Require(recorded, /\ ~recorded.dead
                          /\ frame.missing = {}
                          /\ frame.properties \in node.min_properties .. node.max_properties
                          /\ DependentSchemasSatisfied(recorded, d)
                          /\ DependentRequiredSatisfied(s, d)))

CloseObject(s, d, byte) ==
    LET node == NodeOf(s, d)
        frame == s.frames[d] IN
    CloseObjectRecorded(s, d, node, frame, RecordItemByte(s, d, byte))

RouteObject(s, d, byte) ==
    LET frame == s.frames[d]
        spaces == frame.phase # "InKey" /\ byte \in WS
    IN CASE spaces -> Consumed(s)
         [] ~spaces /\ frame.phase = "Start" ->
               Consumed(Assign(Require(s, byte = "{"), d, "phase", "BeforeFirstKeyOrClose"))
         [] byte = "}" /\ frame.phase \in {"BeforeFirstKeyOrClose", "AfterValueBeforeCommaOrClose"} ->
               Consumed(CloseObject(s, d, byte))
         [] ~spaces /\ (frame.phase = "AfterCommaBeforeKey" \/ (frame.phase = "BeforeFirstKeyOrClose" /\ byte # "}")) ->
               Consumed(StartKey(Require(s, byte = "\"" /\ NextKeyViable(s, d)), d))
         [] ~spaces /\ frame.phase = "InKey" -> Consumed(PushKeyByte(s, d, byte))
         [] ~spaces /\ frame.phase = "AfterKeyBeforeColon" ->
               Consumed(IF byte = ":" THEN ResolveAtColon(s, d) ELSE Answer(s, "false"))
         [] ~spaces /\ frame.phase = "AfterColonBeforeValue" -> StartValue(s, d)
         [] ~spaces /\ frame.phase = "AfterValueBeforeCommaOrClose" /\ byte # "}" ->
               Consumed(Assign(Require(s, /\ byte = ","
                                          /\ frame.properties < NodeOf(s, d).max_properties
                                          /\ NextKeyViable(s, d)),
                               d, "phase", "AfterCommaBeforeKey"))

----------------------------------------------------------------------------
(* Scalars with a schema. *)

(* A value whose only continuation is whitespace, or whose canonical form is
   complete, is popped at once; one that cannot take the byte is popped and
   leaves the byte to its parent. *)
RouteRegularMoved(s, d, byte, engine, old, next, moved) ==
    LET closes == next \in engine.accept /\ (TrackedItemIsClosed(moved, d) \/ ~ExtendsValue(engine, next)) IN
       IF Live(engine, old, byte)
       THEN Consumed(IF Alive(moved) /\ closes THEN PopValue(moved, d) ELSE moved)
       ELSE PopValue(Require(s, old \in engine.accept), d)

RouteRegular(s, d, byte) ==
    LET engine == NodeOf(s, d)
        old == s.frames[d].state
        next == engine.next[old, byte] IN
    RouteRegularMoved(s, d, byte, engine, old, next, RecordItemByte(Assign(s, d, "state", next), d, byte))

RouteNumberAccumulator(s, d, byte, frame, plan, next, sized, accumulator) ==
    LET ready == ReserveUndo(Require(sized, NumberPrefixSignViable(accumulator, plan)), 1)
        moved == SetFrame(ready, d, "Frame", [frame EXCEPT !.state = next, !.accumulator = accumulator]) IN
       IF next # "None"
       THEN Consumed(RecordItemByte(moved, d, byte))
       ELSE PopValue(Require(s, NumberSyntaxAccepts(frame.state) /\ NumberAccepts(frame.accumulator, plan)), d)

RouteNumberNext(s, d, byte, frame, plan, next) ==
    LET sized == IF byte \in WS THEN s ELSE Within(s, frame.accumulator.bytes + 1, s.limits.max_number_bytes) IN
    RouteNumberAccumulator(s, d, byte, frame, plan, next, sized,
        PushNumberByte(frame.accumulator, byte, Modulus(plan)))

RouteNumber(s, d, byte) ==
    LET frame == s.frames[d]
        plan == NodeOf(s, d) IN
    RouteNumberNext(s, d, byte, frame, plan, NumberSyntax(frame.state, byte))

CloseString(s, d, byte) == PopValue(RecordItemByte(s, d, byte), d)

(* minLength, maxLength and pattern count and read decoded scalars. *)
RouteString(s, d, byte) ==
    LET frame == s.frames[d]
        plan == NodeOf(s, d)
        step == Decode(frame.decoder, byte)
        count == frame.scalars + 1
        states == UNION {ConsumeText(engine, q, step.scalar) : engine \in plan.pattern, q \in frame.pattern}
        Accepting(qs) == \A engine \in plan.pattern : qs \cap engine.accept # {}
        can_continue == /\ frame.scalars < plan.max_scalars
                        /\ \A engine \in plan.pattern : \E q \in frame.pattern : CanConsumeScalar(engine, q)
        can_count == /\ count <= plan.max_scalars
                     /\ plan.pattern # {} => states # {}
                     /\ count = plan.max_scalars => Accepting(states)
        Become(t, new) == Consumed(SetFrame(ReserveUndo(t, 1), d, "Frame", new))
    IN CASE frame.phase = "BeforeQuote" ->
               IF byte \in WS THEN Consumed(s) ELSE Become(Require(s, byte = "\""), [frame EXCEPT !.phase = "Body"])
         [] frame.phase = "Body" /\ byte = "\"" /\ frame.decoder = "None" ->
               Consumed(CloseString(Require(s, frame.scalars \in plan.min_scalars .. plan.max_scalars
                                                /\ Accepting(frame.pattern)), d, byte))
         [] frame.phase = "Body" /\ ~(byte = "\"" /\ frame.decoder = "None") ->
               IF step.scalar = <<>>
               THEN Become(Require(s, step.ok /\ can_continue), [frame EXCEPT !.decoder = step.decoder])
               ELSE Become(Require(s, step.ok /\ can_count),
                           [frame EXCEPT !.decoder = step.decoder, !.scalars = count, !.pattern = states])

(* encode_decoded_json_string. *)
RECURSIVE EscapeText(_)
EscapeText(text) ==
    IF text = <<>> THEN <<>>
    ELSE (IF text[1] \in {"\"", "\\"} THEN <<"\\", text[1]>> ELSE <<text[1]>>) \o EscapeText(Tail(text))

EncodeString(text) == <<"\"">> \o EscapeText(text) \o <<"\"">>

(* contains_schema_matches_decoded_string: only enums and regular values
   answer; any other schema may or may not match. *)
RECURSIVE FollowRefs(_, _)
FollowRefs(node, hops) ==
    IF Nodes[node].kind = "Ref" /\ hops > 0 THEN FollowRefs(Nodes[node].target, hops - 1) ELSE node

ContainsMatchesString(node, text) ==
    LET plan == Nodes[FollowRefs(node, Cardinality(DOMAIN Nodes))]
    IN CASE plan.kind = "StringEnum" -> text \in plan.members
         [] plan.kind = "Regular" -> EngineAccepts(plan, EncodeString(text))
         [] plan.kind \notin {"StringEnum", "Regular"} -> FALSE

RespectsContainsCap(s, d, text) ==
    \A rule \in NodeOf(s, d).contains :
        \/ rule.max # s.frames[d].contains_count
        \/ rule.matches = "Never"
        \/ rule.matches # "Always" /\ ~ContainsMatchesString(rule.matches, text)

(* An enum member is still possible in the array that is its parent. *)
Unseen(s, d, members) ==
    \/ d = 1
    \/ s.frames[d - 1].kind # "Array"
    \/ \E member \in members : /\ ~ContainsString(s.frames[d - 1].canonical, member)
                               /\ RespectsContainsCap(s, d - 1, member)

(* An escape is open: any member with a scalar left after the text will do. *)
AnyScalarUnseen(s, d, longer) == longer # {} /\ Unseen(s, d, longer)

RouteStringEnum(s, d, byte) ==
    LET frame == s.frames[d]
        members == NodeOf(s, d).members
        Extending(text) == {member \in members : IsPrefix(text, member)}
        step == Decode(frame.decoder, byte)
        longer == Extending(frame.text) \ {frame.text}
        text == frame.text \o step.scalar
        sized == Within(Require(s, step.ok /\ Extending(text) # {}), Len(text), s.limits.max_string_bytes)
        Become(t, new) == Consumed(SetFrame(ReserveUndo(t, 1), d, "Frame", new))
    IN CASE frame.phase = "BeforeQuote" ->
               IF byte \in WS THEN Consumed(s)
               ELSE Become(Require(s, byte = "\"" /\ Unseen(s, d, members)), [frame EXCEPT !.phase = "Body"])
         [] frame.phase = "Body" /\ byte = "\"" /\ frame.decoder = "None" ->
               Consumed(CloseString(Require(s, frame.text \in members /\ Unseen(s, d, Extending(frame.text))), d, byte))
         [] frame.phase = "Body" /\ ~(byte = "\"" /\ frame.decoder = "None") ->
               IF step.scalar = <<>>
               THEN Become(Require(s, step.ok /\ AnyScalarUnseen(s, d, longer)),
                           [frame EXCEPT !.decoder = step.decoder])
               ELSE Become(Require(sized, Unseen(s, d, Extending(text))),
                           [frame EXCEPT !.decoder = step.decoder, !.text = text])

----------------------------------------------------------------------------
(* Arrays with a schema. *)

ArrayItemSchema(s, d) ==
    LET node == NodeOf(s, d)
        index == s.frames[d].index
    IN IF index < Len(node.prefix) THEN node.prefix[index + 1] ELSE node.tail

(* Only items that are enums under uniqueItems can run out. *)
NextArrayItemViable(s, d) ==
    LET item == ArrayItemSchema(s, d)
    IN \/ item \in {"AnyJson", "Closed"}
       \/ Nodes[item].kind # "StringEnum"
       \/ ~NodeOf(s, d).unique_items
       \/ \E member \in Nodes[item].members : ~ContainsString(s.frames[d].canonical, member)

(* start_item_tracking: a builder for uniqueItems, a candidate for contains. *)
StartItemTrackingStarted(s, d, plan, matches, cursor, started) ==
    LET ready == ReserveUndo(started, 1)
        contains == CASE plan.contains = {} -> <<"None">>
                      [] plan.contains # {} /\ cursor -> <<"Cursor", SlotId(s)>>
                      [] plan.contains # {} /\ ~cursor -> <<IF matches = "Always" THEN "Always" ELSE "Dead">>
        builder == IF plan.unique_items THEN <<NewBuilder>> ELSE <<>> IN
       IF ~Alive(s) \/ (~plan.unique_items /\ plan.contains = {}) THEN s
       ELSE IF Alive(ready)
            THEN [PushUndo(ready, [op |-> "StartItem", depth |-> d]) EXCEPT
                    !.frames[d].item = <<[builder |-> builder, contains |-> contains]>>]
       ELSE IF Alive(started) /\ cursor THEN ReleaseCursor(ready, SlotId(s)) ELSE ready

StartItemTracking(s, d) ==
    LET plan == NodeOf(s, d)
        matches == (CHOOSE rule \in plan.contains : TRUE).matches
        cursor == plan.contains # {} /\ matches \notin {"Always", "Never"} IN
    StartItemTrackingStarted(s, d, plan, matches, cursor,
        IF cursor THEN StartCursor(s, matches, s.depth_offset + Len(s.frames)) ELSE s)

PushArrayItemTracked(item, tracked) ==
    IF Alive(tracked) THEN PushValue(tracked, <<item>>) ELSE tracked

PushArrayItemStarted(d, item, started) ==
    PushArrayItemTracked(item, StartItemTracking(started, d))

PushArrayItemAnnotated(d, index, item, annotated) ==
    PushArrayItemStarted(d, item,
        Assign(Assign(annotated, d, "index", index + 1), d, "phase", "AfterValueBeforeCommaOrClose"))

PushArrayItem(s, d) ==
    LET index == s.frames[d].index
        item == ArrayItemSchema(s, d)
        node == NodeOf(s, d)
        open == Require(s, index < node.max_items /\ item # "Closed") IN
    PushArrayItemAnnotated(d, index, item,
        IF node.annotations_required /\ (index < Len(node.prefix) \/ node.tail_annotates)
        THEN InsertEvaluated(open, d, "evaluated", index) ELSE open)

CloseArrayFinished(d, node, finished) ==
    PopFrame(IF Alive(finished) /\ d = 1 /\ node.annotations_required
             THEN PublishRootAnnotations(finished, d, "Array") ELSE finished)

CloseArray(s, d, byte) ==
    LET frame == s.frames[d]
        node == NodeOf(s, d)
        closing == Require(s, /\ frame.index >= node.min_items
                              /\ \A rule \in node.contains : frame.contains_count \in rule.min .. rule.max) IN
    CloseArrayFinished(d, node, FinishTrackedItem(RecordItemByte(closing, d, byte), d))

RouteArray(s, d, byte) ==
    LET phase == s.frames[d].phase
        node == NodeOf(s, d)
        Next(t, new) == Consumed(Assign(t, d, "phase", new))
    IN CASE phase = "Start" ->
               IF byte \in WS /\ node.finite_unique_capacity >= node.min_items THEN Consumed(s)
               ELSE Next(Require(s, byte = "[" /\ node.finite_unique_capacity >= node.min_items),
                         "BeforeFirstItemOrClose")
         [] phase # "Start" /\ byte \in WS -> Consumed(s)
         [] byte \notin WS /\ phase = "AfterValueBeforeCommaOrClose" /\ byte = "," ->
               Next(Require(s, NextArrayItemViable(s, d)), "AfterCommaBeforeValue")
         [] byte \notin WS \cup {"]", ","} /\ phase = "AfterValueBeforeCommaOrClose" -> Answer(s, "false")
         [] byte = "]" /\ phase \in {"BeforeFirstItemOrClose", "AfterValueBeforeCommaOrClose"} ->
               Consumed(CloseArray(s, d, byte))
         [] byte \notin WS /\ ((byte # "]" /\ phase = "BeforeFirstItemOrClose") \/ phase = "AfterCommaBeforeValue") ->
               PushArrayItem(s, d)

(* array_futures_satisfiable: no array has passed maxContains or can no
   longer reach minContains. *)
ArrayFuturesCan_match(s, d, frame, candidate, can_match) ==
    LET rest == IF NodeOf(s, d).max_items > frame.index THEN NodeOf(s, d).max_items - frame.index ELSE 0 IN
       \A rule \in NodeOf(s, d).contains :
            /\ frame.contains_count <= rule.max
            /\ rule.max = frame.contains_count => candidate[1] # "Always"
            /\ frame.contains_count + rest + (IF can_match THEN 1 ELSE 0) >= rule.min

ArrayFutures(s) ==
    \A d \in {e \in DOMAIN s.frames : s.frames[e].kind = "Array"} :
        LET frame == s.frames[d]
            candidate == IF frame.item = <<>> THEN <<"None">> ELSE frame.item[1].contains IN
        ArrayFuturesCan_match(s, d, frame, candidate,
            \/ candidate[1] = "Always"
            \/ candidate[1] = "Cursor" /\ (CursorAccepts(s, candidate[2]) \/ CursorExtends(s, candidate[2])))

----------------------------------------------------------------------------
(* Frames that run cursors over the value. *)

(* The cursors take the byte one after the other until one cannot. *)
RECURSIVE LogEach(_, _, _), RollbackEach(_, _, _), TryEach(_, _, _)
LogEach(t, s, ids) == IF ids = <<>> THEN t ELSE LogEach(LogCursor(t, ids[1], CursorMark(s, ids[1])), s, Tail(ids))

RollbackEach(t, s, ids) ==
    IF ids = <<>> THEN t ELSE RollbackEach(CursorRollback(t, ids[1], CursorMark(s, ids[1])), s, Tail(ids))

TryEach(t, ids, byte) ==
    IF ids = <<>> \/ t.step # "Live" THEN t ELSE TryEach(PushCursorByte(t, ids[1], byte), Tail(ids), byte)

RouteObligationTried(s, d, byte, cursors, ready, all_accepting, tried) ==
    CASE ~Alive(ready) -> ready
      [] Alive(ready) /\ tried.step = "Live" -> Consumed(RecordItemByte(LogEach(tried, s, cursors), d, byte))
      [] Alive(ready) /\ tried.step = "Dead" -> PopValue(Require(RollbackEach(tried, s, cursors), all_accepting), d)
      [] Alive(ready) /\ tried.step = "err" -> Answer(RollbackEach(tried, s, cursors), "err")

RouteObligation(s, d, byte) ==
    LET cursors == s.frames[d].cursors
        ready == ReserveUndo(s, Len(cursors))
        all_accepting == \A i \in DOMAIN cursors : CursorAccepts(s, cursors[i]) IN
    RouteObligationTried(s, d, byte, cursors, ready, all_accepting,
        TryEach([ready EXCEPT !.step = "Live"], cursors, byte))

AcceptingBranches(s, frame) == {i \in frame.active : CursorAccepts(s, frame.cursors[i])}

(* Mutant: oneOf is read as anyOf. *)
CombinatorAcceptsAny(op, accepting, required) ==
    IF op = "All" THEN accepting = required ELSE accepting >= 1

CombinatorAccepts(op, accepting, required) ==
    CASE op = "All" -> accepting = required
      [] op = "Any" -> accepting >= 1
      [] op = "ExactlyOne" -> accepting = 1

(* A frame accepts, or a branch may grow into what it accepts; two branches of
   one node grow together, which oneOf never accepts. *)
CombinatorHopeful(s, d) ==
    LET frame == s.frames[d]
        plan == NodeOf(s, d)
        Twins(i) == {j \in frame.active : CursorNode(s, frame.cursors[j]) = CursorNode(s, frame.cursors[i])}
    IN \/ CombinatorAccepts(plan.op, Cardinality(AcceptingBranches(s, frame)), Len(frame.cursors))
       \/ \E i \in frame.active : /\ CursorExtends(s, frame.cursors[i])
                                  /\ plan.op = "ExactlyOne" => Twins(i) = {i}

(* pop_combinator: at the root the annotations of the accepting branches are
   the state's. *)
MergeBranchFound(s, id, shape) ==
    IF shape = "None" THEN s
    ELSE MergeCursorAnnotations(EnsureRootAnnotationTarget(s, shape), 0, "root_evaluated", shape, id)

RECURSIVE MergeBranches(_, _, _)
MergeBranches(s, frame, indexes) ==
    LET id == frame.cursors[Min(indexes)] IN
    IF indexes = {} THEN s
    ELSE MergeBranches(MergeBranchFound(s, id, CursorAnnotations(s, id).shape), frame, indexes \ {Min(indexes)})

PopCombinatorFinished(s, d, frame, finished) ==
    PopFrame(IF d = 1 THEN MergeBranches(finished, frame, AcceptingBranches(s, frame)) ELSE finished)

PopCombinator(s, d) ==
    LET frame == s.frames[d] IN
    PopCombinatorFinished(s, d, frame, FinishTrackedItem(s, d))

RECURSIVE TryBranches(_, _, _, _), LogBranches(_, _, _, _, _)
TryBranchPushed(d, i, pushed) ==
    IF pushed.step = "Dead" THEN [pushed EXCEPT !.frames[d].active = @ \ {i}] ELSE pushed

TryBranches(t, d, indexes, byte) ==
    LET i == Min(indexes) IN
    IF indexes = {} \/ t.step = "err" THEN t
    ELSE TryBranches(TryBranchPushed(d, i, PushCursorByte(t, t.frames[d].cursors[i], byte)), d, indexes \ {i}, byte)

LogBranches(t, s, d, indexes, survivors) ==
    LET i == Min(indexes)
        id == s.frames[d].cursors[i] IN
    IF indexes = {} THEN t
    ELSE LogBranches(IF i \in survivors THEN LogCursor(t, id, CursorMark(s, id))
                     ELSE PushUndo(t, [op |-> "Reactivate", depth |-> d, index |-> i]),
                     s, d, indexes \ {i}, survivors)

RouteCombinatorRestored(s, d, byte, frame, op, required, ready, tried, survivors, restored) ==
    LET boundary == IF op = "All" THEN Cardinality(survivors) # required ELSE survivors = {} IN
       CASE ~Alive(ready) -> ready
         [] Alive(ready) /\ tried.step = "err" -> Answer(restored, "err")
         [] Alive(ready) /\ tried.step # "err" /\ boundary ->
               IF CombinatorAccepts(op, Cardinality(AcceptingBranches(s, frame)), required)
               THEN PopCombinator(restored, d) ELSE Answer(restored, "false")
         [] Alive(ready) /\ tried.step # "err" /\ ~boundary ->
               IF CombinatorHopeful(tried, d)
               THEN Consumed(RecordItemByte(LogBranches(tried, s, d, frame.active, survivors), d, byte))
               ELSE Answer(restored, "false")

RouteCombinatorTried(s, d, byte, frame, op, required, ready, tried) ==
    RouteCombinatorRestored(s, d, byte, frame, op, required, ready, tried, tried.frames[d].active,
        RollbackEach([tried EXCEPT !.frames[d].active = frame.active], s, SelectOwned(frame.cursors, frame.active)))

RouteCombinator(s, d, byte) ==
    LET frame == s.frames[d]
        required == Len(frame.cursors)
        ready == ReserveUndo(s, required) IN
    RouteCombinatorTried(s, d, byte, frame, NodeOf(s, d).op, required, ready,
        TryBranches([ready EXCEPT !.step = "Live"], d, frame.active, byte))

(* not: a cursor for JSON itself, and one for the schema that must not match. *)
NegationAccepts(s, frame) ==
    CursorAccepts(s, frame.syntax) /\ (frame.inner_state # "Active" \/ ~CursorAccepts(s, frame.inner))

RouteNegationAdvanced(s, d, byte, frame, syntax, advanced) ==
    IF ~Alive(syntax) THEN syntax
    ELSE IF syntax.step = "Dead" THEN PopValue(Require(syntax, NegationAccepts(s, frame)), d)
    ELSE Consumed(RecordItemByte(advanced, d, byte))

RouteNegationRestored(s, d, byte, frame, active, syntax, inner, marked, restored) ==
    RouteNegationAdvanced(s, d, byte, frame, syntax,
        CASE ~active -> LogCursor(syntax, frame.syntax, CursorMark(s, frame.syntax))
          [] active /\ inner.step = "err" -> Answer(restored, "err")
          [] active /\ inner.step = "Dead" -> Logged(marked, d, "inner_state", "PrunedOwned")
          [] active /\ inner.step = "Live" ->
                IF NegationAccepts(inner, frame) \/ CursorExtends(inner, frame.syntax)
                THEN LogCursor(marked, frame.inner, CursorMark(s, frame.inner))
                ELSE Answer(restored, "false"))

RouteNegationInner(s, d, byte, frame, active, syntax, inner) ==
    LET marked == LogCursor(inner, frame.syntax, CursorMark(s, frame.syntax)) IN
    RouteNegationRestored(s, d, byte, frame, active, syntax, inner, marked,
        CursorRollback(CursorRollback(inner, frame.inner, CursorMark(s, frame.inner)),
                       frame.syntax, CursorMark(s, frame.syntax)))

RouteNegationSyntax(s, d, byte, frame, active, syntax) ==
    RouteNegationInner(s, d, byte, frame, active, syntax, PushCursorByte(syntax, frame.inner, byte))

RouteNegation(s, d, byte) ==
    LET frame == s.frames[d]
        active == frame.inner_state = "Active"
        ready == ReserveUndo(s, IF active THEN 2 ELSE 1) IN
    RouteNegationSyntax(s, d, byte, frame, active, TryCursor(ready, frame.syntax, byte))

----------------------------------------------------------------------------
(* unevaluatedProperties and unevaluatedItems: a cursor for the schema around
   the keyword, a tracker that reads the value as any JSON and so knows where
   its locations begin and end, and for the open location a candidate cursor. *)

Tracker(s, d) == s.slots[s.frames[d].tracker].sub

(* any_candidate_start: the ordinal of the location this byte begins, as a set
   of at most one.  Whitespace before a value begins one too. *)
CandidateStart(tracker, shape, byte) ==
    LET root == tracker.frames[1] IN
    CASE tracker.frames = <<>> -> {}
      [] tracker.frames # <<>> /\ shape = "Array" ->
            IF root.kind = "AnyArray" /\ byte # "]" /\ root.phase \in {"BeforeFirstOrClose", "AfterComma"}
            THEN {root.items} ELSE {}
      [] tracker.frames # <<>> /\ shape = "Object" ->
            IF root.kind = "AnyObject" /\ Part(tracker, 1).phase = "AfterColonBeforeValue"
            THEN {Part(tracker, 1).properties - 1} ELSE {}

StartCandidateStarted(s, d, ordinal, started) ==
    LET id == SlotId(s)
        ready == ReserveUndo(started, 1)
        logged == PushUndo(ready, [op |-> "StartCandidate", depth |-> d, id |-> id]) IN
       IF ~Alive(s) THEN s
       ELSE IF s.frames[d].candidate # 0 THEN Answer(s, "err")
       ELSE IF ~Alive(started) THEN started
       ELSE IF ~Alive(ready) THEN RollbackUnpublished(ready, id, s)
       ELSE [logged EXCEPT !.frames[d].candidate = id, !.frames[d].ordinal = ordinal,
                           !.frames[d].candidate_dead = FALSE]

StartCandidate(s, d, ordinal) ==
    StartCandidateStarted(s, d, ordinal, StartCursor(s, NodeOf(s, d).unevaluated, s.depth_offset + Len(s.frames)))

FinishCandidateInserted(s, d, frame, inserted) ==
    LET count == frame.ordinal + 1
        limit == IF NodeOf(s, d).of = "Object" THEN s.limits.max_properties ELSE s.limits.max_items
        ready == ReserveUndo(Within(inserted, count, limit), 1)
        logged == PushUndo(ready, [op |-> "FinishCandidate", depth |-> d, id |-> frame.candidate,
                                   ordinal |-> frame.ordinal, dead |-> frame.candidate_dead,
                                   old_count |-> frame.location_count]) IN
       IF Alive(ready)
       THEN [NoCandidate(logged, d) EXCEPT !.frames[d].location_count = count] ELSE ready

FinishCandidate(s, d, accepts) ==
    LET frame == s.frames[d] IN
    FinishCandidateInserted(s, d, frame, IF accepts THEN InsertEvaluated(s, d, "candidates", frame.ordinal) ELSE s)

(* Mutant: only the candidates cover a location. *)
CoveredByCandidates(s, d) ==
    \A ordinal \in 0 .. s.frames[d].location_count - 1 : IsEvaluated(s.frames[d].candidates, ordinal)

(* Every location is evaluated by the schema around or passed as candidate. *)
Covered(s, d) ==
    LET frame == s.frames[d]
        shape == NodeOf(s, d).of
    IN frame.instance_kind = shape =>
        \A ordinal \in 0 .. frame.location_count - 1 :
            AnnotationContains(s, frame.cursor, shape, ordinal) \/ IsEvaluated(frame.candidates, ordinal)

FinishUnevaluatedPublished(d, closing, published) ==
    IF ~Alive(closing) THEN closing ELSE PopValue(IF d = 1 THEN published ELSE closing, d)

FinishUnevaluatedClosing(d, frame, shape, found, closing) ==
    FinishUnevaluatedPublished(d, closing,
        CASE frame.instance_kind = shape ->
                MarkAllEvaluated(EnsureRootAnnotationTarget(closing, shape), 0, "root_evaluated")
          [] frame.instance_kind # shape /\ found.shape # "None" ->
                MergeCursorAnnotations(EnsureRootAnnotationTarget(closing, found.shape),
                                       0, "root_evaluated", found.shape, frame.cursor)
          [] frame.instance_kind # shape /\ found.shape = "None" -> closing)

FinishUnevaluated(s, d) ==
    LET frame == s.frames[d]
        shape == NodeOf(s, d).of
        found == CursorAnnotations(s, frame.cursor) IN
    FinishUnevaluatedClosing(d, frame, shape, found, Require(s, CursorAccepts(s, frame.cursor) /\ Covered(s, d)))

(* FiniteKeyTrie::permits: the names and patterns the schema around can
   evaluate, when they are all there are.  With several patterns, a name that
   was seen takes every pattern out. *)
Permits(keys, prefix, complete, seen) ==
    LET completions == {name \in seen : /\ IsPrefix(prefix, name)
                                        /\ \E engine \in keys.patterns : EngineAccepts(engine, name)}
        Open(engine, q) == CASE complete -> q \in engine.accept /\ prefix \notin seen
                             [] ~complete /\ Cardinality(keys.patterns) = 1 -> engine.count[q] > Cardinality(completions)
                             [] ~complete /\ Cardinality(keys.patterns) # 1 -> completions = {} /\ engine.count[q] > 0
    IN \/ \E engine \in keys.patterns : \E q \in ConsumeText(engine, engine.start, prefix) : Open(engine, q)
       \/ \E name \in keys.names \ seen : IF complete THEN name = prefix ELSE IsPrefix(prefix, name)

PermitsAnyScalar(keys, prefix, seen) ==
    \/ \E name \in keys.names \ seen : IsStrictPrefix(prefix, name)
    \/ \E engine \in keys.patterns : \E q \in ConsumeText(engine, engine.start, prefix) : CanConsumeScalar(engine, q)

(* any_root_key_viable: the tracker's key can still become a permitted one. *)
RootKeyViable(tracker, keys) ==
    LET object == Part(tracker, 1)
        seen == SeenNames(tracker, object)
    IN \/ Len(tracker.frames) # 1
       \/ tracker.frames[1].kind # "AnyObject"
       \/ CASE object.phase = "AfterCommaBeforeKey" -> Permits(keys, <<>>, FALSE, seen)
            [] object.phase = "InKey" -> IF object.key_decoder = "None" THEN Permits(keys, object.key, FALSE, seen)
                                         ELSE PermitsAnyScalar(keys, object.key, seen)
            [] object.phase = "AfterKeyBeforeColon" -> Permits(keys, object.key, TRUE, seen)
            [] object.phase \notin {"AfterCommaBeforeKey", "InKey", "AfterKeyBeforeColon"} -> TRUE

(* next_root_array_item_annotation_possible = Some(false). *)
NextItemUnevaluated(slot) ==
    /\ slot.kind = "Structured"
    /\ slot.sub.frames # <<>>
    /\ LET array == slot.sub.frames[1]
           plan == Nodes[array.node]
       IN /\ array.kind = "Array"
          /\ array.phase = "AfterValueBeforeCommaOrClose"
          /\ array.index >= Len(plan.prefix) /\ ~plan.tail_annotates
          /\ \A rule \in plan.contains : rule.max = array.contains_count \/ rule.matches = "Never"

BeginLocationStart(d, kinded, ordinals) ==
    IF ordinals = {} THEN kinded ELSE StartCandidate(kinded, d, Min(ordinals))

BeginLocationKinded(s, d, byte, tracker, kinded) ==
    BeginLocationStart(d, kinded, CandidateStart(tracker, NodeOf(s, d).of, byte))

BeginLocation(s, d, byte) ==
    LET tracker == Tracker(s, d)
        before == Len(tracker.frames) = 1 /\ tracker.frames[1] = AnyScalar("BeforeValue", 0) IN
    BeginLocationKinded(s, d, byte, tracker,
        IF before /\ byte \in {"{", "["} /\ s.frames[d].instance_kind = "None"
        THEN Assign(s, d, "instance_kind", IF byte = "{" THEN "Object" ELSE "Array") ELSE s)

(* A cursor of the frame takes the byte; its entry is reserved afterwards. *)
PushLoggedPushed(s, id, pushed) ==
    IF Alive(pushed) /\ pushed.step = "Live" THEN LogCursor(ReserveUndo(pushed, 1), id, CursorMark(s, id)) ELSE pushed

PushLogged(s, id, byte) ==
    PushLoggedPushed(s, id, TryCursor(s, id, byte))

(* The candidate takes the byte; the location ends when the tracker is back
   at its root. *)
PushCandidatePushed(s, d, id, live, pushed) ==
    LET dies == live /\ pushed.step = "Dead"
        open == ~Tracker(s, d).root_closed /\ Len(Tracker(s, d).frames) > 1
        accepts == live /\ CursorAccepts(IF dies THEN s ELSE pushed, id) IN
       IF id = 0 THEN s
       ELSE IF ~Alive(pushed) THEN pushed
       ELSE IF ~open THEN FinishCandidate(pushed, d, accepts)
       ELSE IF dies THEN Assign(pushed, d, "candidate_dead", TRUE) ELSE pushed

PushCandidate(s, d, byte) ==
    LET frame == s.frames[d]
        id == frame.candidate
        live == ~frame.candidate_dead IN
    PushCandidatePushed(s, d, id, live, IF live THEN PushLogged(s, id, byte) ELSE s)

RouteUnevaluatedMoved(s, d, byte, frame, replay, tracked, moved) ==
    CASE ~Alive(tracked) -> tracked
      [] Alive(tracked) /\ tracked.step = "Dead" ->
            IF replay /\ CursorAccepts(s, frame.tracker) THEN FinishUnevaluated(tracked, d) ELSE Answer(tracked, "false")
      [] Alive(tracked) /\ tracked.step = "Live" /\ replay -> Answer(tracked, "false")
      [] Alive(tracked) /\ tracked.step = "Live" /\ ~replay ->
            IF Alive(moved) /\ Tracker(moved, d).root_closed THEN Consumed(FinishUnevaluated(moved, d))
            ELSE Consumed(RecordItemByte(moved, d, byte))

RouteUnevaluatedViable(s, d, byte, frame, replay, tracked, viable) ==
    RouteUnevaluatedMoved(s, d, byte, frame, replay, tracked,
        IF Alive(viable) THEN PushCandidate(viable, d, byte) ELSE viable)

RouteUnevaluatedTracked(s, d, byte, frame, node, replay, tracked) ==
    RouteUnevaluatedViable(s, d, byte, frame, replay, tracked,
        Require(tracked, \A keys \in node.finite_evaluated_keys :
                              node.of = "Object" => RootKeyViable(Tracker(tracked, d), keys)))

RouteUnevaluatedScope(s, d, byte, frame, node, scope) ==
    LET replay == scope.step = "Dead"
        around == IF Alive(scope) THEN Require(scope, replay => CursorAccepts(s, frame.cursor)) ELSE scope IN
    RouteUnevaluatedTracked(s, d, byte, frame, node, replay,
        IF Alive(around) /\ replay THEN TryCursor(around, frame.tracker, byte)
        ELSE PushLogged(around, frame.tracker, byte))

RouteUnevaluatedBegun(s, d, byte, frame, node, begun) ==
    LET refused == /\ node.of = "Array" /\ byte = "," /\ node.rejects_unevaluated
                   /\ Len(Tracker(s, d).frames) = 1 /\ Tracker(s, d).frames[1].kind = "AnyArray"
                   /\ Tracker(s, d).frames[1].phase = "AfterValue"
                   /\ NextItemUnevaluated(s.slots[frame.cursor]) IN
    RouteUnevaluatedScope(s, d, byte, frame, node, PushLogged(Require(begun, ~refused), frame.cursor, byte))

RouteUnevaluated(s, d, byte) ==
    LET frame == s.frames[d]
        node == NodeOf(s, d) IN
    RouteUnevaluatedBegun(s, d, byte, frame, node, BeginLocation(s, d, byte))

----------------------------------------------------------------------------
(* AnyJson values. *)

(* Mutant: the reused slot stays on the free list. *)
AllocKeepsFree(s) ==
    IF s.free # <<>>
    THEN [s EXCEPT !.objs[Last(s.free)] = FreshObject(s)]
    ELSE [s EXCEPT !.objs = Append(@, FreshObject(s))]

(* A released slot is taken before the arena grows. *)
AllocAnyObject(s) ==
    IF s.free # <<>>
    THEN [s EXCEPT !.free = Front(@), !.objs[Last(s.free)] = FreshObject(s)]
    ELSE [s EXCEPT !.objs = Append(@, FreshObject(s))]

(* pop_any_frame: the observers see the frame's own closing byte first. *)
CloseAny(s, d, byte) == Consumed(PopValue(RecordItemByte(s, d, byte), d))

RouteAnyScalarNext(s, d, byte, frame, next) ==
    LET bytes == frame.bytes + 1
        sized == IF next \in NumberPhases THEN Within(s, bytes, s.limits.max_number_bytes) ELSE s
        Replace(t, new) == Consumed(SetFrame(ReserveUndo(t, 1), d, "ReplaceAny", new)) IN
       CASE frame.phase = "BeforeValue" /\ byte \in WS -> Consumed(s)
         [] ~(frame.phase = "BeforeValue" /\ byte \in WS) ->
            CASE next = "StartString" -> Replace(s, [kind |-> "AnyString", decoder |-> "None", bytes |-> 0])
              [] next = "StartArray" -> Replace(s, [kind |-> "AnyArray", phase |-> "BeforeFirstOrClose", items |-> 0])
              [] next = "StartObject" ->
                    Replace(AllocAnyObject(s), [kind |-> "AnyObject",
                                                id |-> IF s.free # <<>> THEN Last(s.free) ELSE Len(s.objs) + 1])
              [] next = "Done" -> PopValue(s, d)
              [] next = "Invalid" -> Answer(s, "false")
              [] next \notin {"StartString", "StartArray", "StartObject", "Done", "Invalid"} ->
                    Consumed(SetFrame(ReserveUndo(sized, 1), d, "Frame", AnyScalar(next, bytes)))

RouteAnyScalar(s, d, byte) ==
    LET frame == s.frames[d] IN
    RouteAnyScalarNext(s, d, byte, frame, StepScalar(frame.phase, byte))

RouteAnyString(s, d, byte) ==
    LET frame == s.frames[d]
        step == Decode(frame.decoder, byte)
        sized == Within(Require(s, step.ok), frame.bytes + 1, s.limits.max_string_bytes)
    IN Consumed(SetFrame(ReserveUndo(sized, 1), d, "Frame", [frame EXCEPT !.decoder = step.decoder, !.bytes = @ + 1]))

StartAnyItem(s, d) ==
    LET items == s.frames[d].items
        full == s.limits.max_items > 0 /\ items >= s.limits.max_items
        ready == ReserveUndo(IF full THEN Answer(s, "err") ELSE s, 2)
    IN PushAnyChild(Logged(Logged(ready, d, "phase", "AfterValue"), d, "items", items + 1))

RouteAnyArray(s, d, byte) ==
    LET phase == s.frames[d].phase IN
    CASE byte \in WS -> Consumed(s)
      [] byte = "," /\ phase = "AfterValue" -> Consumed(Assign(s, d, "phase", "AfterComma"))
      [] byte \notin WS \cup {"]", ","} /\ phase = "AfterValue" -> Answer(s, "false")
      [] byte \notin WS /\ phase # "AfterValue" -> StartAnyItem(s, d)

ResolveAnyColonInterned(d, count, interned) ==
    Assign(Assign(interned, d, "properties", count), d, "phase", "AfterColonBeforeValue")

ResolveAnyColon(s, d) ==
    LET count == Part(s, d).properties + 1 IN
    ResolveAnyColonInterned(d, count, Within(InternKey(s, d), count, s.limits.max_properties))

PushAnyKeyByte(s, d, byte) ==
    IF byte = "\"" /\ Part(s, d).key_decoder = "None"
    THEN Assign(s, d, "phase", "AfterKeyBeforeColon") ELSE PushKeyScalar(s, d, byte)

RouteAnyObject(s, d, byte) ==
    LET part == Part(s, d)
        spaces == part.phase # "InKey" /\ byte \in WS
        Next(t, new) == Assign(t, d, "phase", new)
    IN CASE spaces -> Consumed(s)
         [] ~spaces /\ part.phase \in {"BeforeFirstKeyOrClose", "AfterCommaBeforeKey"} ->
               Consumed(StartAnyKey(Require(s, byte = "\""), d))
         [] ~spaces /\ part.phase = "InKey" ->
               Consumed(PushAnyKeyByte(s, d, byte))
         [] ~spaces /\ part.phase = "AfterKeyBeforeColon" ->
               Consumed(IF byte = ":" THEN ResolveAnyColon(s, d) ELSE Answer(s, "false"))
         [] ~spaces /\ part.phase = "AfterColonBeforeValue" ->
               PushAnyChild(Next(s, "AfterValueBeforeCommaOrClose"))
         [] ~spaces /\ part.phase = "AfterValueBeforeCommaOrClose" ->
               Consumed(Next(Require(s, byte = ","), "AfterCommaBeforeKey"))

(* The bytes that end a string, an array or an object without a schema. *)
AnyCloses(s, d, byte) ==
    LET frame == s.frames[d] IN
    CASE frame.kind = "AnyString" -> byte = "\"" /\ frame.decoder = "None"
      [] frame.kind = "AnyArray" -> byte = "]" /\ frame.phase # "AfterComma"
      [] frame.kind = "AnyObject" ->
            byte = "}" /\ Part(s, d).phase \in {"BeforeFirstKeyOrClose", "AfterValueBeforeCommaOrClose"}
      [] frame.kind \notin {"AnyString", "AnyArray", "AnyObject"} -> FALSE

----------------------------------------------------------------------------
(* One byte. *)

(* A byte the frame consumed without closing is shown to the observers. *)
Observed(s, d, byte) ==
    IF s.res = "true" /\ Len(s.frames) >= d
    THEN Consumed(RecordItemByte([s EXCEPT !.res = "run"], d, byte)) ELSE s

(* The frames that read the value themselves. *)
RouteValue(s, d, kind, byte) ==
    CASE kind = "String" -> RouteString(s, d, byte)
      [] kind = "StringEnum" -> RouteStringEnum(s, d, byte)
      [] kind = "Object" -> RouteObject(s, d, byte)
      [] kind = "Array" -> RouteArray(s, d, byte)
      [] kind = "AnyScalar" -> RouteAnyScalar(s, d, byte)
      [] kind = "AnyString" -> RouteAnyString(s, d, byte)
      [] kind = "AnyArray" -> RouteAnyArray(s, d, byte)
      [] kind = "AnyObject" -> RouteAnyObject(s, d, byte)

ValueFrames == {"String", "StringEnum", "Object", "Array", "AnyScalar", "AnyString", "AnyArray", "AnyObject"}

(* One iteration of route_byte: the top frame takes the byte, rejects it, or
   leaves the state running for the frame that is now on top. *)
RouteTop(s, byte) ==
    LET d == Len(s.frames)
        kind == s.frames[d].kind
    IN CASE ~Alive(s) -> s
         [] Alive(s) /\ s.root_closed -> Answer(s, IF byte \in WS THEN "true" ELSE "false")
         [] Alive(s) /\ ~s.root_closed /\ d = 0 -> Answer(s, "false")
         [] Alive(s) /\ ~s.root_closed /\ d > 0 ->
            CASE kind = "Regular" -> RouteRegular(s, d, byte)
              [] kind = "Number" -> RouteNumber(s, d, byte)
              [] kind = "Obligation" -> RouteObligation(s, d, byte)
              [] kind = "Combinator" -> RouteCombinator(s, d, byte)
              [] kind = "Negation" -> RouteNegation(s, d, byte)
              [] kind = "Unevaluated" -> RouteUnevaluated(s, d, byte)
              [] kind \in ValueFrames -> IF AnyCloses(s, d, byte) THEN CloseAny(s, d, byte)
                                         ELSE Observed(RouteValue(s, d, kind, byte), d, byte)

(* No byte is routed more than MaxRoutes times: it opens at most one child,
   or closes one value and goes to its parent. *)
MaxRoutes == 3

RECURSIVE RouteTurns(_, _, _)
RouteTurns(s, byte, turns) == IF turns = 0 THEN s ELSE RouteTurns(RouteTop(s, byte), byte, turns - 1)

RouteByte(s, byte) == RouteTurns(s, byte, MaxRoutes)

(* Whether another byte than whitespace may follow in the root value. *)
CanExtendValue(s) ==
    LET frame == s.frames[1] IN
    CASE s.root_closed \/ s.dead \/ s.frames = <<>> -> FALSE
      [] ~(s.root_closed \/ s.dead \/ s.frames = <<>>) /\ Len(s.frames) > 1 -> TRUE
      [] ~(s.root_closed \/ s.dead) /\ Len(s.frames) = 1 ->
         CASE frame.kind = "Regular" -> ExtendsValue(NodeOf(s, 1), frame.state)
           [] frame.kind = "Combinator" -> \E i \in frame.active : CursorExtends(s, frame.cursors[i])
           [] frame.kind = "Negation" -> CursorExtends(s, frame.syntax)
           [] frame.kind = "StringEnum" ->
                 frame.phase = "BeforeQuote" \/ \E member \in NodeOf(s, 1).members : IsPrefix(frame.text, member)
           [] frame.kind = "AnyScalar" -> frame.phase # "LiteralDone"
           [] frame.kind \notin {"Regular", "Combinator", "Negation", "StringEnum", "AnyScalar"} -> TRUE

(* A sole frame that needs no closing byte may accept as it stands. *)
FrameAccepts(s) ==
    LET frame == s.frames[1] IN
    CASE frame.kind = "Regular" -> frame.state \in NodeOf(s, 1).accept
      [] frame.kind = "Number" -> NumberSyntaxAccepts(frame.state) /\ NumberAccepts(frame.accumulator, NodeOf(s, 1))
      [] frame.kind = "Combinator" ->
            CombinatorAccepts(NodeOf(s, 1).op, Cardinality(AcceptingBranches(s, frame)), Len(frame.cursors))
      [] frame.kind = "Negation" -> NegationAccepts(s, frame)
      [] frame.kind = "Unevaluated" ->
            /\ frame.candidate = 0
            /\ CursorAccepts(s, frame.tracker)
            /\ CursorAccepts(s, frame.cursor)
            /\ Covered(s, 1)
      [] frame.kind = "AnyScalar" -> ScalarIsComplete(frame.phase)
      [] frame.kind \in {"String", "StringEnum", "Object", "Array", "Obligation", "AnyString", "AnyArray", "AnyObject"}
            -> FALSE

RecomputeAccepting(s) ==
    [s EXCEPT !.accepting = /\ ~s.dead
                            /\ \/ s.root_closed
                               \/ s.frames = <<>>
                               \/ Len(s.frames) = 1 /\ FrameAccepts(s)]

(* try_push_byte: a byte that is not taken leaves nothing behind. *)
TryPushByteTaken(s, update_accepting, mark, routed, taken) ==
    CASE s.document_bytes + 1 > s.limits.max_document_bytes -> [s EXCEPT !.res = "err"]
      [] s.document_bytes + 1 <= s.limits.max_document_bytes ->
            CASE taken -> IF update_accepting THEN RecomputeAccepting(routed) ELSE routed
              [] ~taken -> [Rollback(routed, mark) EXCEPT !.res = IF routed.res = "true" THEN "false" ELSE @]

TryPushByteRouted(s, update_accepting, mark, routed) ==
    TryPushByteTaken(s, update_accepting, mark, routed, routed.res = "true" /\ ~routed.dead /\ ArrayFutures(routed))

TryPushByte(s, byte, update_accepting) ==
    LET mark == Checkpoint(s) IN
    TryPushByteRouted(s, update_accepting, mark,
        [RouteByte([s EXCEPT !.document_bytes = @ + 1, !.observed = FALSE, !.res = "run"], byte)
          EXCEPT !.observed = FALSE])

(* new_at_with_scope and new_any: the state at the beginning of a value.  An
   unsupported schema has no frame and is dead. *)
NewAtMade(at, empty, sized, prepared, made) ==
    CASE at.out # "ok" \/ sized.res = "err" \/ prepared.res = "err" -> [empty EXCEPT !.res = "err"]
      [] ~(at.out # "ok" \/ sized.res = "err" \/ prepared.res = "err") ->
            IF prepared.res = "false" THEN [empty EXCEPT !.dead = TRUE, !.resettable = FALSE, !.res = "true"]
            ELSE [made EXCEPT !.initial = Checkpoint(made), !.res = "true"]

NewAtPrepared(at, empty, sized, prepared) ==
    NewAtMade(at, empty, sized, prepared, RecomputeAccepting(prepared))

NewAtAt(node, limits, depth, scope, outside, at) ==
    LET empty == [node |-> at.node, limits |-> limits, depth_offset |-> depth, frames |-> <<>>, scopes |-> <<>>,
                  undo |-> <<>>, accepting |-> FALSE, dead |-> FALSE, observed |-> FALSE, root_closed |-> FALSE,
                  document_bytes |-> 0, arena |-> <<>>, objs |-> <<>>, free |-> <<>>, slots |-> <<>>,
                  free_slots |-> <<>>, cached |-> <<>>, resettable |-> TRUE, initial |-> <<>>, root_shape |-> "None",
                  root_evaluated |-> NoneEvaluated, outside |-> outside, made |-> <<>>, step |-> "Live", res |-> "run"]
        sized == Within(empty, depth + 1, limits.max_depth)
        any == [sized EXCEPT !.frames = <<AnyScalar("BeforeValue", 0)>>, !.scopes = <<scope>>] IN
    NewAtPrepared(at, empty, sized, IF node = "AnyJson" THEN any ELSE PrepareResolved(sized, at.node, at.scope))

NewAt(node, limits, depth, scope, outside) ==
    NewAtAt(node, limits, depth, scope, outside,
        IF node = "AnyJson" THEN [node |-> node, scope |-> scope, out |-> "ok"]
        ELSE ResolveRuntimeNode(node, scope, limits))

NewState(root, limits) == NewAt(root, limits, 0, <<ResourceOf[root]>>, 0)
=============================================================================
