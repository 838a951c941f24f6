------------------------- MODULE StructuredMatcher -------------------------
(***************************************************************************)
(* The incremental structured matcher (structured/matcher.rs): advance     *)
(* commits a whole token or nothing.  The mask takes a slice of the        *)
(* vocabulary at once when one can be proved, and walks the byte trie of   *)
(* the other tokens over the one live state, with a checkpoint at every    *)
(* node and rollback on the way up.                                        *)
(*                                                                         *)
(* A matcher belongs to one session and runs one call at a time: advance   *)
(* is one action, the walk is one action per event of its stack.           *)
(***************************************************************************)
EXTENDS TokenSlices

CONSTANTS
    LimitSets,      \* the StructuredLimits tried
    CompletionsOf,  \* texts a root's prefixes may be completed with, for CompletableAdmitted
    MaxText,        \* bounds: root -> no token is tried past a text of this length,
    MaxString,      \*   with a longer open key or string,
    MaxNesting      \*   or with more open values

VARIABLES
    root,           \* the schema of the session
    state,          \* IncrementalMatcher::state
    proofs,         \* IncrementalMatcher::slice_proofs
    walk,           \* the running mask walk: its trie, events, root, work, and its entry state
    out,            \* the mask buffer, as the set of tokens whose bit is set
    fresh,          \* whether out is the mask of this position: "none", "ok" or "err"
    text            \* history: the bytes committed so far

vars == <<root, state, proofs, walk, out, fresh, text>>

Document == INSTANCE JsonDocument WITH Blank <- WS, EscapeOf <- Escapes, Schemas <- Nodes,
                                       ResourceAt <- ResourceOf, Anchors <- DynamicTargets

NoWalk == [on |-> FALSE]

Vocabulary == VocabularyOf[root]

----------------------------------------------------------------------------

Init ==
    /\ root \in Roots
    /\ state \in {s \in {NewState(root, limits) : limits \in LimitSets} : s.res = "true"}
    /\ proofs = NoProofs
    /\ walk = NoWalk
    /\ out = {}
    /\ fresh = "none"
    /\ text = <<>>

RECURSIVE PushBytes(_, _, _)
PushBytes(s, bytes, update_accepting) ==
    IF bytes = <<>> \/ s.res # "true" THEN s ELSE PushBytes(TryPushByte(s, bytes[1], update_accepting), Tail(bytes), update_accepting)

PushToken(s, token) == PushBytes([s EXCEPT !.res = "true"], token, TRUE)

(* StructuredMatcher::advance. *)
AdvanceOfPushed(s, pushed) ==
    IF pushed.res = "true" THEN CommitCheckpoint(pushed)
    ELSE [Rollback(pushed, Checkpoint(s)) EXCEPT !.res = pushed.res]

AdvanceOf(s, token) ==
    AdvanceOfPushed(s, PushToken(s, token))

InBounds ==
    /\ Len(text) <= MaxText[root]
    /\ Len(state.frames) <= MaxNesting
    /\ \A d \in DOMAIN state.frames :
            /\ state.frames[d].kind = "AnyString" => state.frames[d].bytes <= MaxString
            /\ state.frames[d].kind \in {"Object", "AnyObject"} => Len(Part(state, d).key) <= MaxString

Advance(token) ==
    /\ ~walk.on
    /\ InBounds
    /\ state' = AdvanceOf(state, token)
    /\ text' = IF state'.res = "true" THEN text \o token ELSE text
    /\ fresh' = IF state'.res = "true" THEN "none" ELSE fresh
    /\ UNCHANGED <<root, proofs, walk, out>>

(* What a caller can tell of a state: its frames, what they refer to, and
   the cursors they run, not the pools behind them. *)
RECURSIVE Observable(_)
Observable(s) ==
    [frames |-> s.frames, scopes |-> s.scopes,
     objects |-> [d \in {e \in DOMAIN s.frames : s.frames[e].kind = "AnyObject"} |-> s.objs[s.frames[d].id]],
     cursors |-> [id \in LiveSlots(s) |->
                    IF s.slots[id].kind = "Structured" THEN <<"Structured", Observable(s.slots[id].sub)>>
                    ELSE <<"Regular", s.slots[id]>>],
     arena |-> s.arena, root_closed |-> s.root_closed, accepting |-> s.accepting, dead |-> s.dead,
     root_shape |-> s.root_shape, root_evaluated |-> s.root_evaluated,
     document_bytes |-> s.document_bytes, entries |-> Len(s.undo)]

VisitEvent(node) == [op |-> "Visit", node |-> node]

(* Between the quotes of a boundary trie only the decoder runs. *)
LocalVisit(node, decoder) == [op |-> "LocalVisit", node |-> node, decoder |-> decoder]

FirstEvent(trie) == IF trie = "body_boundary" THEN LocalVisit(<<>>, "None") ELSE VisitEvent(<<>>)

BeginMask ==
    /\ ~walk.on
    /\ fresh = "none"
    /\ \E slice \in {SelectSlice(state, CatalogOf[root], proofs)} :
          /\ walk' = [on |-> TRUE, root |-> Checkpoint(state), trie |-> slice.trie, overflow |-> slice.overflow,
                      events |-> <<FirstEvent(slice.trie)>>, work |-> slice.work, entry |-> Observable(state)]
          /\ proofs' = slice.cache
          /\ out' = slice.tokens
    /\ UNCHANGED <<root, state, fresh, text>>

Event == Last(walk.events)

Pending == walk.on /\ walk.events # <<>>

(* The walk's end, on every path: the state is rolled back to its root. *)
Leave(s, outcome) ==
    /\ state' = [Rollback(s, walk.root) EXCEPT !.res = "true"]
    /\ walk' = NoWalk
    /\ fresh' = outcome

ChildrenOf(node) == Children(CatalogOf[root].tries[walk.trie], node)

(* The bytes of a node's edges and the tokens that end at it are charged to
   max_mask_work. *)
Ends(node) == {node} \cap CatalogOf[root].slices[walk.trie]

WorkAfter(node) == walk.work + Len(ChildrenOf(node)) + Cardinality(Ends(node))

(* Mutant: the way up restores nothing. *)
DescendOnly(events, mark, visits) == events \o visits

(* A node's mark is restored after all its children were visited. *)
Descend(events, mark, visits) == events \o <<[op |-> "Restore", mark |-> mark]>> \o visits

VisitEvents(node, children) == Reverse([i \in DOMAIN children |-> VisitEvent(Append(node, children[i]))])

(* A node is entered in s, or it is refused, or the walk fails. *)
Enter(node, s, children) ==
    LET rest == Front(walk.events)
        mark == Checkpoint(state)
    IN \/ /\ s.res = "true"
          /\ WorkAfter(node) <= s.limits.max_mask_work
          /\ state' = s
          /\ out' = out \cup Ends(node)
          /\ walk' = [walk EXCEPT !.work = WorkAfter(node),
                                  !.events = Descend(rest, mark, VisitEvents(node, children))]
          /\ UNCHANGED fresh
       \/ /\ s.res = "false"
          /\ state' = Rollback(s, mark)
          /\ walk' = [walk EXCEPT !.events = rest]
          /\ UNCHANGED <<out, fresh>>
       \/ /\ s.res = "err" \/ (s.res = "true" /\ WorkAfter(node) > s.limits.max_mask_work)
          /\ Leave(s, "err")
          /\ out' = {}

(* The closing quote of the string: its whole path is replayed, and bytes that
   cannot follow are not even visited. *)
AtBoundary(event) ==
    event.op = "LocalVisit" /\ event.node # <<>> /\ Last(event.node) = "\"" /\ event.decoder = "None"

BytesOf(event) ==
    CASE AtBoundary(event) -> event.node
      [] ~AtBoundary(event) -> IF event.node = <<>> THEN <<>> ELSE <<Last(event.node)>>

PossibleChildren(event, s) ==
    SelectSeq(ChildrenOf(event.node), LAMBDA byte : ~(AtBoundary(event) /\ NextByteIsImpossible(s, byte)))

Visit ==
    /\ Pending
    /\ Event.op = "Visit" \/ AtBoundary(Event)
    /\ \E s \in {PushBytes([state EXCEPT !.res = "true"], BytesOf(Event), FALSE)} :
            Enter(Event.node, s, PossibleChildren(Event, s))
    /\ UNCHANGED <<root, proofs, text>>

(* Before it, the decoder follows the bytes and the state is left alone. *)
VisitLocal ==
    /\ Pending
    /\ Event.op = "LocalVisit"
    /\ ~AtBoundary(Event)
    /\ LET node == Event.node
           rest == Front(walk.events)
           step == IF node = <<>> THEN [decoder |-> "None", ok |-> TRUE] ELSE Decode(Event.decoder, Last(node))
           children == IF step.ok THEN Reverse(ChildrenOf(node)) ELSE <<>>
       IN \/ /\ WorkAfter(node) <= state.limits.max_mask_work
             /\ walk' = [walk EXCEPT !.work = WorkAfter(node),
                    !.events = rest \o [i \in DOMAIN children |-> LocalVisit(Append(node, children[i]), step.decoder)]]
             /\ UNCHANGED <<state, out, fresh>>
          \/ /\ WorkAfter(node) > state.limits.max_mask_work
             /\ Leave(state, "err")
             /\ out' = {}
    /\ UNCHANGED <<root, proofs, text>>

Restore ==
    /\ Pending
    /\ Event.op = "Restore"
    /\ state' = Rollback(state, Event.mark)
    /\ walk' = [walk EXCEPT !.events = Front(@)]
    /\ UNCHANGED <<root, proofs, out, fresh, text>>

(* Safe tokens too long for the length tables are walked last. *)
WalkOverflow ==
    /\ walk.on
    /\ walk.events = <<>>
    /\ walk.overflow
    /\ state' = Rollback(state, walk.root)
    /\ walk' = [walk EXCEPT !.trie = "scalar_overflow", !.overflow = FALSE, !.events = <<VisitEvent(<<>>)>>]
    /\ UNCHANGED <<root, proofs, out, fresh, text>>

EndMask ==
    /\ walk.on
    /\ walk.events = <<>>
    /\ ~walk.overflow
    /\ Leave(state, "ok")
    /\ UNCHANGED <<root, proofs, out, text>>

Next ==
    \/ \E token \in Vocabulary : Advance(token)
    \/ BeginMask
    \/ Visit
    \/ VisitLocal
    \/ Restore
    \/ WalkOverflow
    \/ EndMask

Spec == Init /\ [][Next]_vars

----------------------------------------------------------------------------
(* Properties. *)

Idle == ~walk.on

OpenObjects(s) == {d \in DOMAIN s.frames : s.frames[d].kind \in {"Object", "AnyObject"}}

(* Types: the outcome of a byte is settled within MaxRoutes routes, the undo
   log holds exactly what the open call did, and frames, arenas and counters
   stay within the limits. *)
TypeOK ==
    /\ state.res \in {"true", "false", "err"}
    /\ Idle => state.undo = <<>>
    /\ Len(state.undo) <= state.limits.max_undo_entries
    /\ Len(state.frames) <= state.limits.max_depth
    /\ ~state.dead => (state.root_closed <=> state.frames = <<>>)
    /\ state.document_bytes <= state.limits.max_document_bytes
    /\ Idle => state.document_bytes = Len(text)
    /\ \A d \in OpenObjects(state) :
            /\ Part(state, d).properties <= state.limits.max_properties
            /\ Len(Part(state, d).key) <= state.limits.max_key_bytes
    /\ out \subseteq Vocabulary
    /\ fresh \in {"none", "ok", "err"}

(* A document is accepted exactly when it satisfies the schema, duplicate
   keys in any spelling, counts and dependencies included, however it was
   cut into tokens and whatever masks were computed on the way. *)
AcceptsLanguage ==
    Idle => (state.accepting <=> Document!Satisfies(root, text))

(* A computed mask has a token's bit exactly when advance would commit the
   token: the slices taken whole and the trie walk, which shares one state
   between all candidates, agree with the token pushed alone. *)
MaskPredictsAdvance ==
    Idle /\ fresh = "ok" => out = {token \in Vocabulary : AdvanceOf(state, token).res = "true"}

(* No token is masked out that begins a valid document: every completion of
   the tokens without a bit is invalid. *)
CompletableAdmitted ==
    Idle /\ fresh = "ok" =>
        \A token \in Vocabulary \ out : \A end \in CompletionsOf[root] :
            ~Document!Satisfies(root, text \o token \o end)

(* Atomic calls: an advance that does not commit, and a mask however it ends,
   leave the state as it was before the call. *)
CallsAreAtomic ==
    [][ /\ (Idle /\ text' = text => Observable(state') = Observable(state))
        /\ (walk.on /\ ~walk'.on => Observable(state') = walk.entry) ]_vars

(* Between calls, every KeyId an open object holds still names a key of the
   arena, and no two objects hold the same one: reclaiming the keys of closed
   objects never takes a key of an open one.  It holds for vocabularies in
   which no token closes an object and then finishes another key; the run
   structured_keys has such a token. *)
KeysLive ==
    Idle =>
        LET Ids(d) == UNION {ToSet(ids) : ids \in Range(Part(state, d).seen_dynamic)}
        IN /\ \A d \in OpenObjects(state) : Ids(d) \subseteq DOMAIN state.arena
           /\ \A d, e \in OpenObjects(state) : d # e => Ids(d) \cap Ids(e) = {}

(* The states of the tree of validators, with what they keep for reuse. *)
RECURSIVE Validators(_)
Validators(s) ==
    {s} \cup UNION {Validators(s.slots[id].sub) : id \in {i \in LiveSlots(s) : s.slots[i].kind = "Structured"}}

(* No cursor is leaked and none is released twice: in every validator of the
   tree the live slots of the pool are those the frames own, or the undo log
   would give back to them, each once, and the free list has the others. *)
CursorsOwnedOwned(s, owned) ==
    /\ IsInjective(owned \o s.free_slots)
    /\ ToSet(owned) = LiveSlots(s)
    /\ ToSet(s.free_slots) = DOMAIN s.slots \ LiveSlots(s)

CursorsOwned ==
    \A s \in Validators(state) :
        CursorsOwnedOwned(s,
            FlattenSeq([d \in DOMAIN s.frames |-> FrameCursors(s.frames[d])])
               \o FlattenSeq([i \in DOMAIN s.undo |-> Leftover(s.undo[i])]))

(* A validator that is kept for reuse cannot be told from a new one of its
   schema, depth and scope. *)
ReuseIsFresh ==
    \A s \in Validators(state) : \A entry \in ToSet(s.cached) : \A kept \in ToSet(entry) :
        Observable(kept) = Observable(NewAt(kept.node, kept.limits, kept.depth_offset, kept.scopes[1], 0))

(* The session's ledger: no more validators are alive than the limit allows,
   those inside cursors included. *)
LedgerBounded == ValidatorCount(state) <= state.limits.max_active_validators

(* A slot of the AnyJson arena is never both on the free list and in an open
   or a restorable frame, nor twice in either. *)
SlotsNotShared ==
    LET frames == state.frames \o
                  [i \in DOMAIN state.undo |->
                      IF state.undo[i].op = "PushFrame" THEN state.undo[i].frame ELSE [kind |-> "None"]]
        owners == SelectSeq(frames, LAMBDA f : f.kind = "AnyObject")
        ids == [i \in DOMAIN owners |-> owners[i].id] \o state.free
    IN IsInjective(ids)
=============================================================================
