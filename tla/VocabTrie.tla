----------------------------- MODULE VocabTrie -----------------------------
(***************************************************************************)
(* The vocabulary trie and the joint walk that turns it into token masks   *)
(* (index/trie.rs, index/build.rs).                                        *)
(*                                                                         *)
(* build_byte_csr inserts the tokens of a sorted vocabulary along a        *)
(* longest-common-prefix stack and flattens the edges into CSR arrays;     *)
(* compute_max_dfs_frontier measures the largest stack an unpruned walk    *)
(* needs; fill_packed_rows then walks the trie once per engine state, with *)
(* dead subtrees pruned, a step memo that is invalidated by a wrapping     *)
(* generation counter, and the measured frontier as the stack's fuel.      *)
(* One action is one iteration of one of these loops.                      *)
(*                                                                         *)
(* Node ids start at 0 (the root).  The CSR ranges are represented by what *)
(* they delimit: the children of a node and the token ids that end at it.  *)
(***************************************************************************)
EXTENDS ByteEngine, Functions

CONSTANTS
    Vocabulary,     \* the vocabularies tried: sets of non-empty byte strings
    Ids,            \* byte string -> set of token ids
    RawAutomaton,   \* the automata tried
    MemoWrap        \* the memo's generation counter is computed modulo this (2^32)

ASSUME MemoAssumption == MemoWrap \in Nat /\ MemoWrap >= 2
ASSUME VocabularyAssumption ==
    \A v \in Vocabulary : IsFiniteSet(v) /\ v \subseteq Seq(Byte) /\ <<>> \notin v

(* Ids of the same bytes are grouped, and an id has one byte string.        *)
ASSUME IdsAssumption ==
    /\ \A s \in UNION Vocabulary : Ids[s] # {}
    /\ \A r, s \in UNION Vocabulary : r # s => Ids[r] \cap Ids[s] = {}

(* An edge of a class that no byte has does not exist.                      *)
ASSUME AutomatonAssumption ==
    \A raw \in RawAutomaton :
        /\ raw.start \in RawState /\ raw.accepting \subseteq RawState
        /\ raw.classOf \in [Byte -> Class]
        /\ raw.edge \in [RawState \X Class -> EngineState]
        /\ \A q \in RawState, c \in Class :
              raw.edge[<<q, c>>] # Dead => \E b \in Byte : raw.classOf[b] = c

VARIABLES
    engine,
    pairs,          \* prepared records still to be inserted
    build,          \* path, prev, edges, leaves, nodes of build_byte_csr
    trie,           \* children, tokens, frontier
    phase,          \* which loop runs, or how it failed
    stack,          \* the depth-first stack of the loop that runs
    memo,           \* StepMemo: generation, value, current
    state,          \* the engine states whose rows are still to be filled
    rows            \* the packed rows, engine state -> set of token ids

vars == <<engine, pairs, build, trie, phase, stack, memo, state, rows>>

----------------------------------------------------------------------------
(* PreparedVocabulary: records in lexicographic byte order.                 *)
LexLess(a, b) ==
    \/ \E n \in 0 .. Len(a) : n < Len(b) /\ n = Len(a) /\ SubSeq(b, 1, n) = a
    \/ \E n \in 1 .. Len(a) : /\ n <= Len(b) /\ a[n] < b[n]
                              /\ SubSeq(a, 1, n - 1) = SubSeq(b, 1, n - 1)

Prepared(v) ==
    {s \in [1 .. Cardinality(v) -> v] : \A i, j \in DOMAIN s : i < j => LexLess(s[i], s[j])}

NoTrie == [children |-> <<>>, tokens |-> <<>>, frontier |-> 0]

Init ==
    /\ \E raw \in RawAutomaton : engine = Materialize(raw)
    /\ \E v \in Vocabulary : pairs \in Prepared(v)
    /\ build = [path |-> <<0>>, prev |-> <<>>, edges |-> <<>>, leaves |-> <<>>, nodes |-> 1]
    /\ trie = NoTrie
    /\ phase = "insert"
    /\ stack = <<>>
    /\ memo = [generation |-> [c \in Class |-> 0], value |-> [c \in Class |-> Dead], current |-> 0]
    /\ state = EngineState
    /\ rows = [q \in EngineState |-> {}]

----------------------------------------------------------------------------
(* build_byte_csr.                                                          *)

(* The members of s that are in T, in the order of s.                       *)
Filtered(s, T) ==
    LET kept[i \in 0 .. Len(s)] ==
            IF i = 0 THEN <<>>
            ELSE IF s[i] \in T THEN Append(kept[i - 1], s[i]) ELSE kept[i - 1]
    IN  kept[Len(s)]

CommonPrefixLen(a, b) ==
    CHOOSE n \in 0 .. Len(a) :
        /\ n <= Len(b) /\ SubSeq(a, 1, n) = SubSeq(b, 1, n)
        /\ n = Len(a) \/ n = Len(b) \/ a[n + 1] # b[n + 1]

(* One record: new nodes for the bytes past the common prefix.              *)
Inserted(b, bytes) ==
    LET lcp == CommonPrefixLen(b.prev, bytes)
        fresh == Len(bytes) - lcp
        path == SubSeq(b.path, 1, lcp + 1) \o [i \in 1 .. fresh |-> b.nodes + i - 1]
    IN  [path |-> path,
         prev |-> bytes,
         nodes |-> b.nodes + fresh,
         edges |-> b.edges \o
             [i \in 1 .. fresh |-> [parent |-> path[lcp + i], key |-> bytes[lcp + i],
                                    child |-> path[lcp + i + 1]]],
         leaves |-> Append(b.leaves, [node |-> path[Len(path)], ids |-> Ids[bytes]])]

Insert ==
    /\ phase = "insert" /\ pairs # <<>>
    /\ build' = Inserted(build, Head(pairs))
    /\ pairs' = Tail(pairs)
    /\ UNCHANGED <<engine, trie, phase, stack, memo, state, rows>>

Node == 0 .. build.nodes - 1

(* The counting sort by parent is stable: children keep insertion order.    *)
ChildrenOf(n) == Filtered(build.edges, {e \in Range(build.edges) : e.parent = n})

(* The scan that places leaves node by node: how many are placed below n.   *)
LeavesPlaced ==
    LET placed[n \in 0 .. build.nodes] ==
            IF n = 0 THEN 0
            ELSE LET li == placed[n - 1]
                 IN  IF li < Len(build.leaves) /\ build.leaves[li + 1].node = n - 1
                       THEN li + 1 ELSE li
    IN  placed

Flatten ==
    /\ phase = "insert" /\ pairs = <<>>
    /\ LET placed == LeavesPlaced IN
          IF placed[build.nodes] # Len(build.leaves)
            THEN phase' = "terminal node unplaced" /\ UNCHANGED <<trie, stack>>
            ELSE /\ phase' = "measure"
                 /\ stack' = <<0>>
                 /\ trie' = [children |-> [n \in Node |-> ChildrenOf(n)],
                             tokens |-> [n \in Node |->
                                 IF placed[n + 1] > placed[n] THEN build.leaves[placed[n + 1]].ids ELSE {}],
                             frontier |-> 1]
    /\ UNCHANGED <<engine, pairs, build, memo, state, rows>>

(* compute_max_dfs_frontier: pop a node, push all its children.             *)
Popped == SubSeq(stack, 1, Len(stack) - 1)
Peek == stack[Len(stack)]

(* Mutant of Measure: the depth is read before the children are pushed.     *)
MeasureBeforePush ==
    /\ phase = "measure" /\ stack # <<>>
    /\ LET kids == trie.children[Peek]
       IN  stack' = Popped \o [i \in 1 .. Len(kids) |-> kids[i].child]
    /\ trie' = [trie EXCEPT !.frontier = IF Len(Popped) > @ THEN Len(Popped) ELSE @]
    /\ UNCHANGED <<engine, pairs, build, phase, memo, state, rows>>

Measure ==
    /\ phase = "measure" /\ stack # <<>>
    /\ LET kids == trie.children[Peek]
           next == Popped \o [i \in 1 .. Len(kids) |-> kids[i].child]
       IN  /\ stack' = next
           /\ trie' = [trie EXCEPT !.frontier = IF Len(next) > @ THEN Len(next) ELSE @]
    /\ UNCHANGED <<engine, pairs, build, phase, memo, state, rows>>

Measured ==
    /\ phase = "measure" /\ stack = <<>>
    /\ phase' = "fill"
    /\ UNCHANGED <<engine, pairs, build, trie, stack, memo, state, rows>>

----------------------------------------------------------------------------
(* fill_packed_rows and walk_live_subtree.                                  *)

(* Mutant of Bumped: the wrapped counter reuses live generations.           *)
BumpedNoReset(m) == [m EXCEPT !.current = (@ + 1) % MemoWrap]

(* StepMemo::bump: when the counter wraps, every generation is forgotten.   *)
Bumped(m) ==
    LET next == (m.current + 1) % MemoWrap
    IN  IF next = 0
          THEN [m EXCEPT !.generation = [c \in Class |-> 0], !.current = 1]
          ELSE [m EXCEPT !.current = next]

(* StepMemo::get_or, for the first lookup of a class at this node and for   *)
(* the later ones, which find what the first stored.                        *)
Memoized(m, q, c) == IF m.generation[c] = m.current THEN m.value[c] ELSE Step(engine, q, c)

BeginRow ==
    /\ phase = "fill" /\ stack = <<>> /\ state # {}
    /\ \E s \in state :
          /\ state' = state \ {s}
          /\ phase' = "walk"
          /\ stack' = <<[row |-> s, node |-> 0, at |-> s]>>
    /\ UNCHANGED <<engine, pairs, build, trie, memo, rows>>

(* Popped with the sink on top: reached only from the dead state's own row. *)
SkipDead ==
    /\ phase = "walk" /\ stack # <<>>
    /\ Peek.at = Dead
    /\ stack' = Popped
    /\ UNCHANGED <<engine, pairs, build, trie, phase, memo, state, rows>>

(* The edges the walk goes down: their class is live from the CURRENT state. *)
Descends(m, top) ==
    {e \in Range(trie.children[top.node]) :
        /\ engine.classOf[e.key] \in LiveClasses(engine, top.at)
        /\ Memoized(m, top.at, engine.classOf[e.key]) # Dead}

(* One popped node: emit its tokens, push its live children under the fuel. *)
Visit ==
    /\ phase = "walk" /\ stack # <<>>
    /\ Peek.at # Dead
    /\ LET top == Peek
           bumped == Bumped(memo)
           kids == Filtered(trie.children[top.node], Descends(bumped, top))
           classes == {engine.classOf[kids[i].key] : i \in 1 .. Len(kids)}
           next == Popped \o [i \in 1 .. Len(kids) |->
                       [row |-> top.row, node |-> kids[i].child,
                        at |-> Memoized(bumped, top.at, engine.classOf[kids[i].key])]]
       IN  /\ rows' = [rows EXCEPT ![top.row] = @ \cup trie.tokens[top.node]]
           /\ memo' = [bumped EXCEPT
                          !.value = [c \in Class |-> IF c \in classes THEN Memoized(bumped, top.at, c) ELSE @[c]],
                          !.generation = [c \in Class |-> IF c \in classes THEN bumped.current ELSE @[c]]]
           /\ IF Len(next) > trie.frontier
                THEN phase' = "stack exceeds the fuel" /\ UNCHANGED stack
                ELSE stack' = next /\ UNCHANGED phase
    /\ UNCHANGED <<engine, pairs, build, trie, state>>

EndRow ==
    /\ phase = "walk" /\ stack = <<>>
    /\ phase' = "fill"
    /\ UNCHANGED <<engine, pairs, build, trie, stack, memo, state, rows>>

(* All rows are filled.                                                     *)
Done == phase = "fill" /\ stack = <<>> /\ state = {} /\ UNCHANGED vars

Next == \/ Insert \/ Flatten \/ Measure \/ Measured
        \/ BeginRow \/ SkipDead \/ Visit \/ EndRow \/ Done

Spec == Init /\ [][Next]_vars

----------------------------------------------------------------------------
Built == phase \in {"measure", "fill", "walk", "stack exceeds the fuel"}

(* The vocabulary that was inserted, as the leaf records name it.           *)
TokenString == {s \in UNION Vocabulary : \E i \in 1 .. Len(build.leaves) : build.leaves[i].ids = Ids[s]}

(* Types of the build, the trie and the walk.                               *)
TypeOK ==
    /\ phase \in {"insert", "measure", "fill", "walk", "terminal node unplaced",
                  "stack exceeds the fuel"}
    /\ build.nodes \in Nat
    /\ state \subseteq EngineState
    /\ memo.current \in 0 .. MemoWrap - 1
    /\ memo.generation \in [Class -> 0 .. MemoWrap - 1]
    /\ memo.value \in [Class -> EngineState]

(* "the exact maximum DFS-stack size a joint walk over this trie can ever   *)
(* reach": a walk pruned in any way never runs out of the fuel that was     *)
(* measured on the unpruned one.                                            *)
FuelSuffices == phase # "stack exceeds the fuel"

(* "every route is byte-identical to Naive": a finished row holds exactly   *)
(* the tokens consume_token accepts from its state, whatever the memo       *)
(* remembers from the nodes and rows before.                                *)
RowsMatchNaive ==
    Built => \A q \in EngineState :
        q \notin state /\ (stack = <<>> \/ phase # "walk" \/ stack[1].row # q) =>
            rows[q] = UNION {Ids[s] : s \in {s \in TokenString : ConsumeToken(engine, q, s) # Dead}}

(* The mask is exactly the tokens that can be completed: a token is in a    *)
(* row if and only if an accepting state can be reached from wherever it    *)
(* leaves the engine.  An allowed token never leads into a dead end, and    *)
(* folding the dead states masks no token a text could go on with.          *)
MaskIsCompletable ==
    phase = "fill" /\ state = {} =>
        \A q \in EngineState : \A s \in TokenString :
            Ids[s] \subseteq rows[q] <=>
                LET at == ConsumeToken(engine, q, s)
                IN  \E n \in 0 .. Cardinality(RawState) : \E w \in [1 .. n -> Byte] :
                        IsAccepting(engine, ConsumeToken(engine, at, w))
=============================================================================
