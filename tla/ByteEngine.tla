----------------------------- MODULE ByteEngine -----------------------------
(***************************************************************************)
(* The byte-level DFA every regular schema is compiled to (RefEngine,      *)
(* automaton/byte_dfa.rs): its materialisation from a raw automaton, which *)
(* folds every state that cannot reach acceptance into one dead sink, and  *)
(* the operations the index and the matcher use.                           *)
(*                                                                         *)
(* A raw automaton is a record: start, accepting, classOf (byte -> class)  *)
(* and edge (<<state, class>> -> state or Dead).  The renumbering of the   *)
(* live states, which nothing observes, is left out.                       *)
(***************************************************************************)
EXTENDS Integers, Sequences, FiniteSets

CONSTANTS
    Byte,           \* bytes, as numbers
    Class,          \* byte classes
    RawState,       \* states of the automata that are materialised
    Dead            \* the dead sink

ASSUME DeadAssumption == Dead \notin RawState
ASSUME EngineAssumption == IsFiniteSet(RawState) /\ IsFiniteSet(Class) /\ Byte \subseteq Nat

EngineState == RawState \cup {Dead}

(* Mutant of CoAccessible: nothing is folded into the dead sink.            *)
AllStates(raw) == raw.accepting \cup RawState

(* The rounds of the backward closure over the reverse edges.               *)
Rounds(raw) ==
    LET grow[n \in 0 .. Cardinality(RawState)] ==
            IF n = 0
              THEN raw.accepting
              ELSE grow[n - 1] \cup {q \in RawState : \E c \in Class : raw.edge[<<q, c>>] \in grow[n - 1]}
    IN  grow

CoAccessible(raw) == Rounds(raw)[Cardinality(RawState)]

(* Live states keep their live edges; every other edge means "dead".        *)
Materialize(raw) ==
    LET live == CoAccessible(raw)
        Fold(q) == IF q \in live THEN q ELSE Dead
    IN  [start |-> Fold(raw.start),
         accepting |-> raw.accepting,
         classOf |-> raw.classOf,
         edge |-> [p \in live \X Class |-> Fold(raw.edge[p])],
         liveClasses |-> [q \in live |-> {c \in Class : Fold(raw.edge[<<q, c>>]) # Dead}]]

Step(engine, q, c) == IF <<q, c>> \in DOMAIN engine.edge THEN engine.edge[<<q, c>>] ELSE Dead

LiveClasses(engine, q) == IF q \in DOMAIN engine.liveClasses THEN engine.liveClasses[q] ELSE {}

(* The states consume_token goes through, from q.                           *)
Trail(engine, q, bytes) ==
    LET at[i \in 0 .. Len(bytes)] ==
            IF i = 0 THEN q ELSE Step(engine, at[i - 1], engine.classOf[bytes[i]])
    IN  at

(* consume_token of a non-empty token: Dead stands for None.                *)
ConsumeToken(engine, q, bytes) == Trail(engine, q, bytes)[Len(bytes)]

IsAccepting(engine, q) == q \in engine.accepting
=============================================================================
