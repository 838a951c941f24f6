----------------------------- MODULE MCVocabTrie -----------------------------
(* Five vocabularies over two bytes with every automaton of two states.      *)
EXTENDS VocabTrie, SequencesExt

MCByte == {1, 2}
MCClass == {1, 2}
MCRawState == {1, 2}
MCDead == 0

(* A token in a prefix chain, a fan-out at the root and below, two ids for  *)
(* one byte string, a byte order that differs from the length order.        *)
MCVocabulary ==
    { {},
      {<<1>>, <<1, 1>>, <<1, 1, 1>>},
      {<<1>>, <<2>>, <<1, 2>>, <<2, 1>>},
      {<<2>>, <<1, 2, 1>>, <<1, 2, 2>>, <<1, 1>>},
      {<<1, 1>>, <<1, 2>>, <<2, 1>>, <<2, 2>>} }

(* An id per byte string, and a second one for the string <<2>>.            *)
MCIds ==
    [s \in UNION MCVocabulary |->
        {FoldLeft(LAMBDA acc, b : 3 * acc + b, 0, s)} \cup (IF s = <<2>> THEN {100} ELSE {})]

(* Two bytes in two classes or in one, and every table of edges.            *)
MCRawAutomaton ==
    {[start |-> 1, accepting |-> acc, classOf |-> cls, edge |-> e] :
        <<acc, cls, e>> \in
            {<<a, k, f>> \in (SUBSET RawState)
                              \X {[b \in Byte |-> b], [b \in Byte |-> 1]}
                              \X [RawState \X Class -> EngineState] :
                \A q \in RawState, c \in Class : (\A b \in Byte : k[b] # c) => f[q, c] = Dead}}
=============================================================================
