-------------------------- MODULE VocabTrieProofs --------------------------
(***************************************************************************)
(* The vocabulary trie and its walk, proved for any vocabulary, automaton  *)
(* and wrap of the memo: the measured frontier is enough for every pruned  *)
(* walk, a finished row is what the token-by-token simulation allows, and  *)
(* what a row allows can be completed.                                     *)
(*                                                                         *)
(* The nodes of the trie have labels, the bytes of the path from the root. *)
(* The stack is bounded by the positions the nodes had when the frontier   *)
(* was measured: a node is never higher in the stack of a pruned walk.     *)
(***************************************************************************)
EXTENDS VocabTrie, WeightsProofs, SequenceTheorems

----------------------------------------------------------------------------
(* Runs of an engine.                                                       *)

(* What the walk needs of an automaton.                                     *)
EngineOK(e) ==
    /\ e.classOf \in [Byte -> Class]
    /\ \A q \in EngineState, c \in Class :
          /\ Step(e, q, c) \in EngineState
          /\ c \in LiveClasses(e, q) <=> Step(e, q, c) # Dead
    /\ \A c \in Class : Step(e, Dead, c) = Dead

(* Trail is the run of the engine.                                          *)
LEMMA TrailEquation ==
    ASSUME NEW e, EngineOK(e), NEW q \in EngineState, NEW w \in Seq(Byte)
    PROVE  /\ Trail(e, q, w) \in [0 .. Len(w) -> EngineState]
           /\ Trail(e, q, w)[0] = q
           /\ \A i \in 1 .. Len(w) : Trail(e, q, w)[i] = Step(e, Trail(e, q, w)[i - 1], e.classOf[w[i]])
<1>. DEFINE Eq(g) == g = [i \in 0 .. Len(w) |-> IF i = 0 THEN q ELSE Step(e, g[i - 1], e.classOf[w[i]])]
            F == [i \in 1 .. Len(w) |-> [p \in EngineState |-> Step(e, p, e.classOf[w[i]])]]
<1>1. Len(w) \in Nat /\ \A i \in 1 .. Len(w) : w[i] \in Byte
  OBVIOUS
<1>2. F \in [1 .. Len(w) -> [EngineState -> EngineState]]
  BY <1>1 DEF EngineOK
<1>3. PICK g \in [0 .. Len(w) -> EngineState] : Follows(g, q, Len(w), F)
  <2>. HIDE DEF F
  <2>. QED BY <1>1, <1>2, RecursionExists
<1>4. g[0] = q /\ \A i \in 1 .. Len(w) : g[i] = F[i][g[i - 1]]
  BY <1>3 DEF Follows
<1>5. ASSUME NEW i \in 1 .. Len(w) PROVE g[i] = Step(e, g[i - 1], e.classOf[w[i]])
  <2>1. i - 1 \in 0 .. Len(w) /\ g[i - 1] \in EngineState /\ g[i] = F[i][g[i - 1]]
    <3>. HIDE DEF F
    <3>. QED BY <1>1, <1>4
  <2>. QED BY <2>1
<1>6. Eq(g)
  BY <1>1, <1>4, <1>5
<1>7. Trail(e, q, w) = CHOOSE h : Eq(h)
  BY DEF Trail
<1>8. Eq(Trail(e, q, w))
  <2>. HIDE DEF Eq
  <2>. QED BY <1>6, <1>7, Zenon
<1>9. ASSUME NEW h, Eq(h)
      PROVE  h \in [0 .. Len(w) -> EngineState] /\ h[0] = q
             /\ \A i \in 1 .. Len(w) : h[i] = Step(e, h[i - 1], e.classOf[w[i]])
  <2>1. DOMAIN h = 0 .. Len(w) /\ h = [i \in 0 .. Len(w) |-> h[i]]
    BY <1>9
  <2>2. h[0] = q /\ \A i \in 1 .. Len(w) : h[i] = Step(e, h[i - 1], e.classOf[w[i]])
    BY <1>1, <1>9
  <2>. DEFINE S == {i \in 0 .. Len(w) : h[i] \in EngineState}
  <2>3. 0 .. Len(w) \subseteq S
    <3>1. 0 \in S
      BY <1>1, <2>2
    <3>2. ASSUME NEW i \in 1 .. Len(w), i - 1 \in S PROVE i \in S
      BY <1>1, <2>2, <3>2 DEF EngineOK
    <3>. HIDE DEF S
    <3>. QED BY <1>1, <3>1, <3>2, SetInduction
  <2>. QED BY <2>1, <2>2, <2>3
<1>. QED
  <2>. HIDE DEF Eq
  <2>. QED BY <1>8, <1>9

(* Two runs over a common stretch of bytes agree on it.                     *)
LEMMA TrailsAgree ==
    ASSUME NEW e, EngineOK(e), NEW p \in EngineState, NEW q \in EngineState,
           NEW u \in Seq(Byte), NEW w \in Seq(Byte), NEW k \in 0 .. Len(u), k + Len(w) <= Len(u),
           Trail(e, p, u)[k] = q, \A i \in 1 .. Len(w) : u[k + i] = w[i]
    PROVE  \A i \in 0 .. Len(w) : Trail(e, p, u)[k + i] = Trail(e, q, w)[i]
<1>. DEFINE g == Trail(e, p, u)
            h == Trail(e, q, w)
            S == {i \in 0 .. Len(w) : g[k + i] = h[i]}
<1>1. /\ g \in [0 .. Len(u) -> EngineState]
      /\ \A i \in 1 .. Len(u) : g[i] = Step(e, g[i - 1], e.classOf[u[i]])
      /\ h[0] = q /\ \A i \in 1 .. Len(w) : h[i] = Step(e, h[i - 1], e.classOf[w[i]])
      /\ g[k] = q
  BY TrailEquation
<1>2. Len(u) \in Nat /\ Len(w) \in Nat
  OBVIOUS
<1>. HIDE DEF g, h
<1>3. 0 \in S
  BY <1>1, <1>2
<1>4. ASSUME NEW i \in 1 .. Len(w), i - 1 \in S PROVE i \in S
  <2>1. k + i \in 1 .. Len(u) /\ (k + i) - 1 = k + (i - 1)
    BY <1>2
  <2>2. g[k + i] = Step(e, g[k + (i - 1)], e.classOf[u[k + i]])
    BY <1>1, <2>1
  <2>3. g[k + (i - 1)] = h[i - 1] /\ u[k + i] = w[i]
    BY <1>4
  <2>. QED BY <1>1, <2>2, <2>3
<1>5. 0 .. Len(w) \subseteq S
  <2>. HIDE DEF S
  <2>. QED BY <1>2, <1>3, <1>4, SetInduction
<1>. QED BY <1>5 DEF g, h

(* A token is consumed byte by byte, from its end ...                       *)
LEMMA ConsumeAppend ==
    ASSUME NEW e, EngineOK(e), NEW q \in EngineState, NEW w \in Seq(Byte), NEW b \in Byte
    PROVE  /\ ConsumeToken(e, q, w) \in EngineState
           /\ ConsumeToken(e, q, Append(w, b)) = Step(e, ConsumeToken(e, q, w), e.classOf[b])
<1>. DEFINE u == Append(w, b)
<1>1. /\ u \in Seq(Byte) /\ Len(u) = Len(w) + 1 /\ u[Len(w) + 1] = b
      /\ Len(w) \in Nat /\ \A i \in 1 .. Len(w) : u[i] = w[i]
  BY AppendProperties
<1>. HIDE DEF u
<1>2. /\ Trail(e, q, w) \in [0 .. Len(w) -> EngineState]
      /\ Trail(e, q, u)[0] = q
      /\ Trail(e, q, u)[Len(u)] = Step(e, Trail(e, q, u)[Len(u) - 1], e.classOf[u[Len(u)]])
  BY <1>1, TrailEquation
<1>3. \A i \in 0 .. Len(w) : Trail(e, q, u)[0 + i] = Trail(e, q, w)[i]
  BY <1>1, <1>2, TrailsAgree
<1>4. Trail(e, q, u)[Len(w)] = Trail(e, q, w)[Len(w)]
  BY <1>1, <1>3
<1>. QED BY <1>1, <1>2, <1>4 DEF ConsumeToken, u

LEMMA ConsumeEmpty ==
    ASSUME NEW e, EngineOK(e), NEW q \in EngineState, NEW w \in Seq(Byte), Len(w) = 0
    PROVE  ConsumeToken(e, q, w) = q
<1>1. Trail(e, q, w)[0] = q
  BY TrailEquation
<1>. QED BY <1>1 DEF ConsumeToken

(* ... or from its first byte.                                              *)
LEMMA ConsumeFirst ==
    ASSUME NEW e, EngineOK(e), NEW q \in EngineState, NEW w \in Seq(Byte), NEW b \in Byte,
           NEW u \in Seq(Byte), Len(u) = Len(w) + 1, u[1] = b, \A i \in 1 .. Len(w) : u[1 + i] = w[i]
    PROVE  ConsumeToken(e, q, u) = ConsumeToken(e, Step(e, q, e.classOf[b]), w)
<1>1. Len(w) \in Nat /\ 1 \in 0 .. Len(u) /\ 1 + Len(w) <= Len(u)
  OBVIOUS
<1>. DEFINE r == Step(e, q, e.classOf[b])
<1>2. r \in EngineState
  BY DEF EngineOK
<1>3. Trail(e, q, u)[1] = r
  <2>1. /\ Trail(e, q, u)[0] = q
        /\ \A i \in 1 .. Len(u) : Trail(e, q, u)[i] = Step(e, Trail(e, q, u)[i - 1], e.classOf[u[i]])
    BY TrailEquation
  <2>2. 1 \in 1 .. Len(u) /\ 1 - 1 = 0
    BY <1>1
  <2>3. Trail(e, q, u)[1] = Step(e, Trail(e, q, u)[1 - 1], e.classOf[u[1]])
    BY <2>1, <2>2
  <2>. QED BY <2>1, <2>2, <2>3
<1>. HIDE DEF r
<1>4. \A i \in 0 .. Len(w) : Trail(e, q, u)[1 + i] = Trail(e, r, w)[i]
  BY <1>1, <1>2, <1>3, TrailsAgree, SMTT(20)
<1>. QED BY <1>1, <1>4 DEF ConsumeToken, r

----------------------------------------------------------------------------
(* Materialize.                                                             *)

States == Cardinality(RawState)

(* One round of the backward closure.                                       *)
Back(raw, X) == X \cup {q \in RawState : \E c \in Class : raw.edge[<<q, c>>] \in X}

LEMMA StatesType == States \in Nat
  BY EngineAssumption, FS_CardinalityType DEF States

LEMMA RoundsEquation ==
    ASSUME NEW raw \in RawAutomaton
    PROVE  /\ Rounds(raw) \in [0 .. States -> SUBSET RawState]
           /\ Rounds(raw)[0] = raw.accepting
           /\ \A i \in 1 .. States : Rounds(raw)[i] = Back(raw, Rounds(raw)[i - 1])
<1>. DEFINE D == SUBSET RawState
            Eq(g) == g = [n \in 0 .. States |-> IF n = 0 THEN raw.accepting ELSE Back(raw, g[n - 1])]
            F == [i \in 1 .. States |-> [X \in D |-> Back(raw, X)]]
<1>0. States \in Nat
  BY StatesType
<1>1. raw.accepting \in D /\ \A X \in D : Back(raw, X) \in D
  BY AutomatonAssumption DEF Back
<1>2. F \in [1 .. States -> [D -> D]]
  BY <1>1
<1>3. PICK g \in [0 .. States -> D] : Follows(g, raw.accepting, States, F)
  <2>. HIDE DEF F, D
  <2>. QED BY <1>0, <1>1, <1>2, RecursionExists
<1>4. g[0] = raw.accepting /\ \A i \in 1 .. States : g[i] = F[i][g[i - 1]]
  BY <1>3 DEF Follows
<1>5. ASSUME NEW i \in 1 .. States PROVE g[i] = Back(raw, g[i - 1])
  <2>1. i - 1 \in 0 .. States /\ g[i - 1] \in D /\ g[i] = F[i][g[i - 1]]
    <3>. HIDE DEF F, D
    <3>. QED BY <1>0, <1>4
  <2>. QED BY <2>1
<1>6. Eq(g)
  BY <1>0, <1>4, <1>5
<1>7. Rounds(raw) = CHOOSE h : Eq(h)
  BY DEF Rounds, States, Back
<1>8. Eq(Rounds(raw))
  <2>. HIDE DEF Eq
  <2>. QED BY <1>6, <1>7, Zenon
<1>9. ASSUME NEW h, Eq(h)
      PROVE  h \in [0 .. States -> D] /\ h[0] = raw.accepting
             /\ \A i \in 1 .. States : h[i] = Back(raw, h[i - 1])
  <2>1. DOMAIN h = 0 .. States /\ h = [i \in 0 .. States |-> h[i]]
    BY <1>9
  <2>2. h[0] = raw.accepting /\ \A i \in 1 .. States : h[i] = Back(raw, h[i - 1])
    BY <1>0, <1>9
  <2>. DEFINE S == {i \in 0 .. States : h[i] \in D}
  <2>3. 0 .. States \subseteq S
    <3>1. 0 \in S
      BY <1>0, <1>1, <2>2
    <3>2. ASSUME NEW i \in 1 .. States, i - 1 \in S PROVE i \in S
      <4>. HIDE DEF D
      <4>. QED BY <1>0, <1>1, <2>2, <3>2
    <3>. HIDE DEF S
    <3>. QED BY <1>0, <3>1, <3>2, SetInduction
  <2>. QED BY <2>1, <2>2, <2>3
<1>. QED
  <2>. HIDE DEF Eq
  <2>. QED BY <1>8, <1>9

(* The rounds grow, so that all of them are within the live states.         *)
LEMMA RoundsWithin ==
    ASSUME NEW raw \in RawAutomaton
    PROVE  \A n \in 0 .. States : Rounds(raw)[n] \subseteq CoAccessible(raw)
<1>. DEFINE G == Rounds(raw)
            S == {i \in 0 .. States : G[States - i] \subseteq G[States]}
<1>1. States \in Nat /\ \A i \in 1 .. States : G[i] = Back(raw, G[i - 1])
  BY StatesType, RoundsEquation
<1>. HIDE DEF G
<1>2. 0 \in S
  BY <1>1
<1>3. ASSUME NEW i \in 1 .. States, i - 1 \in S PROVE i \in S
  <2>1. States - (i - 1) \in 1 .. States /\ (States - (i - 1)) - 1 = States - i
    BY <1>1
  <2>2. G[States - i] \subseteq G[States - (i - 1)]
    BY <1>1, <2>1 DEF Back
  <2>. QED BY <1>3, <2>2
<1>4. 0 .. States \subseteq S
  <2>. HIDE DEF S
  <2>. QED BY <1>1, <1>2, <1>3, SetInduction
<1>5. ASSUME NEW n \in 0 .. States PROVE G[n] \subseteq G[States]
  <2>1. States - n \in S /\ States - (States - n) = n
    BY <1>1, <1>4
  <2>. QED BY <2>1
<1>. QED BY <1>5 DEF G, CoAccessible, States

(* The parts of a materialised automaton.                                   *)
Folded(raw, q) == IF q \in CoAccessible(raw) THEN q ELSE Dead

LEMMA LiveType ==
    ASSUME NEW raw \in RawAutomaton
    PROVE  CoAccessible(raw) \subseteq RawState /\ Dead \notin CoAccessible(raw)
  BY StatesType, RoundsEquation, DeadAssumption DEF CoAccessible, States

LEMMA MaterializedStep ==
    ASSUME NEW raw \in RawAutomaton, NEW q \in EngineState, NEW c \in Class
    PROVE  Step(Materialize(raw), q, c) =
               IF q \in CoAccessible(raw) THEN Folded(raw, raw.edge[<<q, c>>]) ELSE Dead
<1>1. Materialize(raw).edge = [p \in CoAccessible(raw) \X Class |-> Folded(raw, raw.edge[p])]
  BY DEF Materialize, Folded
<1>2. CASE q \in CoAccessible(raw)
  <2>1. <<q, c>> \in CoAccessible(raw) \X Class
    BY <1>2
  <2>. QED BY <1>1, <1>2, <2>1 DEF Step
<1>3. CASE q \notin CoAccessible(raw)
  <2>1. <<q, c>> \notin CoAccessible(raw) \X Class
    BY <1>3
  <2>. QED BY <1>1, <1>3, <2>1 DEF Step
<1>. QED BY <1>2, <1>3

LEMMA MaterializedOK ==
    ASSUME NEW raw \in RawAutomaton
    PROVE  EngineOK(Materialize(raw))
<1>. DEFINE e == Materialize(raw)
            live == CoAccessible(raw)
<1>0. e.classOf = raw.classOf /\ raw.classOf \in [Byte -> Class]
  BY AutomatonAssumption DEF Materialize
<1>1. e.liveClasses = [q \in live |-> {c \in Class : Folded(raw, raw.edge[<<q, c>>]) # Dead}]
  BY DEF Materialize, Folded
<1>2. live \subseteq RawState /\ Dead \notin live
  BY LiveType
<1>. HIDE DEF e, live
<1>3. ASSUME NEW q \in EngineState, NEW c \in Class
      PROVE  /\ Step(e, q, c) \in EngineState
             /\ c \in LiveClasses(e, q) <=> Step(e, q, c) # Dead
  <2>1. Step(e, q, c) = IF q \in live THEN Folded(raw, raw.edge[<<q, c>>]) ELSE Dead
    BY MaterializedStep DEF e, live
  <2>2. Step(e, q, c) \in EngineState
    BY <1>2, <2>1 DEF Folded, live, EngineState
  <2>3. LiveClasses(e, q) = IF q \in live THEN {d \in Class : Folded(raw, raw.edge[<<q, d>>]) # Dead} ELSE {}
    BY <1>1 DEF LiveClasses
  <2>. QED BY <2>1, <2>2, <2>3
<1>4. ASSUME NEW c \in Class PROVE Step(e, Dead, c) = Dead
  <2>1. Dead \in EngineState
    BY DEF EngineState
  <2>. QED BY <1>2, <2>1, MaterializedStep DEF e, live
<1>. QED BY <1>0, <1>3, <1>4 DEF EngineOK, e

(* From a state found in round n, n bytes are enough to reach acceptance.   *)
Completes(e, q, n) == \E k \in 0 .. n : \E w \in [1 .. k -> Byte] : IsAccepting(e, ConsumeToken(e, q, w))

LEMMA RoundCompletes ==
    ASSUME NEW raw \in RawAutomaton
    PROVE  \A n \in 0 .. States : \A q \in Rounds(raw)[n] : Completes(Materialize(raw), q, n)
<1>. DEFINE e == Materialize(raw)
            G == Rounds(raw)
            S == {n \in 0 .. States : \A q \in G[n] : Completes(e, q, n)}
<1>0. /\ States \in Nat /\ EngineOK(e) /\ e.accepting = raw.accepting /\ e.classOf = raw.classOf
      /\ G \in [0 .. States -> SUBSET RawState]
  BY StatesType, MaterializedOK, RoundsEquation DEF Materialize
<1>1. 0 \in S
  <2>1. ASSUME NEW q \in G[0] PROVE Completes(e, q, 0)
    <3>1. q \in raw.accepting /\ q \in EngineState
      BY <1>0, <2>1, RoundsEquation DEF EngineState
    <3>. DEFINE w == [i \in 1 .. 0 |-> q]
    <3>2. w \in Seq(Byte) /\ Len(w) = 0 /\ w \in [1 .. 0 -> Byte]
      OBVIOUS
    <3>. HIDE DEF w, e
    <3>3. ConsumeToken(e, q, w) = q
      BY <1>0, <3>1, <3>2, ConsumeEmpty
    <3>4. IsAccepting(e, ConsumeToken(e, q, w)) /\ 0 \in 0 .. 0
      BY <1>0, <3>1, <3>3 DEF IsAccepting
    <3>. QED BY <3>2, <3>4 DEF Completes
  <2>. QED BY <1>0, <2>1
<1>2. ASSUME NEW n \in 1 .. States, n - 1 \in S PROVE n \in S
  <2>1. ASSUME NEW q \in G[n] PROVE Completes(e, q, n)
    <3>0. n - 1 \in 0 .. States /\ n \in Nat
      BY <1>0
    <3>1. CASE q \in G[n - 1]
      <4>1. Completes(e, q, n - 1)
        BY <1>2, <3>1
      <4>2. PICK k \in 0 .. n - 1 : \E w \in [1 .. k -> Byte] : IsAccepting(e, ConsumeToken(e, q, w))
        BY <4>1 DEF Completes
      <4>3. k \in 0 .. n
        BY <3>0
      <4>. QED BY <4>2, <4>3 DEF Completes
    <3>2. CASE q \notin G[n - 1]
      <4>1. q \in RawState /\ \E c \in Class : raw.edge[<<q, c>>] \in G[n - 1]
        <5>1. G[n] = Back(raw, G[n - 1])
          BY RoundsEquation
        <5>. HIDE DEF G
        <5>. QED BY <2>1, <3>2, <5>1 DEF Back
      <4>2. PICK c \in Class : raw.edge[<<q, c>>] \in G[n - 1]
        BY <4>1
      <4>. DEFINE r == raw.edge[<<q, c>>]
      <4>3. r \in RawState /\ r \in CoAccessible(raw) /\ q \in CoAccessible(raw) /\ r # Dead
        BY <1>0, <3>0, <4>2, <2>1, RoundsWithin, DeadAssumption
      <4>4. PICK b \in Byte : raw.classOf[b] = c
        BY <4>1, <4>3, AutomatonAssumption
      <4>. HIDE DEF e
      <4>5. Step(e, q, c) = r /\ q \in EngineState /\ r \in EngineState
        BY <4>1, <4>3, MaterializedStep DEF e, Folded, EngineState
      <4>6. Completes(e, r, n - 1)
        BY <1>2, <4>2
      <4>. HIDE DEF r
      <4>7. PICK k \in 0 .. n - 1 : \E w \in [1 .. k -> Byte] : IsAccepting(e, ConsumeToken(e, r, w))
        BY <4>6 DEF Completes
      <4>8. PICK w \in [1 .. k -> Byte] : IsAccepting(e, ConsumeToken(e, r, w))
        BY <4>7
      <4>. DEFINE u == [i \in 1 .. k + 1 |-> IF i = 1 THEN b ELSE w[i - 1]]
      <4>9. /\ k \in Nat /\ k + 1 \in 0 .. n /\ w \in Seq(Byte) /\ Len(w) = k
            /\ u \in [1 .. k + 1 -> Byte] /\ u \in Seq(Byte) /\ Len(u) = Len(w) + 1
            /\ u[1] = b /\ \A i \in 1 .. Len(w) : u[1 + i] = w[i]
        <5>1. k \in Nat /\ k + 1 \in 0 .. n
          BY <3>0
        <5>2. w \in Seq(Byte) /\ Len(w) = k
          BY <5>1
        <5>3. u \in [1 .. k + 1 -> Byte]
          BY <5>1
        <5>4. u \in Seq(Byte) /\ Len(u) = k + 1
          <6>. HIDE DEF u
          <6>. QED BY <5>1, <5>3
        <5>5. u[1] = b /\ \A i \in 1 .. k : u[1 + i] = w[i]
          BY <5>1
        <5>. QED BY <5>1, <5>2, <5>3, <5>4, <5>5
      <4>. HIDE DEF u
      <4>10. ConsumeToken(e, q, u) = ConsumeToken(e, r, w)
        BY <1>0, <4>4, <4>5, <4>9, ConsumeFirst
      <4>. QED BY <4>8, <4>9, <4>10 DEF Completes
    <3>. QED BY <3>1, <3>2
  <2>. QED BY <2>1
<1>3. 0 .. States \subseteq S
  <2>. HIDE DEF S
  <2>. QED BY <1>0, <1>1, <1>2, SetInduction
<1>. QED BY <1>3

(* A step that does not die leads to a state from which acceptance can be   *)
(* reached.                                                                 *)
LEMMA LiveCompletes ==
    ASSUME NEW raw \in RawAutomaton, NEW q \in EngineState, NEW c \in Class,
           Step(Materialize(raw), q, c) # Dead
    PROVE  Completes(Materialize(raw), Step(Materialize(raw), q, c), States)
<1>1. Step(Materialize(raw), q, c) \in Rounds(raw)[States]
  BY MaterializedStep DEF Folded, CoAccessible, States
<1>. QED BY <1>1, RoundCompletes, StatesType

(* The sink is never left, and it does not accept.                          *)
LEMMA DeadConsumes ==
    ASSUME NEW e, EngineOK(e), NEW w \in Seq(Byte)
    PROVE  ConsumeToken(e, Dead, w) = Dead
<1>0. Dead \in EngineState /\ Len(w) \in Nat /\ e.classOf \in [Byte -> Class]
      /\ \A c \in Class : Step(e, Dead, c) = Dead
  BY DEF EngineState, EngineOK
<1>1. /\ Trail(e, Dead, w)[0] = Dead
      /\ \A i \in 1 .. Len(w) : Trail(e, Dead, w)[i] = Step(e, Trail(e, Dead, w)[i - 1], e.classOf[w[i]])
  BY <1>0, TrailEquation
<1>. DEFINE S == {i \in 0 .. Len(w) : Trail(e, Dead, w)[i] = Dead}
<1>2. 0 \in S
  BY <1>0, <1>1
<1>3. ASSUME NEW i \in 1 .. Len(w), i - 1 \in S PROVE i \in S
  <2>1. w[i] \in Byte
    BY <1>0
  <2>2. Trail(e, Dead, w)[i - 1] = Dead
    BY <1>3
  <2>. QED BY <1>0, <1>1, <2>1, <2>2
<1>4. 0 .. Len(w) \subseteq S
  <2>. HIDE DEF S
  <2>. QED BY <1>0, <1>2, <1>3, SetInduction
<1>. QED BY <1>0, <1>4 DEF ConsumeToken

LEMMA DeadNeverCompletes ==
    ASSUME NEW raw \in RawAutomaton, NEW n \in Nat
    PROVE  ~Completes(Materialize(raw), Dead, n)
<1>. DEFINE e == Materialize(raw)
<1>1. EngineOK(e) /\ e.accepting = raw.accepting
  BY MaterializedOK DEF Materialize
<1>2. Dead \notin e.accepting
  BY <1>1, AutomatonAssumption, DeadAssumption
<1>. HIDE DEF e
<1>3. ASSUME NEW k \in 0 .. n, NEW w \in [1 .. k -> Byte] PROVE ~IsAccepting(e, ConsumeToken(e, Dead, w))
  <2>1. w \in Seq(Byte)
    OBVIOUS
  <2>. QED BY <1>1, <1>2, <2>1, DeadConsumes DEF IsAccepting
<1>. QED BY <1>3 DEF Completes, e

----------------------------------------------------------------------------
(* Filtered.                                                                *)

(* r holds the members of the first n places of s that are in T; none has   *)
(* moved up.                                                                *)
Keeps(r, s, T, n) ==
    /\ Len(r) <= n
    /\ \A j \in 1 .. Len(r) : \E i \in 1 .. n : j <= i /\ r[j] = s[i] /\ r[j] \in T
    /\ \A i \in 1 .. n : s[i] \in T => \E j \in 1 .. Len(r) : r[j] = s[i]

LEMMA KeepsMore ==
    ASSUME NEW X, NEW s \in Seq(X), NEW T, NEW i \in 1 .. Len(s), NEW r \in Seq(X), Keeps(r, s, T, i - 1)
    PROVE  /\ s[i] \in T => Keeps(Append(r, s[i]), s, T, i)
           /\ s[i] \notin T => Keeps(r, s, T, i)
<1>1. i \in Nat /\ s[i] \in X /\ Len(r) \in Nat /\ Len(r) <= i - 1
  BY DEF Keeps
<1>2. CASE s[i] \in T
  <2>. DEFINE t == Append(r, s[i])
  <2>1. Len(t) = Len(r) + 1 /\ t[Len(r) + 1] = s[i] /\ \A j \in 1 .. Len(r) : t[j] = r[j]
    BY <1>1, AppendProperties
  <2>. HIDE DEF t
  <2>2. ASSUME NEW j \in 1 .. Len(t) PROVE \E k \in 1 .. i : j <= k /\ t[j] = s[k] /\ t[j] \in T
    <3>1. CASE j \in 1 .. Len(r)
      <4>1. PICK k \in 1 .. i - 1 : j <= k /\ r[j] = s[k] /\ r[j] \in T
        BY <3>1 DEF Keeps
      <4>. QED BY <1>1, <2>1, <3>1, <4>1
    <3>2. CASE j = Len(r) + 1
      BY <1>1, <1>2, <2>1, <3>2
    <3>. QED BY <1>1, <2>1, <3>1, <3>2
  <2>3. ASSUME NEW k \in 1 .. i, s[k] \in T PROVE \E j \in 1 .. Len(t) : t[j] = s[k]
    <3>1. CASE k = i
      BY <1>1, <2>1, <3>1
    <3>2. CASE k # i
      <4>1. k \in 1 .. i - 1
        BY <1>1, <3>2
      <4>2. PICK j \in 1 .. Len(r) : r[j] = s[k]
        BY <2>3, <4>1 DEF Keeps
      <4>. QED BY <1>1, <2>1, <4>2
    <3>. QED BY <3>1, <3>2
  <2>4. Len(t) <= i
    BY <1>1, <2>1
  <2>5. Keeps(t, s, T, i)
    BY <2>2, <2>3, <2>4 DEF Keeps
  <2>. QED BY <1>2, <2>5 DEF t
<1>3. CASE s[i] \notin T
  <2>1. ASSUME NEW k \in 1 .. i, s[k] \in T PROVE k \in 1 .. i - 1
    BY <1>1, <1>3, <2>1
  <2>2. ASSUME NEW k \in 1 .. i - 1 PROVE k \in 1 .. i
    BY <1>1
  <2>3. Len(r) <= i
    BY <1>1
  <2>. QED BY <1>3, <2>1, <2>2, <2>3 DEF Keeps
<1>. QED BY <1>2, <1>3

LEMMA FilteredKeeps ==
    ASSUME NEW X, NEW s \in Seq(X), NEW T
    PROVE  Filtered(s, T) \in Seq(X) /\ Keeps(Filtered(s, T), s, T, Len(s))
<1>. DEFINE D == Seq(X)
            More(r, i) == IF s[i] \in T THEN Append(r, s[i]) ELSE r
            Eq(g) == g = [i \in 0 .. Len(s) |->
                             IF i = 0 THEN <<>>
                             ELSE IF s[i] \in T THEN Append(g[i - 1], s[i]) ELSE g[i - 1]]
            F == [i \in 1 .. Len(s) |-> [r \in D |-> More(r, i)]]
            n == Len(s)
<1>0. n \in Nat /\ <<>> \in D /\ \A i \in 1 .. n : s[i] \in X
  BY EmptySeq
<1>1. ASSUME NEW r \in D, NEW i \in 1 .. n PROVE More(r, i) \in D
  BY <1>0, AppendProperties
<1>2. F \in [1 .. n -> [D -> D]]
  <2>. HIDE DEF More, D
  <2>. QED BY <1>1
<1>3. PICK g \in [0 .. n -> D] : Follows(g, <<>>, n, F)
  <2>. HIDE DEF F, D, n
  <2>. QED BY <1>0, <1>2, RecursionExists
<1>4. g[0] = <<>> /\ \A i \in 1 .. n : g[i] = F[i][g[i - 1]]
  BY <1>3 DEF Follows
<1>5. ASSUME NEW i \in 1 .. n PROVE g[i] = More(g[i - 1], i)
  <2>1. i - 1 \in 0 .. n /\ g[i - 1] \in D /\ g[i] = F[i][g[i - 1]]
    <3>. HIDE DEF F, D, n
    <3>. QED BY <1>0, <1>4
  <2>2. F[i][g[i - 1]] = More(g[i - 1], i)
    <3>. HIDE DEF D
    <3>. QED BY <2>1
  <2>. QED BY <2>1, <2>2
<1>6. Eq(g)
  <2>1. DOMAIN g = 0 .. n /\ g = [i \in 0 .. n |-> g[i]]
    <3>. HIDE DEF D, n
    <3>. QED BY <1>3
  <2>. HIDE DEF n, D
  <2>2. ASSUME NEW i \in 0 .. n
        PROVE  g[i] = IF i = 0 THEN <<>> ELSE IF s[i] \in T THEN Append(g[i - 1], s[i]) ELSE g[i - 1]
    <3>1. CASE i = 0
      BY <1>4, <3>1
    <3>2. CASE i # 0
      <4>1. i \in 1 .. n
        BY <1>0, <3>2
      <4>. QED BY <1>5, <3>2, <4>1
    <3>. QED BY <3>1, <3>2
  <2>. QED BY <2>1, <2>2 DEF n
<1>. DEFINE G == CHOOSE h : Eq(h)
<1>7. Filtered(s, T) = G[n]
  BY DEF Filtered
<1>8. Eq(G)
  <2>. HIDE DEF Eq
  <2>. QED BY <1>6, Zenon
<1>9. ASSUME NEW h, Eq(h) PROVE h[n] \in D /\ Keeps(h[n], s, T, n)
  <2>1. h[0] = <<>> /\ \A i \in 1 .. n : h[i] = More(h[i - 1], i)
    <3>1. \A i \in 0 .. n : h[i] = IF i = 0 THEN <<>> ELSE IF s[i] \in T THEN Append(h[i - 1], s[i]) ELSE h[i - 1]
      BY <1>9
    <3>. HIDE DEF Eq, n, D
    <3>. QED BY <1>0, <3>1
  <2>. DEFINE S == {i \in 0 .. n : h[i] \in D /\ Keeps(h[i], s, T, i)}
  <2>. HIDE DEF Eq
  <2>2. 0 \in S
    <3>1. Keeps(<<>>, s, T, 0)
      BY DEF Keeps
    <3>2. h[0] = <<>> /\ h[0] \in D /\ 0 \in 0 .. n
      BY <1>0, <2>1
    <3>3. Keeps(h[0], s, T, 0)
      BY <3>1, <3>2
    <3>. QED BY <3>2, <3>3
  <2>3. ASSUME NEW i \in 1 .. n, i - 1 \in S PROVE i \in S
    <3>1. h[i - 1] \in D /\ Keeps(h[i - 1], s, T, i - 1) /\ h[i] = More(h[i - 1], i)
      BY <2>1, <2>3
    <3>2. h[i] \in D
      <4>. HIDE DEF More, D, n
      <4>. QED BY <1>1, <3>1
    <3>3. Keeps(h[i], s, T, i)
      BY <3>1, KeepsMore
    <3>. QED BY <1>0, <3>2, <3>3
  <2>4. 0 .. n \subseteq S
    <3>. HIDE DEF S, n
    <3>. QED BY <1>0, <2>2, <2>3, SetInduction
  <2>. QED BY <1>0, <2>4
<1>. QED
  <2>. HIDE DEF Eq, D
  <2>1. G[n] \in D /\ Keeps(G[n], s, T, n)
    <3>. HIDE DEF G, n
    <3>. QED BY <1>8, <1>9
  <2>. QED BY <1>7, <2>1 DEF D

----------------------------------------------------------------------------
(* The build.                                                               *)

(* A record that follows another in byte order has bytes beyond what the    *)
(* two have in common.                                                      *)
LEMMA CommonPrefix ==
    ASSUME NEW a \in Seq(Byte), NEW b \in Seq(Byte), LexLess(a, b)
    PROVE  /\ CommonPrefixLen(a, b) \in 0 .. Len(a)
           /\ CommonPrefixLen(a, b) < Len(b)
           /\ SubSeq(a, 1, CommonPrefixLen(a, b)) = SubSeq(b, 1, CommonPrefixLen(a, b))
<1>. DEFINE P(n) == /\ n <= Len(b) /\ SubSeq(a, 1, n) = SubSeq(b, 1, n)
                    /\ n = Len(a) \/ n = Len(b) \/ a[n + 1] # b[n + 1]
            m == CommonPrefixLen(a, b)
<1>0. /\ Len(a) \in Nat /\ Len(b) \in Nat
      /\ \A i \in 1 .. Len(a) : a[i] \in Byte
      /\ \A i \in 1 .. Len(b) : b[i] \in Byte
  OBVIOUS
<1>1. CASE \E n \in 0 .. Len(a) : n < Len(b) /\ n = Len(a) /\ SubSeq(b, 1, n) = a
  <2>1. Len(a) < Len(b) /\ SubSeq(b, 1, Len(a)) = a
    BY <1>1
  <2>2. SubSeq(a, 1, Len(a)) = a
    BY SubSeqFull
  <2>3. P(Len(a)) /\ Len(a) \in 0 .. Len(a)
    BY <1>0, <2>1, <2>2
  <2>4. m \in 0 .. Len(a) /\ P(m)
    <3>1. m = CHOOSE n \in 0 .. Len(a) : P(n)
      BY DEF CommonPrefixLen
    <3>. HIDE DEF P, m
    <3>. QED BY <2>3, <3>1
  <2>. QED BY <1>0, <2>1, <2>4
<1>2. CASE \E n \in 1 .. Len(a) : /\ n <= Len(b) /\ a[n] < b[n]
                                  /\ SubSeq(a, 1, n - 1) = SubSeq(b, 1, n - 1)
  <2>1. PICK n \in 1 .. Len(a) : /\ n <= Len(b) /\ a[n] < b[n]
                                 /\ SubSeq(a, 1, n - 1) = SubSeq(b, 1, n - 1)
    BY <1>2
  <2>2. a[n] \in Nat /\ b[n] \in Nat /\ a[n] # b[n]
    <3>1. a[n] \in Byte /\ b[n] \in Byte
      BY <1>0, <2>1
    <3>2. a[n] \in Nat /\ b[n] \in Nat
      BY <3>1, EngineAssumption
    <3>. QED BY <2>1, <3>2
  <2>3. n - 1 \in 0 .. Len(a) /\ n - 1 <= Len(b) /\ (n - 1) + 1 = n
    BY <1>0, <2>1
  <2>4. P(n - 1)
    BY <2>1, <2>2, <2>3
  <2>5. m \in 0 .. Len(a) /\ P(m)
    <3>1. m = CHOOSE k \in 0 .. Len(a) : P(k)
      BY DEF CommonPrefixLen
    <3>. HIDE DEF P, m
    <3>. QED BY <2>3, <2>4, <3>1
  <2>6. ASSUME m = Len(b) PROVE FALSE
    <3>1. n \in 1 .. m /\ SubSeq(a, 1, m) = SubSeq(b, 1, m) /\ m <= Len(a)
      BY <1>0, <2>1, <2>5, <2>6
    <3>2. SubSeq(a, 1, m)[n] = a[n]
      <4>. HIDE DEF m, P
      <4>. QED BY <1>0, <2>5, <3>1, SubSeqProperties
    <3>3. SubSeq(b, 1, m)[n] = b[n]
      <4>. HIDE DEF m, P
      <4>. QED BY <1>0, <2>5, <2>6, <3>1, SubSeqProperties
    <3>. QED BY <2>2, <3>1, <3>2, <3>3
  <2>. QED BY <1>0, <2>5, <2>6
<1>. QED BY <1>1, <1>2 DEF LexLess

(* Every node has the bytes of its path for a label L: an edge adds one to  *)
(* the label of an older node, and every node but the root has an edge.     *)
NodesOf(b) == 0 .. b.nodes - 1
EdgeOf(b) == [parent : NodesOf(b), key : Byte, child : NodesOf(b)]

Labelled(L, b) ==
    /\ b.nodes \in Nat \ {0}
    /\ L \in [NodesOf(b) -> Seq(Byte)] /\ Len(L[0]) = 0
    /\ b.edges \in Seq(EdgeOf(b))
    /\ \A i \in 1 .. Len(b.edges) :
          /\ b.edges[i].parent < b.edges[i].child
          /\ L[b.edges[i].child] = Append(L[b.edges[i].parent], b.edges[i].key)
    /\ \A n \in NodesOf(b) : n # 0 => \E i \in 1 .. Len(b.edges) : b.edges[i].child = n

(* The leaves are the records inserted so far, in the order of their nodes. *)
LeavesOK(L, b) ==
    /\ b.leaves \in Seq([node : NodesOf(b), ids : {Ids[s] : s \in UNION Vocabulary}])
    /\ \A i \in 1 .. Len(b.leaves) :
          /\ L[b.leaves[i].node] \in UNION Vocabulary
          /\ b.leaves[i].ids = Ids[L[b.leaves[i].node]]
    /\ \A i, j \in 1 .. Len(b.leaves) : i < j => b.leaves[i].node < b.leaves[j].node

(* path[i] is the node reached after i - 1 bytes of the last record.        *)
PathOK(L, b) ==
    /\ b.prev \in Seq(Byte)
    /\ b.path \in Seq(NodesOf(b)) /\ Len(b.path) = Len(b.prev) + 1
    /\ \A i \in 1 .. Len(b.path) : L[b.path[i]] = SubSeq(b.prev, 1, i - 1)

BuildOK(L, b) == Labelled(L, b) /\ LeavesOK(L, b) /\ PathOK(L, b)

(* The labels after a record is inserted.                                   *)
Relabelled(L, b, bytes) ==
    [n \in NodesOf(Inserted(b, bytes)) |->
        IF n < b.nodes THEN L[n] ELSE SubSeq(bytes, 1, CommonPrefixLen(b.prev, bytes) + (n - b.nodes) + 1)]

(* The numbers of an insertion: the path keeps the nodes of the common      *)
(* prefix and goes on with the new ones.                                    *)
InsertedAs(b, bytes, lcp, fresh, path) ==
    /\ lcp \in 0 .. Len(b.prev) /\ fresh \in Nat \ {0} /\ Len(bytes) = lcp + fresh
    /\ Inserted(b, bytes).nodes = b.nodes + fresh
    /\ Inserted(b, bytes).prev = bytes
    /\ path \in Seq(NodesOf(Inserted(b, bytes))) /\ Len(path) = Len(bytes) + 1
    /\ \A i \in 1 .. lcp + 1 : path[i] = b.path[i] /\ path[i] < b.nodes
    /\ \A i \in 1 .. fresh : path[lcp + i + 1] = b.nodes + i - 1
    /\ Inserted(b, bytes).edges = b.edges \o
          [i \in 1 .. fresh |-> [parent |-> path[lcp + i], key |-> bytes[lcp + i],
                                 child |-> path[lcp + i + 1]]]
    /\ Inserted(b, bytes).leaves = Append(b.leaves, [node |-> path[Len(path)], ids |-> Ids[bytes]])

LEMMA InsertedParts ==
    ASSUME NEW L, NEW b, BuildOK(L, b), NEW bytes \in Seq(Byte), LexLess(b.prev, bytes)
    PROVE  InsertedAs(b, bytes, CommonPrefixLen(b.prev, bytes), Len(bytes) - CommonPrefixLen(b.prev, bytes),
                      Inserted(b, bytes).path)
<1>. SUFFICES ASSUME NEW lcp, lcp = CommonPrefixLen(b.prev, bytes),
                     NEW fresh, fresh = Len(bytes) - lcp,
                     NEW path, path = Inserted(b, bytes).path
              PROVE  InsertedAs(b, bytes, lcp, fresh, path)
  OBVIOUS
<1>1. b.prev \in Seq(Byte) /\ b.path \in Seq(NodesOf(b)) /\ Len(b.path) = Len(b.prev) + 1 /\ b.nodes \in Nat \ {0}
  BY DEF BuildOK, PathOK, Labelled
<1>2. lcp \in 0 .. Len(b.prev) /\ lcp < Len(bytes)
  BY <1>1, CommonPrefix
<1>3. fresh \in Nat \ {0} /\ Len(bytes) = lcp + fresh
  <2>1. Len(bytes) \in Nat /\ Len(b.prev) \in Nat
    BY <1>1, LenProperties
  <2>. QED BY <1>2, <2>1
<1>16. lcp \in Nat /\ fresh \in Nat /\ fresh > 0 /\ b.nodes \in Nat /\ lcp + 1 <= Len(b.path) /\ Len(b.path) \in Nat
  <2>1. Len(b.prev) \in Nat
    BY <1>1, LenProperties
  <2>2. lcp \in Nat /\ lcp <= Len(b.prev)
    BY <1>2, <2>1
  <2>3. fresh \in Nat /\ fresh > 0
    BY <1>3
  <2>. QED BY <1>1, <2>1, <2>2, <2>3
<1>. DEFINE kept == SubSeq(b.path, 1, lcp + 1)
            new == [i \in 1 .. fresh |-> b.nodes + i - 1]
<1>4. path = kept \o new
  BY DEF Inserted
<1>5. Inserted(b, bytes).nodes = b.nodes + fresh /\ Inserted(b, bytes).prev = bytes
  BY DEF Inserted
<1>. DEFINE N == 0 .. (b.nodes + fresh) - 1
<1>6. NodesOf(Inserted(b, bytes)) = N
  BY <1>5 DEF NodesOf
<1>7. \A i \in 1 .. lcp + 1 : b.path[i] \in N /\ b.path[i] < b.nodes
  <2>1. ASSUME NEW i \in 1 .. lcp + 1 PROVE b.path[i] \in NodesOf(b)
    <3>1. i \in 1 .. Len(b.path)
      BY <1>16
    <3>. QED BY <1>1, <3>1
  <2>2. b.nodes \in Nat /\ fresh \in Nat
    BY <1>16
  <2>3. \A n \in NodesOf(b) : n \in N /\ n < b.nodes
    BY <2>2 DEF NodesOf
  <2>. HIDE DEF N
  <2>. QED BY <2>1, <2>3
<1>8. kept \in Seq(N) /\ Len(kept) = lcp + 1 /\ \A i \in 1 .. lcp + 1 : kept[i] = b.path[i]
  <2>1. lcp + 1 \in Int /\ 1 <= lcp + 1 /\ (lcp + 1) - 1 + 1 = lcp + 1
    BY <1>1, <1>2
  <2>2. /\ kept \in Seq(N) /\ Len(kept) = (lcp + 1) - 1 + 1
        /\ \A i \in 1 .. (lcp + 1) - 1 + 1 : kept[i] = b.path[1 + i - 1]
    <3>. HIDE DEF N
    <3>. QED BY <1>7, <2>1, SubSeqProperties
  <2>. QED BY <1>2, <2>1, <2>2
<1>9. new \in Seq(N) /\ Len(new) = fresh /\ \A i \in 1 .. fresh : new[i] = b.nodes + i - 1
  <2>1. new \in [1 .. fresh -> N]
    BY <1>1, <1>3
  <2>2. \A i \in 1 .. fresh : new[i] = b.nodes + i - 1
    OBVIOUS
  <2>. HIDE DEF new, N
  <2>. QED BY <1>3, <2>1, <2>2
<1>. HIDE DEF kept, new, N
<1>10. /\ path \in Seq(N) /\ Len(path) = lcp + 1 + fresh
       /\ \A i \in 1 .. lcp + 1 + fresh : path[i] = IF i <= lcp + 1 THEN kept[i] ELSE new[i - (lcp + 1)]
  <2>1. /\ kept \o new \in Seq(N) /\ Len(kept \o new) = Len(kept) + Len(new)
        /\ \A i \in 1 .. Len(kept) + Len(new) :
              (kept \o new)[i] = IF i <= Len(kept) THEN kept[i] ELSE new[i - Len(kept)]
    BY <1>8, <1>9, ConcatProperties
  <2>. QED BY <1>4, <1>8, <1>9, <1>16, <2>1
<1>11. ASSUME NEW i \in 1 .. lcp + 1 PROVE path[i] = b.path[i] /\ path[i] < b.nodes
  <2>1. i \in 1 .. lcp + 1 + fresh /\ i <= lcp + 1
    BY <1>16
  <2>. QED BY <1>7, <1>8, <1>10, <2>1
<1>12. ASSUME NEW i \in 1 .. fresh PROVE path[lcp + i + 1] = b.nodes + i - 1
  <2>1. lcp + i + 1 \in 1 .. lcp + 1 + fresh /\ ~ (lcp + i + 1 <= lcp + 1) /\ (lcp + i + 1) - (lcp + 1) = i
    BY <1>16
  <2>. QED BY <1>9, <1>10, <2>1
<1>13. Inserted(b, bytes).edges = b.edges \o
          [i \in 1 .. fresh |-> [parent |-> path[lcp + i], key |-> bytes[lcp + i], child |-> path[lcp + i + 1]]]
  BY DEF Inserted
<1>14. Inserted(b, bytes).leaves = Append(b.leaves, [node |-> path[Len(path)], ids |-> Ids[bytes]])
  BY DEF Inserted
<1>15. Len(path) = Len(bytes) + 1
  BY <1>2, <1>3, <1>10
<1>. QED BY <1>2, <1>3, <1>5, <1>6, <1>10, <1>11, <1>12, <1>13, <1>14, <1>15 DEF InsertedAs

(* Equal prefixes have equal prefixes, and a prefix grows by its next byte. *)
LEMMA PrefixType ==
    ASSUME NEW a \in Seq(Byte), NEW n \in 0 .. Len(a)
    PROVE  /\ SubSeq(a, 1, n) \in Seq(Byte) /\ Len(SubSeq(a, 1, n)) = n
           /\ \A i \in 1 .. n : SubSeq(a, 1, n)[i] = a[i]
<1>1. n \in Int /\ \A i \in 1 .. n : a[i] \in Byte
  OBVIOUS
<1>2. /\ SubSeq(a, 1, n) \in Seq(Byte) /\ Len(SubSeq(a, 1, n)) = IF 1 <= n THEN n - 1 + 1 ELSE 0
      /\ \A i \in 1 .. n - 1 + 1 : SubSeq(a, 1, n)[i] = a[1 + i - 1]
  BY <1>1, SubSeqProperties
<1>. QED BY <1>2

LEMMA PrefixOfPrefix ==
    ASSUME NEW a \in Seq(Byte), NEW b \in Seq(Byte), NEW n \in 0 .. Len(a), n <= Len(b),
           SubSeq(a, 1, n) = SubSeq(b, 1, n), NEW k \in 0 .. n
    PROVE  SubSeq(a, 1, k) = SubSeq(b, 1, k)
<1>1. Len(a) \in Nat /\ Len(b) \in Nat /\ n \in 0 .. Len(b) /\ k \in 0 .. Len(a) /\ k \in 0 .. Len(b)
  OBVIOUS
<1>2. \A i \in 1 .. n : a[i] = b[i]
  BY <1>1, PrefixType
<1>3. \A i \in 1 .. k : SubSeq(a, 1, k)[i] = SubSeq(b, 1, k)[i]
  <2>1. \A i \in 1 .. k : SubSeq(a, 1, k)[i] = a[i] /\ SubSeq(b, 1, k)[i] = b[i] /\ i \in 1 .. n
    BY <1>1, PrefixType
  <2>. QED BY <1>2, <2>1
<1>. QED BY <1>1, <1>3, PrefixType, SeqEqual

LEMMA PrefixGrows ==
    ASSUME NEW a \in Seq(Byte), NEW n \in 1 .. Len(a)
    PROVE  SubSeq(a, 1, n) = Append(SubSeq(a, 1, n - 1), a[n])
<1>. DEFINE u == SubSeq(a, 1, n)
            v == SubSeq(a, 1, n - 1)
            w == Append(v, a[n])
<1>1. n \in Nat /\ n \in 0 .. Len(a) /\ n - 1 \in 0 .. Len(a) /\ a[n] \in Byte
  OBVIOUS
<1>2. u \in Seq(Byte) /\ Len(u) = n /\ \A i \in 1 .. n : u[i] = a[i]
  BY <1>1, PrefixType
<1>3. v \in Seq(Byte) /\ Len(v) = n - 1 /\ \A i \in 1 .. n - 1 : v[i] = a[i]
  BY <1>1, PrefixType
<1>. HIDE DEF u, v
<1>4. w \in Seq(Byte) /\ Len(w) = Len(v) + 1 /\ w[Len(v) + 1] = a[n] /\ \A i \in 1 .. Len(v) : w[i] = v[i]
  BY <1>1, <1>3, AppendProperties
<1>. HIDE DEF w
<1>5. Len(w) = n /\ w[n] = a[n]
  BY <1>1, <1>3, <1>4
<1>6. ASSUME NEW i \in 1 .. n PROVE u[i] = w[i]
  <2>1. i = n \/ i \in 1 .. n - 1
    BY <1>1
  <2>. QED BY <1>2, <1>3, <1>4, <1>5, <2>1
<1>. QED BY <1>2, <1>4, <1>5, <1>6, SeqEqual DEF u, v, w

(* A record that is inserted in order keeps the labels right.               *)
LEMMA InsertedOK ==
    ASSUME NEW L, NEW b, BuildOK(L, b), NEW bytes \in UNION Vocabulary, LexLess(b.prev, bytes)
    PROVE  BuildOK(Relabelled(L, b, bytes), Inserted(b, bytes))
<1>. DEFINE lcp == CommonPrefixLen(b.prev, bytes)
            fresh == Len(bytes) - lcp
            c == Inserted(b, bytes)
            M == Relabelled(L, b, bytes)
            edge == [i \in 1 .. fresh |-> [parent |-> c.path[lcp + i], key |-> bytes[lcp + i],
                                            child |-> c.path[lcp + i + 1]]]
            leaf == [node |-> c.path[Len(c.path)], ids |-> Ids[bytes]]
<1>0. bytes \in Seq(Byte)
  BY VocabularyAssumption
<1>1. /\ lcp \in 0 .. Len(b.prev) /\ fresh \in Nat \ {0} /\ Len(bytes) = lcp + fresh
      /\ c.nodes = b.nodes + fresh
      /\ c.prev = bytes
      /\ c.path \in Seq(NodesOf(c)) /\ Len(c.path) = Len(bytes) + 1
      /\ \A i \in 1 .. lcp + 1 : c.path[i] = b.path[i] /\ c.path[i] < b.nodes
      /\ \A i \in 1 .. fresh : c.path[lcp + i + 1] = b.nodes + i - 1
      /\ c.edges = b.edges \o edge
      /\ c.leaves = Append(b.leaves, leaf)
  <2>1. InsertedAs(b, bytes, lcp, fresh, c.path) /\ c = Inserted(b, bytes)
    BY <1>0, InsertedParts
  <2>2. edge = [i \in 1 .. fresh |-> [parent |-> c.path[lcp + i], key |-> bytes[lcp + i],
                                      child |-> c.path[lcp + i + 1]]]
    OBVIOUS
  <2>3. leaf = [node |-> c.path[Len(c.path)], ids |-> Ids[bytes]]
    OBVIOUS
  <2>. HIDE DEF lcp, fresh, c, edge, leaf
  <2>. QED BY <2>1, <2>2, <2>3, Zenon DEF InsertedAs
<1>2. Labelled(L, b) /\ LeavesOK(L, b) /\ PathOK(L, b)
  BY DEF BuildOK
<1>3. /\ b.prev \in Seq(Byte) /\ b.path \in Seq(NodesOf(b)) /\ Len(b.path) = Len(b.prev) + 1
      /\ b.nodes \in Nat /\ b.nodes > 0 /\ Len(b.prev) \in Nat
      /\ L \in [NodesOf(b) -> Seq(Byte)] /\ Len(L[0]) = 0
      /\ b.edges \in Seq(EdgeOf(b)) /\ Len(b.edges) \in Nat
  BY <1>2, LenProperties DEF Labelled, PathOK
<1>4. SubSeq(b.prev, 1, lcp) = SubSeq(bytes, 1, lcp)
  BY <1>0, <1>3, CommonPrefix
<1>. HIDE DEF lcp, fresh, c, M, edge, leaf
<1>5. /\ lcp \in Nat /\ fresh \in Nat /\ fresh > 0 /\ Len(bytes) \in Nat /\ lcp <= Len(b.prev)
      /\ lcp + 1 <= Len(b.path)
  <2>1. Len(bytes) \in Nat /\ lcp \in 0 .. Len(b.prev) /\ Len(b.prev) \in Nat /\ fresh \in Nat \ {0}
        /\ Len(b.path) = Len(b.prev) + 1
    BY <1>0, <1>1, <1>3, LenProperties
  <2>. QED BY <2>1
<1>22. b.nodes \in Nat /\ b.nodes > 0
  BY <1>3
<1>23. Len(bytes) = lcp + fresh /\ Len(c.path) = lcp + fresh + 1
  <2>1. Len(bytes) = lcp + fresh /\ Len(c.path) = Len(bytes) + 1
    BY <1>1
  <2>. QED BY <1>5, <2>1
<1>24. Len(b.edges) \in Nat /\ lcp \in Nat /\ fresh \in Nat
  BY <1>3, <1>5
<1>6. NodesOf(c) = 0 .. (b.nodes + fresh) - 1 /\ NodesOf(b) = 0 .. b.nodes - 1
  BY <1>1 DEF NodesOf
<1>7. NodesOf(b) \subseteq NodesOf(c) /\ \A n \in NodesOf(b) : n < b.nodes
  BY <1>3, <1>5, <1>6
<1>8. M = [n \in NodesOf(c) |-> IF n < b.nodes THEN L[n] ELSE SubSeq(bytes, 1, lcp + (n - b.nodes) + 1)]
  BY DEF M, Relabelled, c, lcp
<1>9. \A n \in NodesOf(b) : M[n] = L[n]
  BY <1>7, <1>8
<1>10. ASSUME NEW i \in 1 .. fresh
       PROVE  b.nodes + i - 1 \in NodesOf(c) /\ M[b.nodes + i - 1] = SubSeq(bytes, 1, lcp + i)
  <2>1. b.nodes + i - 1 \in NodesOf(c) /\ ~ (b.nodes + i - 1 < b.nodes)
    BY <1>6, <1>22, <1>24
  <2>2. lcp + ((b.nodes + i - 1) - b.nodes) + 1 = lcp + i
    BY <1>22, <1>24
  <2>. QED BY <1>8, <2>1, <2>2
<1>11. M \in [NodesOf(c) -> Seq(Byte)] /\ Len(M[0]) = 0
  <2>1. ASSUME NEW n \in NodesOf(c) PROVE M[n] \in Seq(Byte)
    <3>1. CASE n \in NodesOf(b)
      BY <1>3, <1>9, <3>1
    <3>2. CASE n \notin NodesOf(b)
      <4>1. n = b.nodes + ((n - b.nodes) + 1) - 1 /\ (n - b.nodes) + 1 \in 1 .. fresh
        <5>1. n \in 0 .. (b.nodes + fresh) - 1 /\ n \notin 0 .. b.nodes - 1
          BY <1>6, <3>2
        <5>. QED BY <1>22, <1>24, <5>1
      <4>2. M[n] = SubSeq(bytes, 1, lcp + ((n - b.nodes) + 1))
        BY <1>10, <4>1
      <4>3. lcp + ((n - b.nodes) + 1) \in 0 .. Len(bytes)
        BY <1>23, <1>24, <4>1
      <4>. QED BY <1>0, <4>2, <4>3, PrefixType
    <3>. QED BY <3>1, <3>2
  <2>2. 0 \in NodesOf(b)
    BY <1>3, <1>6
  <2>. QED BY <1>3, <1>8, <1>9, <2>1, <2>2
<1>12. ASSUME NEW i \in 1 .. Len(c.path) PROVE M[c.path[i]] = SubSeq(bytes, 1, i - 1)
  <2>1. CASE i \in 1 .. lcp + 1
    <3>1. c.path[i] = b.path[i] /\ i \in 1 .. Len(b.path) /\ i - 1 \in 0 .. lcp
      <4>1. i \in 1 .. Len(b.path) /\ i - 1 \in 0 .. lcp
        <5>1. Len(b.path) \in Nat /\ lcp \in Nat /\ lcp + 1 <= Len(b.path)
          BY <1>3, <1>5, LenProperties
        <5>. QED BY <2>1, <5>1
      <4>. QED BY <1>1, <2>1, <4>1
    <3>2. b.path[i] \in NodesOf(b) /\ L[b.path[i]] = SubSeq(b.prev, 1, i - 1)
      <4>1. b.path \in Seq(NodesOf(b)) /\ i \in 1 .. Len(b.path)
        BY <1>3, <3>1
      <4>2. b.path[i] \in NodesOf(b)
        BY <4>1, ElementOfSeq
      <4>. QED BY <1>2, <4>1, <4>2 DEF PathOK
    <3>3. SubSeq(b.prev, 1, i - 1) = SubSeq(bytes, 1, i - 1)
      <4>1. lcp \in 0 .. Len(b.prev) /\ lcp <= Len(bytes)
        BY <1>1, <1>5
      <4>. QED BY <1>0, <1>3, <1>4, <3>1, <4>1, PrefixOfPrefix
    <3>. QED BY <1>9, <3>1, <3>2, <3>3
  <2>2. CASE i \notin 1 .. lcp + 1
    <3>1. i - lcp - 1 \in 1 .. fresh /\ i = lcp + (i - lcp - 1) + 1 /\ lcp + (i - lcp - 1) = i - 1
      BY <1>23, <1>24, <2>2
    <3>2. c.path[i] = b.nodes + (i - lcp - 1) - 1
      BY <1>1, <3>1
    <3>. QED BY <1>10, <3>1, <3>2
  <2>. QED BY <2>1, <2>2
<1>13. PathOK(M, c)
  BY <1>0, <1>1, <1>12 DEF PathOK
<1>14. ASSUME NEW i \in 1 .. fresh
       PROVE  /\ edge[i] \in EdgeOf(c)
              /\ edge[i].child = b.nodes + i - 1
              /\ edge[i].parent < edge[i].child
              /\ M[edge[i].child] = Append(M[edge[i].parent], edge[i].key)
  <2>0. edge[i] = [parent |-> c.path[lcp + i], key |-> bytes[lcp + i], child |-> c.path[lcp + i + 1]]
    BY DEF edge
  <2>1. /\ lcp + i \in 1 .. Len(c.path) /\ lcp + i + 1 \in 1 .. Len(c.path) /\ lcp + i \in 1 .. Len(bytes)
        /\ (lcp + i + 1) - 1 = lcp + i
    BY <1>23, <1>24
  <2>2. c.path[lcp + i] \in NodesOf(c) /\ c.path[lcp + i + 1] \in NodesOf(c) /\ bytes[lcp + i] \in Byte
    BY <1>0, <1>1, <2>1
  <2>3. c.path[lcp + i + 1] = b.nodes + i - 1
    BY <1>1
  <2>4. c.path[lcp + i] < c.path[lcp + i + 1]
    <3>1. CASE i = 1
      BY <1>1, <1>3, <1>5, <2>2, <2>3, <3>1, <1>6
    <3>2. CASE i # 1
      <4>1. i - 1 \in 1 .. fresh /\ lcp + (i - 1) + 1 = lcp + i
        BY <1>24, <3>2
      <4>2. c.path[lcp + i] = b.nodes + (i - 1) - 1
        BY <1>1, <4>1
      <4>. QED BY <1>3, <2>3, <4>2
    <3>. QED BY <3>1, <3>2
  <2>5. M[c.path[lcp + i + 1]] = Append(M[c.path[lcp + i]], bytes[lcp + i])
    <3>1. M[c.path[lcp + i + 1]] = SubSeq(bytes, 1, lcp + i) /\ M[c.path[lcp + i]] = SubSeq(bytes, 1, (lcp + i) - 1)
      BY <1>12, <2>1
    <3>. QED BY <1>0, <2>1, <3>1, PrefixGrows
  <2>. QED BY <2>0, <2>2, <2>3, <2>4, <2>5 DEF EdgeOf
<1>15. /\ c.edges \in Seq(EdgeOf(c)) /\ Len(c.edges) = Len(b.edges) + fresh
       /\ \A i \in 1 .. Len(b.edges) : c.edges[i] = b.edges[i]
       /\ \A i \in 1 .. fresh : c.edges[Len(b.edges) + i] = edge[i]
  <2>1. edge \in Seq(EdgeOf(c)) /\ Len(edge) = fresh
    <3>1. DOMAIN edge = 1 .. fresh /\ edge = [i \in 1 .. fresh |-> edge[i]]
      BY DEF edge
    <3>2. edge \in [1 .. fresh -> EdgeOf(c)]
      BY <1>14, <3>1
    <3>. QED BY <1>5, <3>2
  <2>2. b.edges \in Seq(EdgeOf(c))
    <3>1. EdgeOf(b) \subseteq EdgeOf(c)
      BY <1>7 DEF EdgeOf
    <3>. QED BY <1>3, <3>1, SeqMonotonic
  <2>3. /\ b.edges \o edge \in Seq(EdgeOf(c)) /\ Len(b.edges \o edge) = Len(b.edges) + Len(edge)
        /\ \A i \in 1 .. Len(b.edges) + Len(edge) :
              (b.edges \o edge)[i] = IF i <= Len(b.edges) THEN b.edges[i] ELSE edge[i - Len(b.edges)]
    BY <2>1, <2>2, ConcatProperties
  <2>4. ASSUME NEW i \in 1 .. Len(b.edges) PROVE i \in 1 .. Len(b.edges) + Len(edge) /\ i <= Len(b.edges)
    BY <1>24, <2>1
  <2>5. ASSUME NEW i \in 1 .. fresh
        PROVE  /\ Len(b.edges) + i \in 1 .. Len(b.edges) + Len(edge)
               /\ ~ (Len(b.edges) + i <= Len(b.edges)) /\ (Len(b.edges) + i) - Len(b.edges) = i
    <3>1. Len(b.edges) \in Nat /\ fresh \in Nat /\ Len(edge) = fresh
      BY <1>24, <2>1
    <3>. QED BY <3>1
  <2>. QED BY <1>1, <2>1, <2>3, <2>4, <2>5
<1>16. ASSUME NEW i \in 1 .. Len(c.edges)
       PROVE  \/ i \in 1 .. Len(b.edges)
              \/ \E j \in 1 .. fresh : i = Len(b.edges) + j
  <2>1. i \in 1 .. Len(b.edges) \/ (i - Len(b.edges) \in 1 .. fresh /\ i = Len(b.edges) + (i - Len(b.edges)))
    <3>1. Len(b.edges) \in Nat /\ fresh \in Nat /\ Len(c.edges) = Len(b.edges) + fresh
      BY <1>15, <1>24
    <3>. QED BY <3>1
  <2>. QED BY <2>1
<1>17. ASSUME NEW i \in 1 .. Len(c.edges)
       PROVE  /\ c.edges[i].parent < c.edges[i].child
              /\ M[c.edges[i].child] = Append(M[c.edges[i].parent], c.edges[i].key)
  <2>1. CASE i \in 1 .. Len(b.edges)
    <3>1. b.edges[i] \in EdgeOf(b) /\ c.edges[i] = b.edges[i]
      BY <1>3, <1>15, <2>1
    <3>2. b.edges[i].parent \in NodesOf(b) /\ b.edges[i].child \in NodesOf(b)
      BY <3>1 DEF EdgeOf
    <3>3. /\ b.edges[i].parent < b.edges[i].child
          /\ L[b.edges[i].child] = Append(L[b.edges[i].parent], b.edges[i].key)
      BY <1>2, <2>1 DEF Labelled
    <3>. QED BY <1>9, <3>1, <3>2, <3>3
  <2>2. CASE \E j \in 1 .. fresh : i = Len(b.edges) + j
    <3>1. PICK j \in 1 .. fresh : i = Len(b.edges) + j
      BY <2>2
    <3>2. c.edges[i] = edge[j]
      BY <1>15, <3>1
    <3>. QED BY <1>14, <3>2
  <2>. QED BY <1>16, <2>1, <2>2
<1>18. ASSUME NEW n \in NodesOf(c), n # 0 PROVE \E i \in 1 .. Len(c.edges) : c.edges[i].child = n
  <2>1. CASE n \in NodesOf(b)
    <3>1. PICK i \in 1 .. Len(b.edges) : b.edges[i].child = n
      BY <1>2, <1>18, <2>1 DEF Labelled
    <3>2. i \in 1 .. Len(c.edges)
      <4>1. Len(b.edges) \in Nat /\ fresh \in Nat /\ Len(c.edges) = Len(b.edges) + fresh
        BY <1>15, <1>24
      <4>. QED BY <4>1
    <3>. QED BY <1>15, <3>1, <3>2
  <2>2. CASE n \notin NodesOf(b)
    <3>. DEFINE j == (n - b.nodes) + 1
    <3>1. j \in 1 .. fresh /\ b.nodes + j - 1 = n
      <4>1. n \in 0 .. (b.nodes + fresh) - 1 /\ n \notin 0 .. b.nodes - 1
        BY <1>6, <2>2
      <4>. QED BY <1>22, <1>24, <4>1
    <3>. HIDE DEF j
    <3>2. Len(b.edges) + j \in 1 .. Len(c.edges)
      <4>1. Len(b.edges) \in Nat /\ fresh \in Nat /\ Len(c.edges) = Len(b.edges) + fresh
        BY <1>15, <1>24
      <4>. QED BY <3>1, <4>1
    <3>. QED BY <1>14, <1>15, <3>1, <3>2
  <2>. QED BY <2>1, <2>2
<1>19. Labelled(M, c)
  <2>1. c.nodes \in Nat \ {0}
    <3>1. c.nodes = b.nodes + fresh
      BY <1>1
    <3>. QED BY <1>5, <1>22, <3>1
  <2>. QED BY <1>11, <1>15, <1>17, <1>18, <2>1 DEF Labelled
<1>20. leaf.node = b.nodes + fresh - 1 /\ leaf.node \in NodesOf(c) /\ M[leaf.node] = bytes /\ leaf.ids = Ids[bytes]
  <2>1. fresh \in 1 .. fresh /\ Len(c.path) = lcp + fresh + 1
    BY <1>1, <1>5
  <2>2. leaf.node = b.nodes + fresh - 1 /\ leaf.ids = Ids[bytes]
    BY <1>1, <2>1 DEF leaf
  <2>3. M[leaf.node] = SubSeq(bytes, 1, lcp + fresh)
    BY <1>10, <2>1, <2>2
  <2>4. SubSeq(bytes, 1, Len(bytes)) = bytes
    BY <1>0, SubSeqFull
  <2>. QED BY <1>1, <1>10, <2>1, <2>2, <2>3, <2>4
<1>21. LeavesOK(M, c)
  <2>. DEFINE R(d) == [node : NodesOf(d), ids : {Ids[s] : s \in UNION Vocabulary}]
  <2>1. leaf \in R(c)
    BY <1>20 DEF leaf
  <2>2. b.leaves \in Seq(R(b)) /\ b.leaves \in Seq(R(c)) /\ Len(b.leaves) \in Nat
    <3>1. b.leaves \in Seq(R(b)) /\ R(b) \subseteq R(c)
      BY <1>2, <1>7 DEF LeavesOK
    <3>. QED BY <3>1, SeqMonotonic, LenProperties
  <2>3. /\ c.leaves \in Seq(R(c)) /\ Len(c.leaves) = Len(b.leaves) + 1
        /\ \A i \in 1 .. Len(b.leaves) : c.leaves[i] = b.leaves[i]
        /\ c.leaves[Len(b.leaves) + 1] = leaf
    <3>. HIDE DEF R
    <3>. QED BY <1>1, <2>1, <2>2, AppendProperties
  <2>4. ASSUME NEW i \in 1 .. Len(c.leaves)
        PROVE  i \in 1 .. Len(b.leaves) \/ i = Len(b.leaves) + 1
    BY <2>2, <2>3
  <2>5. ASSUME NEW i \in 1 .. Len(b.leaves)
        PROVE  b.leaves[i].node \in NodesOf(b)
    <3>1. b.leaves[i] \in R(b)
      <4>. HIDE DEF R
      <4>. QED BY <2>2, ElementOfSeq
    <3>. QED BY <3>1
  <2>. HIDE DEF R
  <2>6. ASSUME NEW i \in 1 .. Len(c.leaves)
        PROVE  M[c.leaves[i].node] \in UNION Vocabulary /\ c.leaves[i].ids = Ids[M[c.leaves[i].node]]
    <3>1. CASE i \in 1 .. Len(b.leaves)
      BY <1>2, <1>9, <2>3, <2>5, <3>1 DEF LeavesOK
    <3>2. CASE i = Len(b.leaves) + 1
      BY <1>20, <2>3, <3>2
    <3>. QED BY <2>4, <3>1, <3>2
  <2>7. ASSUME NEW i \in 1 .. Len(c.leaves), NEW j \in 1 .. Len(c.leaves), i < j
        PROVE  c.leaves[i].node < c.leaves[j].node
    <3>0. i \in 1 .. Len(b.leaves)
      BY <2>2, <2>3, <2>7
    <3>1. CASE j \in 1 .. Len(b.leaves)
      BY <1>2, <2>3, <2>7, <3>0, <3>1 DEF LeavesOK
    <3>2. CASE j = Len(b.leaves) + 1
      <4>1. b.leaves[i].node < b.nodes /\ b.leaves[i].node \in Int
        BY <1>6, <1>7, <2>5, <3>0
      <4>2. c.leaves[i].node = b.leaves[i].node /\ c.leaves[j].node = b.nodes + fresh - 1
        BY <1>20, <2>3, <3>0, <3>2
      <4>. QED BY <1>5, <1>22, <4>1, <4>2
    <3>. QED BY <2>4, <3>1, <3>2
  <2>. QED BY <2>3, <2>6, <2>7 DEF LeavesOK, R
<1>. QED BY <1>13, <1>19, <1>21 DEF BuildOK, M, c

----------------------------------------------------------------------------
(* The flat trie.                                                           *)

LeafCount == Len(build.leaves)
LeafNode(i) == build.leaves[i].node

(* The scan has placed the leaves of the nodes it has passed.               *)
Placed(g, n) == g[n] \in 0 .. LeafCount /\ \A i \in 1 .. LeafCount : i <= g[n] <=> LeafNode(i) < n

(* What the next node adds.                                                 *)
NextPlaced(li, n) == IF li < LeafCount /\ build.leaves[li + 1].node = n - 1 THEN li + 1 ELSE li

LEMMA PlacedNext ==
    ASSUME NEW L, BuildOK(L, build), NEW n \in 1 .. build.nodes, NEW g, Placed(g, n - 1),
           g[n] = NextPlaced(g[n - 1], n)
    PROVE  Placed(g, n)
<1>. DEFINE li == g[n - 1]
<1>1. /\ LeafCount \in Nat /\ n \in Nat /\ li \in 0 .. LeafCount
      /\ \A i \in 1 .. LeafCount : LeafNode(i) \in Nat
      /\ \A i, j \in 1 .. LeafCount : i < j => LeafNode(i) < LeafNode(j)
      /\ \A i \in 1 .. LeafCount : i <= li <=> LeafNode(i) < n - 1
  <2>1. build.nodes \in Nat /\ LeavesOK(L, build)
    BY DEF BuildOK, Labelled
  <2>2. LeafCount \in Nat /\ \A i \in 1 .. LeafCount : build.leaves[i].node \in NodesOf(build)
    <3>. DEFINE R == [node : NodesOf(build), ids : {Ids[s] : s \in UNION Vocabulary}]
    <3>1. build.leaves \in Seq(R)
      BY <2>1 DEF LeavesOK
    <3>2. LeafCount \in Nat /\ \A i \in 1 .. LeafCount : build.leaves[i] \in R
      <4>. HIDE DEF R
      <4>. QED BY <3>1 DEF LeafCount
    <3>. QED BY <3>2
  <2>3. \A i \in 1 .. LeafCount : LeafNode(i) \in Nat
    BY <2>1, <2>2 DEF NodesOf, LeafNode
  <2>4. \A i, j \in 1 .. LeafCount : i < j => LeafNode(i) < LeafNode(j)
    BY <2>1 DEF LeavesOK, LeafNode, LeafCount
  <2>. QED BY <2>1, <2>2, <2>3, <2>4 DEF Placed
<1>. HIDE DEF li
<1>2. CASE li < LeafCount /\ LeafNode(li + 1) = n - 1
  <2>1. g[n] = li + 1 /\ li + 1 \in 1 .. LeafCount
    BY <1>1, <1>2 DEF NextPlaced, LeafNode, li
  <2>2. ASSUME NEW i \in 1 .. LeafCount PROVE i <= li + 1 <=> LeafNode(i) < n
    <3>1. LeafNode(i) \in Nat /\ LeafNode(li + 1) \in Nat
      BY <1>1, <2>1
    <3>2. i <= li <=> LeafNode(i) < n - 1
      BY <1>1
    <3>3. i > li + 1 => LeafNode(i) > LeafNode(li + 1)
      BY <1>1, <2>1
    <3>. QED BY <1>1, <1>2, <3>1, <3>2, <3>3
  <2>. QED BY <1>1, <2>1, <2>2 DEF Placed
<1>3. CASE ~ (li < LeafCount /\ LeafNode(li + 1) = n - 1)
  <2>1. g[n] = li
    BY <1>3 DEF NextPlaced, LeafNode, li
  <2>2. ASSUME NEW i \in 1 .. LeafCount PROVE i <= li <=> LeafNode(i) < n
    <3>1. LeafNode(i) \in Nat
      BY <1>1
    <3>2. i <= li <=> LeafNode(i) < n - 1
      BY <1>1
    <3>3. ASSUME i > li PROVE LeafNode(i) # n - 1
      <4>1. li + 1 \in 1 .. LeafCount /\ li < LeafCount /\ LeafNode(li + 1) # n - 1
        BY <1>1, <1>3, <3>3
      <4>2. LeafNode(li + 1) \in Nat /\ ~ (LeafNode(li + 1) < n - 1)
        BY <1>1, <4>1
      <4>3. i # li + 1 => LeafNode(i) > LeafNode(li + 1)
        <5>1. i # li + 1 => li + 1 < i
          BY <1>1, <3>3
        <5>. QED BY <1>1, <3>1, <4>1, <4>2, <5>1
      <4>. QED BY <1>1, <3>1, <4>1, <4>2, <4>3
    <3>. QED BY <1>1, <3>1, <3>2, <3>3
  <2>. QED BY <1>1, <2>1, <2>2 DEF Placed
<1>. QED BY <1>2, <1>3

(* LeavesPlaced is the scan: the leaves below a node have been placed when  *)
(* it reaches the node.                                                     *)
LEMMA PlacedAll ==
    ASSUME NEW L, BuildOK(L, build)
    PROVE  \A n \in 0 .. build.nodes : Placed(LeavesPlaced, n)
<1>. DEFINE D == 0 .. LeafCount
            N == build.nodes
            Eq(g) == g = [n \in 0 .. N |-> IF n = 0 THEN 0 ELSE NextPlaced(g[n - 1], n)]
            F == [n \in 1 .. N |-> [li \in D |-> NextPlaced(li, n)]]
<1>0. N \in Nat /\ LeafCount \in Nat /\ 0 \in D /\ \A i \in 1 .. LeafCount : LeafNode(i) \in Nat
  <2>1. LeavesOK(L, build) /\ Labelled(L, build)
    BY DEF BuildOK
  <2>. DEFINE R == [node : NodesOf(build), ids : {Ids[s] : s \in UNION Vocabulary}]
  <2>2. build.leaves \in Seq(R)
    BY <2>1 DEF LeavesOK
  <2>3. LeafCount \in Nat /\ \A i \in 1 .. LeafCount : build.leaves[i] \in R
    <3>. HIDE DEF R
    <3>. QED BY <2>2 DEF LeafCount
  <2>4. N \in Nat
    BY <2>1 DEF Labelled
  <2>. QED BY <2>3, <2>4 DEF NodesOf, LeafNode
<1>1. ASSUME NEW li \in D, NEW n \in 1 .. N PROVE NextPlaced(li, n) \in D
  BY <1>0 DEF NextPlaced
<1>2. F \in [1 .. N -> [D -> D]]
  <2>. HIDE DEF D, N
  <2>. QED BY <1>1
<1>3. PICK g \in [0 .. N -> D] : Follows(g, 0, N, F)
  <2>. HIDE DEF F, D, N
  <2>. QED BY <1>0, <1>2, RecursionExists
<1>4. g[0] = 0 /\ \A n \in 1 .. N : g[n] = F[n][g[n - 1]]
  BY <1>3 DEF Follows
<1>5. ASSUME NEW n \in 1 .. N PROVE g[n] = NextPlaced(g[n - 1], n)
  <2>1. n - 1 \in 0 .. N /\ g[n - 1] \in D /\ g[n] = F[n][g[n - 1]]
    <3>. HIDE DEF F, D, N
    <3>. QED BY <1>0, <1>4
  <2>. HIDE DEF D
  <2>. QED BY <2>1
<1>6. Eq(g)
  <2>. HIDE DEF D, N
  <2>1. ASSUME NEW n \in 0 .. N PROVE g[n] = IF n = 0 THEN 0 ELSE NextPlaced(g[n - 1], n)
    BY <1>0, <1>4, <1>5
  <2>. QED BY <1>3, <2>1
<1>7. LeavesPlaced = CHOOSE h : Eq(h)
  BY DEF LeavesPlaced, NextPlaced, LeafCount
<1>8. Eq(LeavesPlaced)
  <2>. HIDE DEF Eq
  <2>. QED BY <1>6, <1>7, Zenon
<1>9. ASSUME NEW h, Eq(h) PROVE \A n \in 0 .. N : Placed(h, n)
  <2>1. h[0] = 0 /\ \A n \in 1 .. N : h[n] = NextPlaced(h[n - 1], n)
    <3>1. \A n \in 0 .. N : h[n] = IF n = 0 THEN 0 ELSE NextPlaced(h[n - 1], n)
      BY <1>9
    <3>. HIDE DEF Eq, N
    <3>. QED BY <1>0, <3>1
  <2>. DEFINE S == {n \in 0 .. N : Placed(h, n)}
  <2>. HIDE DEF Eq
  <2>2. 0 \in S
    <3>1. ASSUME NEW i \in 1 .. LeafCount PROVE i <= 0 <=> LeafNode(i) < 0
      BY <1>0
    <3>. QED BY <1>0, <2>1, <3>1 DEF Placed
  <2>3. ASSUME NEW n \in 1 .. N, n - 1 \in S PROVE n \in S
    BY <1>0, <2>1, <2>3, PlacedNext
  <2>4. 0 .. N \subseteq S
    <3>. HIDE DEF S, N
    <3>. QED BY <1>0, <2>2, <2>3, SetInduction
  <2>. QED BY <2>4
<1>. QED
  <2>. HIDE DEF Eq
  <2>. QED BY <1>8, <1>9

(* The tokens that Flatten gives a node.                                    *)
TokensAt(n) == IF LeavesPlaced[n + 1] > LeavesPlaced[n] THEN build.leaves[LeavesPlaced[n + 1]].ids ELSE {}

(* The scan leaves no record out, and a node gets its own leaf.             *)
LEMMA ScanComplete ==
    ASSUME NEW L, BuildOK(L, build)
    PROVE  /\ LeavesPlaced[build.nodes] = Len(build.leaves)
           /\ \A i \in 1 .. LeafCount : TokensAt(LeafNode(i)) = build.leaves[i].ids
           /\ \A n \in Node : (\A i \in 1 .. LeafCount : LeafNode(i) # n) => TokensAt(n) = {}
<1>. DEFINE g == LeavesPlaced
<1>0. /\ build.nodes \in Nat \ {0} /\ LeafCount \in Nat
      /\ \A i \in 1 .. LeafCount : LeafNode(i) \in Node
      /\ \A i, j \in 1 .. LeafCount : i < j => LeafNode(i) < LeafNode(j)
  <2>1. LeavesOK(L, build) /\ Labelled(L, build)
    BY DEF BuildOK
  <2>. DEFINE R == [node : NodesOf(build), ids : {Ids[s] : s \in UNION Vocabulary}]
  <2>2. build.leaves \in Seq(R)
    BY <2>1 DEF LeavesOK
  <2>3. LeafCount \in Nat /\ \A i \in 1 .. LeafCount : build.leaves[i] \in R
    <3>. HIDE DEF R
    <3>. QED BY <2>2 DEF LeafCount
  <2>4. build.nodes \in Nat \ {0} /\ \A i, j \in 1 .. LeafCount : i < j => LeafNode(i) < LeafNode(j)
    BY <2>1 DEF Labelled, LeavesOK, LeafNode, LeafCount
  <2>. QED BY <2>3, <2>4 DEF NodesOf, LeafNode, Node
<1>1. \A n \in 0 .. build.nodes : g[n] \in 0 .. LeafCount /\ \A i \in 1 .. LeafCount : i <= g[n] <=> LeafNode(i) < n
  BY PlacedAll DEF Placed
<1>. HIDE DEF g
<1>2. g[build.nodes] = LeafCount
  <2>1. build.nodes \in 0 .. build.nodes
    BY <1>0
  <2>2. CASE LeafCount = 0
    BY <1>1, <2>1, <2>2
  <2>3. CASE LeafCount # 0
    <3>1. LeafCount \in 1 .. LeafCount
      BY <1>0, <2>3
    <3>2. LeafNode(LeafCount) < build.nodes
      BY <1>0, <3>1 DEF Node
    <3>3. LeafCount <= g[build.nodes] /\ g[build.nodes] \in 0 .. LeafCount
      BY <1>1, <2>1, <3>1, <3>2
    <3>. QED BY <1>0, <3>3
  <2>. QED BY <2>2, <2>3
<1>3. ASSUME NEW n \in Node
      PROVE  /\ n \in Nat /\ g[n] \in 0 .. LeafCount /\ g[n + 1] \in 0 .. LeafCount
             /\ \A i \in 1 .. LeafCount : i <= g[n] <=> LeafNode(i) < n
             /\ \A i \in 1 .. LeafCount : i <= g[n + 1] <=> LeafNode(i) < n + 1
  <2>1. n \in 0 .. build.nodes /\ n + 1 \in 0 .. build.nodes
    BY <1>0 DEF Node
  <2>. QED BY <1>1, <2>1
<1>4. ASSUME NEW i \in 1 .. LeafCount PROVE TokensAt(LeafNode(i)) = build.leaves[i].ids
  <2>. DEFINE n == LeafNode(i)
              j == g[n + 1]
  <2>1. n \in Node /\ n \in Nat /\ i \in Nat
    BY <1>0, <1>3
  <2>2. i <= j /\ ~ (i <= g[n]) /\ j \in 0 .. LeafCount /\ g[n] \in 0 .. LeafCount
    <3>1. n < n + 1 /\ ~ (n < n)
      BY <2>1
    <3>. QED BY <1>3, <2>1, <3>1
  <2>3. j \in 1 .. LeafCount
    BY <1>0, <2>1, <2>2
  <2>. HIDE DEF j
  <2>4. LeafNode(j) < n + 1
    <3>1. j <= g[n + 1]
      BY <1>0, <2>3 DEF j
    <3>. QED BY <1>3, <2>1, <2>3, <3>1
  <2>5. j = i
    <3>1. i < j => LeafNode(i) < LeafNode(j)
      BY <1>0, <2>3
    <3>2. LeafNode(j) \in Nat
      BY <1>0, <1>3, <2>3
    <3>. QED BY <1>0, <2>1, <2>2, <2>3, <2>4, <3>1, <3>2
  <2>6. g[n + 1] > g[n]
    BY <1>0, <2>1, <2>2 DEF j
  <2>. QED BY <2>5, <2>6 DEF TokensAt, g, j
<1>5. ASSUME NEW n \in Node, \A i \in 1 .. LeafCount : LeafNode(i) # n PROVE TokensAt(n) = {}
  <2>. DEFINE j == g[n + 1]
  <2>1. ASSUME j > g[n] PROVE FALSE
    <3>1. j \in 1 .. LeafCount /\ j <= g[n + 1] /\ ~ (j <= g[n])
      BY <1>0, <1>3, <2>1
    <3>2. LeafNode(j) < n + 1 /\ ~ (LeafNode(j) < n) /\ LeafNode(j) \in Nat /\ n \in Nat
      <4>. HIDE DEF j
      <4>. QED BY <1>0, <1>3, <3>1
    <3>3. LeafNode(j) = n
      BY <3>2
    <3>. QED BY <1>5, <3>1, <3>3
  <2>. QED BY <2>1 DEF TokensAt, g
<1>. QED BY <1>2, <1>4, <1>5 DEF g, LeafCount

(* What the walks rely on: an edge adds its byte to the label of its node,  *)
(* every node is the child of an older one, and a node emits the ids of its *)
(* label if that was a record.                                              *)
EdgesOK(L) ==
    /\ build.nodes \in Nat \ {0}
    /\ L \in [Node -> Seq(Byte)] /\ Len(L[0]) = 0
    /\ trie.children \in [Node -> Seq(EdgeOf(build))]
    /\ \A n \in Node : \A j \in 1 .. Len(trie.children[n]) :
          L[trie.children[n][j].child] = Append(L[n], trie.children[n][j].key)
    /\ \A m \in Node : m # 0 =>
          \E n \in Node : n < m /\ \E j \in 1 .. Len(trie.children[n]) : trie.children[n][j].child = m

TokensOK ==
    /\ \A i \in 1 .. LeafCount : trie.tokens[LeafNode(i)] = build.leaves[i].ids
    /\ \A n \in Node : (\A i \in 1 .. LeafCount : LeafNode(i) # n) => trie.tokens[n] = {}

LEMMA ChildrenFacts ==
    ASSUME NEW L, Labelled(L, build), NEW n \in Node
    PROVE  /\ ChildrenOf(n) \in Seq(EdgeOf(build))
           /\ \A j \in 1 .. Len(ChildrenOf(n)) :
                 L[ChildrenOf(n)[j].child] = Append(L[n], ChildrenOf(n)[j].key)
           /\ \A i \in 1 .. Len(build.edges) : build.edges[i].parent = n =>
                 \E j \in 1 .. Len(ChildrenOf(n)) : ChildrenOf(n)[j] = build.edges[i]
<1>. DEFINE E == EdgeOf(build)
            T == {e \in Range(build.edges) : e.parent = n}
            r == ChildrenOf(n)
<1>0. build.edges \in Seq(E)
  BY DEF Labelled
<1>1. r = Filtered(build.edges, T)
  BY DEF ChildrenOf
<1>2. r \in Seq(E) /\ Keeps(r, build.edges, T, Len(build.edges))
  <2>. HIDE DEF E, T, r
  <2>. QED BY <1>0, <1>1, FilteredKeeps
<1>. HIDE DEF r
<1>3. ASSUME NEW j \in 1 .. Len(r) PROVE L[r[j].child] = Append(L[n], r[j].key)
  <2>1. PICK i \in 1 .. Len(build.edges) : j <= i /\ r[j] = build.edges[i] /\ r[j] \in T
    <3>. HIDE DEF T
    <3>. QED BY <1>2 DEF Keeps
  <2>2. r[j].parent = n
    BY <2>1
  <2>. QED BY <2>1, <2>2 DEF Labelled
<1>4. ASSUME NEW i \in 1 .. Len(build.edges), build.edges[i].parent = n
      PROVE  \E j \in 1 .. Len(r) : r[j] = build.edges[i]
  <2>1. DOMAIN build.edges = 1 .. Len(build.edges)
    <3>. HIDE DEF E
    <3>. QED BY <1>0, LenProperties
  <2>2. build.edges[i] \in T
    BY <1>4, <2>1 DEF Range
  <2>. HIDE DEF T
  <2>. QED BY <1>2, <2>2 DEF Keeps
<1>. QED BY <1>2, <1>3, <1>4 DEF r

LEMMA FlattenedOK ==
    ASSUME NEW L, BuildOK(L, build), Flatten
    PROVE  /\ phase' = "measure" /\ stack' = <<0>> /\ trie'.frontier = 1
           /\ trie' = [children |-> trie'.children, tokens |-> trie'.tokens, frontier |-> trie'.frontier]
           /\ EdgesOK(L)' /\ TokensOK'
<1>1. LeavesPlaced[build.nodes] = Len(build.leaves)
  BY ScanComplete
<1>2. /\ phase' = "measure" /\ stack' = <<0>> /\ UNCHANGED build
      /\ trie' = [children |-> [n \in Node |-> ChildrenOf(n)],
                  tokens |-> [n \in Node |-> TokensAt(n)],
                  frontier |-> 1]
  BY <1>1 DEF Flatten, TokensAt
<1>3. /\ trie'.children = [n \in Node |-> ChildrenOf(n)] /\ trie'.tokens = [n \in Node |-> TokensAt(n)]
      /\ trie'.frontier = 1
  BY <1>2
<1>4. Node' = Node /\ EdgeOf(build)' = EdgeOf(build) /\ LeafCount' = LeafCount
      /\ \A i : LeafNode(i)' = LeafNode(i)
  BY <1>2 DEF Node, EdgeOf, NodesOf, LeafCount, LeafNode
<1>5. Labelled(L, build) /\ NodesOf(build) = Node
  BY DEF BuildOK, NodesOf, Node
<1>6. EdgesOK(L)'
  <2>1. trie'.children \in [Node -> Seq(EdgeOf(build))]
    BY <1>3, <1>5, ChildrenFacts
  <2>2. ASSUME NEW n \in Node, NEW j \in 1 .. Len(trie'.children[n])
        PROVE  L[trie'.children[n][j].child] = Append(L[n], trie'.children[n][j].key)
    <3>1. trie'.children[n] = ChildrenOf(n)
      BY <1>3
    <3>. QED BY <1>5, <3>1, ChildrenFacts
  <2>3. ASSUME NEW m \in Node, m # 0
        PROVE  \E n \in Node : n < m /\ \E j \in 1 .. Len(trie'.children[n]) : trie'.children[n][j].child = m
    <3>1. PICK i \in 1 .. Len(build.edges) : build.edges[i].child = m
      BY <1>5, <2>3 DEF Labelled
    <3>. DEFINE n == build.edges[i].parent
    <3>2. n \in Node /\ n < m
      <4>1. build.edges[i] \in EdgeOf(build)
        BY <1>5 DEF Labelled
      <4>. QED BY <1>5, <3>1, <4>1 DEF Labelled, EdgeOf
    <3>3. PICK j \in 1 .. Len(ChildrenOf(n)) : ChildrenOf(n)[j] = build.edges[i]
      BY <1>5, <3>2, ChildrenFacts
    <3>4. trie'.children[n] = ChildrenOf(n)
      BY <1>3, <3>2
    <3>. QED BY <3>1, <3>2, <3>3, <3>4
  <2>4. build.nodes \in Nat \ {0} /\ L \in [Node -> Seq(Byte)] /\ Len(L[0]) = 0 /\ build'.nodes = build.nodes
    BY <1>2, <1>5 DEF Labelled
  <2>. QED BY <1>4, <2>1, <2>2, <2>3, <2>4 DEF EdgesOK
<1>7. TokensOK'
  <2>1. \A i \in 1 .. LeafCount : LeafNode(i) \in Node
    <3>. DEFINE R == [node : NodesOf(build), ids : {Ids[s] : s \in UNION Vocabulary}]
    <3>1. build.leaves \in Seq(R)
      BY DEF BuildOK, LeavesOK
    <3>2. \A i \in 1 .. LeafCount : build.leaves[i] \in R
      <4>. HIDE DEF R
      <4>. QED BY <3>1 DEF LeafCount
    <3>. QED BY <1>5, <3>2 DEF LeafNode
  <2>2. \A n \in Node : trie'.tokens[n] = TokensAt(n)
    BY <1>3
  <2>. QED BY <1>2, <1>4, <2>1, <2>2, ScanComplete DEF TokensOK
<1>. QED BY <1>2, <1>3, <1>6, <1>7

----------------------------------------------------------------------------
(* The fuel.                                                                *)

(* Node n has been popped from place p (the pair is in B) or is there now.  *)
Seen(B, st, n, p) == <<n, p>> \in B \/ (p \in 1 .. Len(st) /\ st[p] = n)

(* For each place a node had in the measured stack st, the frontier covers  *)
(* the stack with its children, and they had the places that follow.        *)
Covered(B, st, children, frontier) ==
    /\ Seen(B, st, 0, 1)
    /\ \A n \in DOMAIN children, p \in Nat : <<n, p>> \in B =>
          /\ p + Len(children[n]) - 1 <= frontier
          /\ \A i \in 1 .. Len(children[n]) : Seen(B, st, children[n][i].child, p + i - 1)

TrieIsRecord ==
    /\ trie = [children |-> trie.children, tokens |-> trie.tokens, frontier |-> trie.frontier]
    /\ trie.frontier \in Nat

(* The stack without its top, and a sequence pushed on it.                  *)
LEMMA PushedStack ==
    ASSUME NEW X, stack \in Seq(X), stack # <<>>, NEW r \in Seq(X)
    PROVE  /\ Len(stack) \in Nat \ {0} /\ Peek \in X
           /\ Popped \o r \in Seq(X) /\ Len(Popped \o r) = (Len(stack) - 1) + Len(r)
           /\ \A i \in 1 .. Len(stack) - 1 : (Popped \o r)[i] = stack[i]
           /\ \A i \in 1 .. Len(r) : (Popped \o r)[(Len(stack) - 1) + i] = r[i]
<1>. DEFINE k == Len(stack) - 1
            next == Popped \o r
<1>1. Len(stack) \in Nat \ {0} /\ k \in Nat /\ Len(r) \in Nat /\ \A i \in 1 .. k + 1 : stack[i] \in X
  <2>1. Len(stack) \in Nat /\ Len(r) \in Nat /\ \A i \in 1 .. Len(stack) : stack[i] \in X
    BY LenProperties, ElementOfSeq
  <2>2. Len(stack) # 0
    BY EmptySeq
  <2>. QED BY <2>1, <2>2
<1>2. Popped \in Seq(X) /\ Len(Popped) = k /\ \A i \in 1 .. k : Popped[i] = stack[i]
  <2>1. k \in Int /\ \A i \in 1 .. k : stack[i] \in X
    BY <1>1
  <2>2. /\ SubSeq(stack, 1, k) \in Seq(X) /\ Len(SubSeq(stack, 1, k)) = (IF 1 <= k THEN k - 1 + 1 ELSE 0)
        /\ \A i \in 1 .. k - 1 + 1 : SubSeq(stack, 1, k)[i] = stack[1 + i - 1]
    <3>. HIDE DEF k
    <3>. QED BY <2>1, SubSeqProperties
  <2>3. Popped = SubSeq(stack, 1, k)
    BY DEF Popped
  <2>. HIDE DEF k
  <2>. QED BY <1>1, <2>2, <2>3
<1>3. /\ next \in Seq(X) /\ Len(next) = Len(Popped) + Len(r)
      /\ \A i \in 1 .. Len(Popped) + Len(r) :
            next[i] = IF i <= Len(Popped) THEN Popped[i] ELSE r[i - Len(Popped)]
  BY <1>2, ConcatProperties
<1>. HIDE DEF next
<1>4. ASSUME NEW i \in 1 .. k PROVE next[i] = stack[i]
  BY <1>1, <1>2, <1>3
<1>5. ASSUME NEW i \in 1 .. Len(r) PROVE next[k + i] = r[i]
  <2>1. k + i \in 1 .. Len(Popped) + Len(r) /\ ~ (k + i <= Len(Popped)) /\ (k + i) - Len(Popped) = i
    BY <1>1, <1>2
  <2>. QED BY <1>3, <2>1
<1>6. Peek \in X
  BY <1>1 DEF Peek
<1>. QED BY <1>1, <1>2, <1>3, <1>4, <1>5, <1>6 DEF next

LEMMA PoppedStack ==
    ASSUME NEW X, stack \in Seq(X), stack # <<>>
    PROVE  /\ Len(stack) \in Nat \ {0} /\ Popped \in Seq(X) /\ Len(Popped) = Len(stack) - 1
           /\ \A i \in 1 .. Len(stack) - 1 : Popped[i] = stack[i]
<1>1. <<>> \in Seq(X) /\ Len(<<>>) = 0
  OBVIOUS
<1>2. /\ Len(stack) \in Nat \ {0} /\ Popped \o <<>> \in Seq(X) /\ Len(Popped \o <<>>) = (Len(stack) - 1) + 0
      /\ \A i \in 1 .. Len(stack) - 1 : (Popped \o <<>>)[i] = stack[i]
  BY <1>1, PushedStack
<1>3. Popped \o <<>> = Popped
  <2>1. Popped \in Seq(X)
    BY <1>2 DEF Popped
  <2>. QED BY <2>1
<1>. QED BY <1>2, <1>3

(* One popped node is covered with its children.                            *)
LEMMA MeasureCovers ==
    ASSUME NEW L, EdgesOK(L), TrieIsRecord, stack \in Seq(Node), Len(stack) <= trie.frontier,
           NEW B, Covered(B, stack, trie.children, trie.frontier), Measure
    PROVE  /\ stack' \in Seq(Node) /\ Len(stack') <= trie'.frontier /\ TrieIsRecord'
           /\ Covered(B \cup {<<Peek, Len(stack)>>}, stack', trie'.children, trie'.frontier)
           /\ trie'.children = trie.children /\ trie'.tokens = trie.tokens
<1>. DEFINE kids == trie.children[Peek]
            r == [i \in 1 .. Len(kids) |-> kids[i].child]
            k == Len(stack)
            C == B \cup {<<Peek, k>>}
            max == IF Len(stack') > trie.frontier THEN Len(stack') ELSE trie.frontier
<1>1. stack # <<>> /\ stack' = Popped \o r /\ trie' = [trie EXCEPT !.frontier = max] /\ UNCHANGED build
  BY DEF Measure
<1>2. k \in Nat \ {0} /\ Peek \in Node /\ k - 1 \in Nat
  <2>1. k \in Nat /\ k # 0
    BY <1>1, EmptySeq, LenProperties
  <2>2. k \in 1 .. k
    BY <2>1
  <2>. QED BY <2>1, <2>2, ElementOfSeq DEF Peek
<1>3. kids \in Seq(EdgeOf(build))
  BY <1>2 DEF EdgesOK
<1>4. Len(kids) \in Nat /\ \A i \in 1 .. Len(kids) : kids[i].child \in Node
  <2>1. Len(kids) \in Nat /\ \A i \in 1 .. Len(kids) : kids[i] \in EdgeOf(build)
    BY <1>3
  <2>. QED BY <2>1 DEF EdgeOf, NodesOf, Node
<1>5. r \in Seq(Node) /\ Len(r) = Len(kids) /\ \A i \in 1 .. Len(kids) : r[i] = kids[i].child
  <2>1. r \in [1 .. Len(kids) -> Node] /\ \A i \in 1 .. Len(kids) : r[i] = kids[i].child
    BY <1>4
  <2>. HIDE DEF r
  <2>. QED BY <1>4, <2>1
<1>. HIDE DEF r, kids
<1>6. /\ stack' \in Seq(Node) /\ Len(stack') = (k - 1) + Len(kids)
      /\ \A i \in 1 .. k - 1 : stack'[i] = stack[i]
      /\ \A i \in 1 .. Len(kids) : stack'[(k - 1) + i] = kids[i].child
  <2>1. /\ stack' \in Seq(Node) /\ Len(stack') = (Len(stack) - 1) + Len(r)
        /\ \A i \in 1 .. Len(stack) - 1 : stack'[i] = stack[i]
        /\ \A i \in 1 .. Len(r) : stack'[(Len(stack) - 1) + i] = r[i]
    BY <1>1, <1>5, PushedStack
  <2>. QED BY <1>5, <2>1
<1>7. /\ trie'.children = trie.children /\ trie'.tokens = trie.tokens /\ trie'.frontier = max
      /\ max \in Nat /\ Len(stack') <= max /\ trie.frontier <= max
  <2>1. Len(stack') \in Nat
    BY <1>2, <1>4, <1>6
  <2>. QED BY <1>1, <2>1 DEF TrieIsRecord
<1>8. TrieIsRecord'
  BY <1>1, <1>7 DEF TrieIsRecord
<1>. HIDE DEF max
<1>9. ASSUME NEW n, NEW p, Seen(B, stack, n, p) PROVE Seen(C, stack', n, p)
  <2>1. CASE <<n, p>> \in B
    BY <2>1 DEF Seen
  <2>2. CASE p \in 1 .. k /\ stack[p] = n
    <3>1. CASE p = k
      BY <2>2, <3>1 DEF Seen, Peek
    <3>2. CASE p # k
      <4>1. p \in 1 .. k - 1
        BY <1>2, <2>2, <3>2
      <4>2. p \in 1 .. Len(stack')
        BY <1>2, <1>4, <1>6, <4>1
      <4>. QED BY <1>6, <2>2, <4>1, <4>2 DEF Seen
    <3>. QED BY <3>1, <3>2
  <2>. QED BY <1>9, <2>1, <2>2 DEF Seen
<1>10. ASSUME NEW n \in Node, NEW p \in Nat, <<n, p>> \in C
       PROVE  /\ p + Len(trie.children[n]) - 1 <= max
              /\ \A i \in 1 .. Len(trie.children[n]) : Seen(C, stack', trie.children[n][i].child, p + i - 1)
  <2>0. Len(trie.children[n]) \in Nat
    BY DEF EdgesOK
  <2>1. CASE <<n, p>> \in B
    <3>1. /\ p + Len(trie.children[n]) - 1 <= trie.frontier
          /\ \A i \in 1 .. Len(trie.children[n]) : Seen(B, stack, trie.children[n][i].child, p + i - 1)
      <4>1. DOMAIN trie.children = Node
        BY DEF EdgesOK
      <4>. QED BY <2>1, <4>1 DEF Covered
    <3>2. p + Len(trie.children[n]) - 1 <= max
      BY <1>7, <2>0, <3>1 DEF TrieIsRecord
    <3>. QED BY <1>9, <3>1, <3>2
  <2>2. CASE <<n, p>> = <<Peek, k>>
    <3>1. n = Peek /\ p = k /\ trie.children[n] = kids
      BY <2>2 DEF kids
    <3>2. p + Len(kids) - 1 <= max
      BY <1>2, <1>4, <1>6, <1>7, <3>1
    <3>3. ASSUME NEW i \in 1 .. Len(kids) PROVE Seen(C, stack', kids[i].child, p + i - 1)
      <4>1. p + i - 1 = (k - 1) + i /\ p + i - 1 \in 1 .. Len(stack')
        BY <1>2, <1>4, <1>6, <3>1
      <4>2. stack'[p + i - 1] = kids[i].child
        BY <1>6, <4>1
      <4>. QED BY <4>1, <4>2 DEF Seen
    <3>. QED BY <3>1, <3>2, <3>3
  <2>. QED BY <1>10, <2>1, <2>2
<1>11. Covered(C, stack', trie'.children, trie'.frontier)
  <2>1. Seen(C, stack', 0, 1)
    BY <1>9 DEF Covered
  <2>2. DOMAIN trie.children = Node
    BY DEF EdgesOK
  <2>. HIDE DEF C
  <2>. QED BY <1>7, <1>10, <2>1, <2>2 DEF Covered
<1>. QED BY <1>6, <1>7, <1>8, <1>11 DEF C

----------------------------------------------------------------------------
(* A step of the walk.                                                      *)

MemoOK(m) ==
    /\ m \in [generation : [Class -> Nat], value : [Class -> EngineState], current : Nat]
    /\ m.current < MemoWrap /\ \A c \in Class : m.generation[c] <= m.current

(* After a bump no class is remembered, also when the counter wraps.        *)
LEMMA BumpForgets ==
    ASSUME NEW m, MemoOK(m)
    PROVE  MemoOK(Bumped(m)) /\ \A c \in Class : Bumped(m).generation[c] # Bumped(m).current
<1>. DEFINE next == (m.current + 1) % MemoWrap
<1>1. m.current \in Nat /\ MemoWrap \in Nat /\ MemoWrap >= 2 /\ m.current < MemoWrap
  BY MemoAssumption DEF MemoOK
<1>2. CASE m.current + 1 = MemoWrap
  <2>1. next = 0
    BY <1>1, <1>2
  <2>2. Bumped(m) = [m EXCEPT !.generation = [c \in Class |-> 0], !.current = 1]
    BY <2>1 DEF Bumped
  <2>3. /\ Bumped(m) \in [generation : [Class -> Nat], value : [Class -> EngineState], current : Nat]
        /\ Bumped(m).generation = [c \in Class |-> 0] /\ Bumped(m).current = 1
    <3>1. m \in [generation : [Class -> Nat], value : [Class -> EngineState], current : Nat]
      BY DEF MemoOK
    <3>. DEFINE none == [c \in Class |-> 0]
    <3>2. none \in [Class -> Nat] /\ 1 \in Nat
      OBVIOUS
    <3>. HIDE DEF none
    <3>3. Bumped(m) = [m EXCEPT !.generation = none, !.current = 1]
      BY <2>2 DEF none
    <3>4. Bumped(m) \in [generation : [Class -> Nat], value : [Class -> EngineState], current : Nat]
      BY <3>1, <3>2, <3>3
    <3>5. Bumped(m).generation = none /\ Bumped(m).current = 1
      BY <3>1, <3>3
    <3>. QED BY <3>4, <3>5 DEF none
  <2>4. \A c \in Class : Bumped(m).generation[c] = 0
    BY <2>3
  <2>. QED BY <1>1, <2>3, <2>4 DEF MemoOK
<1>3. CASE m.current + 1 # MemoWrap
  <2>1. next = m.current + 1 /\ next # 0
    BY <1>1, <1>3
  <2>2. Bumped(m) = [m EXCEPT !.current = m.current + 1]
    BY <2>1 DEF Bumped
  <2>3. /\ Bumped(m) \in [generation : [Class -> Nat], value : [Class -> EngineState], current : Nat]
        /\ Bumped(m).generation = m.generation /\ Bumped(m).current = m.current + 1
    BY <1>1, <2>2 DEF MemoOK
  <2>4. \A c \in Class : m.generation[c] \in Nat /\ m.generation[c] <= m.current
    BY DEF MemoOK
  <2>. QED BY <1>1, <1>3, <2>3, <2>4 DEF MemoOK
<1>. QED BY <1>2, <1>3

(* An entry of the walk's stack, and the one that an edge pushes.           *)
Frame == [row : EngineState, node : Node, at : EngineState]
Below(top, e) == [row |-> top.row, node |-> e.child, at |-> Step(engine, top.at, engine.classOf[e.key])]

(* The edges along which the automaton goes on living.                      *)
LiveEdges(top) ==
    {e \in Range(trie.children[top.node]) : Step(engine, top.at, engine.classOf[e.key]) # Dead}

(* Visit pushes what lives, whatever the memo remembers.                    *)
Pushed(kids) == Popped \o [i \in 1 .. Len(kids) |-> Below(Peek, kids[i])]
VisitPushes(kids) ==
    IF Len(Pushed(kids)) > trie.frontier
      THEN phase' = "stack exceeds the fuel"
      ELSE stack' = Pushed(kids) /\ phase' = phase

LEMMA VisitStep ==
    ASSUME NEW L, EngineOK(engine), MemoOK(memo), EdgesOK(L), stack \in Seq(Frame), Visit
    PROVE  /\ phase = "walk" /\ stack # <<>> /\ Peek \in Frame /\ Peek.at # Dead
           /\ MemoOK(memo')
           /\ rows' = [rows EXCEPT ![Peek.row] = @ \cup trie.tokens[Peek.node]]
           /\ \E kids \in Seq(EdgeOf(build)) :
                 /\ Keeps(kids, trie.children[Peek.node], LiveEdges(Peek), Len(trie.children[Peek.node]))
                 /\ VisitPushes(kids)
           /\ UNCHANGED <<engine, pairs, build, trie, state>>
<1>. DEFINE top == Peek
            bumped == Bumped(memo)
            kids == Filtered(trie.children[top.node], Descends(bumped, top))
            classes == {engine.classOf[kids[i].key] : i \in 1 .. Len(kids)}
            E == EdgeOf(build)
<1>0. /\ phase = "walk" /\ stack # <<>> /\ top.at # Dead
      /\ rows' = [rows EXCEPT ![top.row] = @ \cup trie.tokens[top.node]]
      /\ UNCHANGED <<engine, pairs, build, trie, state>>
  BY DEF Visit
<1>1. top \in Frame
  <2>1. Len(stack) \in Nat /\ Len(stack) # 0
    BY <1>0, EmptySeq, LenProperties
  <2>2. Len(stack) \in 1 .. Len(stack)
    BY <2>1
  <2>. QED BY <2>2, ElementOfSeq DEF Peek
<1>2. top.node \in Node /\ top.at \in EngineState /\ trie.children[top.node] \in Seq(E)
  BY <1>1 DEF Frame, EdgesOK
<1>3. MemoOK(bumped) /\ \A c \in Class : bumped.generation[c] # bumped.current
  BY BumpForgets
<1>4. ASSUME NEW c \in Class PROVE Memoized(bumped, top.at, c) = Step(engine, top.at, c)
  <2>. HIDE DEF bumped, top
  <2>. QED BY <1>3 DEF Memoized
<1>5. \A e \in Range(trie.children[top.node]) : engine.classOf[e.key] \in Class
  <2>1. ASSUME NEW e \in Range(trie.children[top.node]) PROVE e \in E
    <3>1. PICK i \in 1 .. Len(trie.children[top.node]) : e = trie.children[top.node][i]
      <4>1. DOMAIN trie.children[top.node] = 1 .. Len(trie.children[top.node])
        <5>. HIDE DEF E, top
        <5>. QED BY <1>2, LenProperties
      <4>. HIDE DEF top
      <4>. QED BY <2>1, <4>1 DEF Range
    <3>. HIDE DEF E, top
    <3>. QED BY <1>2, <3>1, ElementOfSeq
  <2>2. \A e \in E : e.key \in Byte
    BY DEF EdgeOf
  <2>. QED BY <2>1, <2>2 DEF EngineOK
<1>6. Descends(bumped, top) = LiveEdges(top)
  <2>. HIDE DEF bumped, top
  <2>1. ASSUME NEW e \in Range(trie.children[top.node])
        PROVE  (/\ engine.classOf[e.key] \in LiveClasses(engine, top.at)
                /\ Memoized(bumped, top.at, engine.classOf[e.key]) # Dead)
               <=> Step(engine, top.at, engine.classOf[e.key]) # Dead
    BY <1>2, <1>4, <1>5 DEF EngineOK
  <2>. QED BY <2>1, Zenon DEF Descends, LiveEdges
<1>7. kids \in Seq(E) /\ Keeps(kids, trie.children[top.node], LiveEdges(top), Len(trie.children[top.node]))
  <2>. HIDE DEF E, bumped, top
  <2>. QED BY <1>2, <1>6, FilteredKeeps
<1>8. \A i \in 1 .. Len(kids) : engine.classOf[kids[i].key] \in Class
  <2>1. \A i \in 1 .. Len(kids) : kids[i] \in LiveEdges(top)
    <3>. HIDE DEF kids, top
    <3>. QED BY <1>7 DEF Keeps
  <2>. HIDE DEF kids, top
  <2>. QED BY <1>5, <2>1 DEF LiveEdges
<1>9. MemoOK(memo')
  <2>1. memo' = [bumped EXCEPT
                    !.value = [c \in Class |-> IF c \in classes THEN Memoized(bumped, top.at, c) ELSE @[c]],
                    !.generation = [c \in Class |-> IF c \in classes THEN bumped.current ELSE @[c]]]
    BY DEF Visit
  <2>2. \A c \in Class : Memoized(bumped, top.at, c) \in EngineState
    BY <1>2, <1>4 DEF EngineOK
  <2>. HIDE DEF bumped, classes, top
  <2>3. /\ bumped \in [generation : [Class -> Nat], value : [Class -> EngineState], current : Nat]
        /\ bumped.current < MemoWrap /\ \A c \in Class : bumped.generation[c] <= bumped.current
    BY <1>3 DEF MemoOK
  <2>4. /\ memo'.generation = [c \in Class |-> IF c \in classes THEN bumped.current ELSE bumped.generation[c]]
        /\ memo'.current = bumped.current
        /\ memo' \in [generation : [Class -> Nat], value : [Class -> EngineState], current : Nat]
    BY <2>1, <2>2, <2>3
  <2>5. \A c \in Class : memo'.generation[c] <= memo'.current
    BY <2>3, <2>4
  <2>. QED BY <2>3, <2>4, <2>5 DEF MemoOK
<1>10. VisitPushes(kids)
  <2>. DEFINE next == Popped \o [i \in 1 .. Len(kids) |->
                         [row |-> top.row, node |-> kids[i].child,
                          at |-> Memoized(bumped, top.at, engine.classOf[kids[i].key])]]
  <2>1. IF Len(next) > trie.frontier
          THEN phase' = "stack exceeds the fuel" /\ UNCHANGED stack
          ELSE stack' = next /\ UNCHANGED phase
    BY DEF Visit
  <2>. HIDE DEF kids, bumped, top
  <2>2. next = Popped \o [i \in 1 .. Len(kids) |-> Below(top, kids[i])]
    <3>1. ASSUME NEW i \in 1 .. Len(kids)
          PROVE  [row |-> top.row, node |-> kids[i].child,
                  at |-> Memoized(bumped, top.at, engine.classOf[kids[i].key])] = Below(top, kids[i])
      BY <1>4, <1>8 DEF Below
    <3>. QED BY <3>1, Zenon
  <2>. HIDE DEF next
  <2>. QED BY <2>1, <2>2 DEF VisitPushes, Pushed, top
<1>. QED
  <2>. HIDE DEF kids
  <2>. QED BY <1>0, <1>1, <1>7, <1>9, <1>10

----------------------------------------------------------------------------
(* The walk.                                                                *)

Alive(L, q, n) == ConsumeToken(engine, q, L[n]) # Dead
RowFor(L, q) == UNION {trie.tokens[n] : n \in {n \in Node : Alive(L, q, n)}}

Pending(st, n) == \E i \in 1 .. Len(st) : st[i].node = n

(* The stack st of the walk for row q: an entry has the state its label     *)
(* leads to, the nodes in D have been emitted, and what lives below them    *)
(* has been emitted too or is on the stack.                                 *)
WalkOK(L, D, q, st, row) ==
    /\ D \subseteq Node /\ q \in EngineState
    /\ st \in Seq(Frame)
    /\ \A i \in 1 .. Len(st) : st[i].row = q /\ st[i].at = ConsumeToken(engine, q, L[st[i].node])
    /\ row \subseteq RowFor(L, q)
    /\ Alive(L, q, 0) => 0 \in D \/ Pending(st, 0)
    /\ \A n \in D : /\ trie.tokens[n] \subseteq row
                    /\ \A j \in 1 .. Len(trie.children[n]) :
                          Alive(L, q, trie.children[n][j].child) =>
                              trie.children[n][j].child \in D \/ Pending(st, trie.children[n][j].child)

(* The label of a child, and its run.                                       *)
LEMMA ChildRun ==
    ASSUME NEW L, EngineOK(engine), EdgesOK(L), NEW q \in EngineState, NEW n \in Node,
           NEW j \in 1 .. Len(trie.children[n])
    PROVE  /\ trie.children[n][j] \in EdgeOf(build)
           /\ trie.children[n][j].child \in Node /\ trie.children[n][j].key \in Byte
           /\ ConsumeToken(engine, q, L[n]) \in EngineState
           /\ ConsumeToken(engine, q, L[trie.children[n][j].child])
                = Step(engine, ConsumeToken(engine, q, L[n]), engine.classOf[trie.children[n][j].key])
           /\ Alive(L, q, trie.children[n][j].child) => Alive(L, q, n)
<1>. DEFINE e == trie.children[n][j]
<1>1. trie.children[n] \in Seq(EdgeOf(build)) /\ L[n] \in Seq(Byte) /\ L[e.child] = Append(L[n], e.key)
  BY DEF EdgesOK
<1>2. e \in EdgeOf(build)
  BY <1>1, ElementOfSeq
<1>3. e.child \in Node /\ e.key \in Byte
  BY <1>2 DEF EdgeOf, NodesOf, Node
<1>. HIDE DEF e
<1>4. /\ ConsumeToken(engine, q, L[n]) \in EngineState
      /\ ConsumeToken(engine, q, L[e.child]) = Step(engine, ConsumeToken(engine, q, L[n]), engine.classOf[e.key])
  BY <1>1, <1>3, ConsumeAppend
<1>5. engine.classOf[e.key] \in Class
  BY <1>3 DEF EngineOK
<1>6. Alive(L, q, e.child) => Alive(L, q, n)
  BY <1>4, <1>5 DEF Alive, EngineOK
<1>. QED BY <1>2, <1>3, <1>4, <1>6 DEF e

(* When the stack is empty every living node has been emitted.              *)
LEMMA RowFinished ==
    ASSUME NEW L, EngineOK(engine), EdgesOK(L), NEW D, NEW q, NEW row, NEW st,
           Len(st) = 0, WalkOK(L, D, q, st, row)
    PROVE  row = RowFor(L, q)
<1>1. \A n : ~ Pending(st, n)
  BY DEF Pending
<1>2. /\ q \in EngineState /\ row \subseteq RowFor(L, q) /\ (Alive(L, q, 0) => 0 \in D)
      /\ \A n \in D : /\ trie.tokens[n] \subseteq row
                      /\ \A j \in 1 .. Len(trie.children[n]) :
                            Alive(L, q, trie.children[n][j].child) => trie.children[n][j].child \in D
  BY <1>1 DEF WalkOK
<1>3. ASSUME NEW n \in Node, Alive(L, q, n) PROVE n \in D
  <2>. DEFINE Missing == {m \in Node : Alive(L, q, m) /\ m \notin D}
  <2>1. SUFFICES ASSUME Missing # {} PROVE FALSE
    BY <1>3
  <2>2. Missing \subseteq Nat
    BY DEF Node, EdgesOK
  <2>3. PICK m \in Missing : \A k \in Missing : m <= k
    <3>. HIDE DEF Missing
    <3>. QED BY <2>1, <2>2, LeastNatural
  <2>4. m # 0
    BY <1>2, <2>3
  <2>5. PICK p \in Node : p < m /\ \E j \in 1 .. Len(trie.children[p]) : trie.children[p][j].child = m
    BY <2>3, <2>4 DEF EdgesOK
  <2>6. PICK j \in 1 .. Len(trie.children[p]) : trie.children[p][j].child = m
    BY <2>5
  <2>7. Alive(L, q, p)
    BY <1>2, <2>3, <2>6, ChildRun
  <2>8. p \notin Missing
    <3>1. p \in Nat /\ m \in Nat
      BY <2>3 DEF Node, EdgesOK
    <3>. HIDE DEF Missing
    <3>. QED BY <2>3, <2>5, <3>1
  <2>9. p \in D
    BY <2>7, <2>8
  <2>. QED BY <1>2, <2>3, <2>6, <2>9
<1>4. RowFor(L, q) \subseteq row
  BY <1>2, <1>3 DEF RowFor
<1>. QED BY <1>2, <1>4

(* The pushed entries follow the ones that stay.                            *)
LEMMA PushedKids ==
    ASSUME NEW L, EngineOK(engine), EdgesOK(L), stack \in Seq(Frame), stack # <<>>,
           NEW kids \in Seq(EdgeOf(build))
    PROVE  /\ Len(stack) \in Nat \ {0} /\ Peek \in Frame /\ Len(kids) \in Nat
           /\ Pushed(kids) \in Seq(Frame) /\ Len(Pushed(kids)) = (Len(stack) - 1) + Len(kids)
           /\ \A i \in 1 .. Len(stack) - 1 : Pushed(kids)[i] = stack[i]
           /\ \A i \in 1 .. Len(kids) : Pushed(kids)[(Len(stack) - 1) + i] = Below(Peek, kids[i])
<1>. DEFINE r == [i \in 1 .. Len(kids) |-> Below(Peek, kids[i])]
<1>1. Len(kids) \in Nat /\ \A i \in 1 .. Len(kids) : kids[i] \in EdgeOf(build)
  BY LenProperties, ElementOfSeq
<1>2. Peek \in Frame
  <2>1. <<>> \in Seq(Frame)
    OBVIOUS
  <2>. HIDE DEF Frame
  <2>. QED BY <2>1, PushedStack
<1>3. ASSUME NEW i \in 1 .. Len(kids) PROVE Below(Peek, kids[i]) \in Frame
  <2>1. Peek.row \in EngineState /\ Peek.at \in EngineState
    BY <1>2 DEF Frame
  <2>2. kids[i].child \in Node /\ kids[i].key \in Byte
    BY <1>1 DEF EdgeOf, NodesOf, Node
  <2>3. Step(engine, Peek.at, engine.classOf[kids[i].key]) \in EngineState
    <3>1. engine.classOf[kids[i].key] \in Class
      BY <2>2 DEF EngineOK
    <3>. QED BY <2>1, <3>1 DEF EngineOK
  <2>. QED BY <2>1, <2>2, <2>3 DEF Below, Frame
<1>4. r \in Seq(Frame) /\ Len(r) = Len(kids) /\ \A i \in 1 .. Len(kids) : r[i] = Below(Peek, kids[i])
  <2>1. r \in [1 .. Len(kids) -> Frame] /\ \A i \in 1 .. Len(kids) : r[i] = Below(Peek, kids[i])
    <3>. HIDE DEF Frame
    <3>. QED BY <1>3
  <2>. HIDE DEF r, Frame
  <2>. QED BY <1>1, <2>1
<1>5. Pushed(kids) = Popped \o r
  BY DEF Pushed
<1>. HIDE DEF r, Frame
<1>6. /\ Len(stack) \in Nat \ {0}
      /\ Popped \o r \in Seq(Frame) /\ Len(Popped \o r) = (Len(stack) - 1) + Len(r)
      /\ \A i \in 1 .. Len(stack) - 1 : (Popped \o r)[i] = stack[i]
      /\ \A i \in 1 .. Len(r) : (Popped \o r)[(Len(stack) - 1) + i] = r[i]
  BY <1>4, PushedStack
<1>. QED BY <1>1, <1>2, <1>4, <1>5, <1>6

(* Visiting a node emits it and puts what lives below it on the stack.      *)
LEMMA VisitWalks ==
    ASSUME NEW L, EngineOK(engine), EdgesOK(L), NEW D, NEW q, NEW row, WalkOK(L, D, q, stack, row),
           stack # <<>>, Peek.at # Dead, NEW kids \in Seq(EdgeOf(build)),
           Keeps(kids, trie.children[Peek.node], LiveEdges(Peek), Len(trie.children[Peek.node]))
    PROVE  WalkOK(L, D \cup {Peek.node}, q, Pushed(kids), row \cup trie.tokens[Peek.node])
<1>. DEFINE k == Len(stack)
            top == Peek.node
            next == Pushed(kids)
            all == trie.children[top]
            new == row \cup trie.tokens[top]
<1>1. /\ q \in EngineState /\ D \subseteq Node /\ stack \in Seq(Frame)
      /\ \A i \in 1 .. k : stack[i].row = q /\ stack[i].at = ConsumeToken(engine, q, L[stack[i].node])
  BY DEF WalkOK
<1>2. /\ k \in Nat \ {0} /\ Peek \in Frame /\ Len(kids) \in Nat
      /\ next \in Seq(Frame) /\ Len(next) = (k - 1) + Len(kids)
      /\ \A i \in 1 .. k - 1 : next[i] = stack[i]
      /\ \A i \in 1 .. Len(kids) : next[(k - 1) + i] = Below(Peek, kids[i])
  BY <1>1, PushedKids
<1>3. /\ top \in Node /\ Peek.row = q /\ Peek.at = ConsumeToken(engine, q, L[top]) /\ Alive(L, q, top)
  <2>1. k \in 1 .. k
    BY <1>2
  <2>. QED BY <1>1, <1>2, <2>1 DEF Peek, Frame, Alive
<1>4. Len(all) \in Nat /\ all \in Seq(EdgeOf(build))
  BY <1>3 DEF EdgesOK
<1>. HIDE DEF next
<1>5. ASSUME NEW j \in 1 .. Len(kids)
      PROVE  /\ Below(Peek, kids[j]).row = q /\ Below(Peek, kids[j]).node = kids[j].child
             /\ Below(Peek, kids[j]).at = ConsumeToken(engine, q, L[kids[j].child])
  <2>1. PICK i \in 1 .. Len(all) : j <= i /\ kids[j] = all[i] /\ kids[j] \in LiveEdges(Peek)
    BY DEF Keeps
  <2>2. ConsumeToken(engine, q, L[all[i].child])
          = Step(engine, ConsumeToken(engine, q, L[top]), engine.classOf[all[i].key])
    BY <1>1, <1>3, ChildRun
  <2>. QED BY <1>3, <2>1, <2>2 DEF Below
<1>6. ASSUME NEW i \in 1 .. Len(next)
      PROVE  next[i].row = q /\ next[i].at = ConsumeToken(engine, q, L[next[i].node])
  <2>1. CASE i \in 1 .. k - 1
    <3>1. i \in 1 .. k
      BY <1>2, <2>1
    <3>. QED BY <1>1, <1>2, <2>1, <3>1
  <2>2. CASE i \notin 1 .. k - 1
    <3>. DEFINE j == i - (k - 1)
    <3>1. j \in 1 .. Len(kids) /\ i = (k - 1) + j
      BY <1>2, <2>2
    <3>2. next[i] = Below(Peek, kids[j])
      BY <1>2, <3>1
    <3>. QED BY <1>5, <3>1, <3>2
  <2>. QED BY <2>1, <2>2
<1>7. trie.tokens[top] \subseteq RowFor(L, q)
  BY <1>3 DEF RowFor
<1>8. ASSUME NEW n, Pending(stack, n) PROVE n = top \/ Pending(next, n)
  <2>1. PICK i \in 1 .. k : stack[i].node = n
    BY <1>8 DEF Pending
  <2>2. CASE i = k
    BY <2>1, <2>2 DEF Peek
  <2>3. CASE i # k
    <3>1. i \in 1 .. k - 1 /\ i \in 1 .. Len(next)
      BY <1>2, <2>3
    <3>. QED BY <1>2, <2>1, <3>1 DEF Pending
  <2>. QED BY <2>2, <2>3
<1>9. ASSUME NEW j \in 1 .. Len(all), Alive(L, q, all[j].child) PROVE Pending(next, all[j].child)
  <2>1. all[j] \in LiveEdges(Peek)
    <3>1. /\ ConsumeToken(engine, q, L[all[j].child])
               = Step(engine, ConsumeToken(engine, q, L[top]), engine.classOf[all[j].key])
      BY <1>1, <1>3, ChildRun
    <3>2. DOMAIN all = 1 .. Len(all)
      <4>. HIDE DEF all
      <4>. QED BY <1>4, LenProperties
    <3>3. all[j] \in Range(all)
      BY <3>2 DEF Range
    <3>. QED BY <1>3, <1>9, <3>1, <3>3 DEF LiveEdges, Alive
  <2>2. PICK i \in 1 .. Len(kids) : kids[i] = all[j]
    BY <2>1 DEF Keeps
  <2>3. (k - 1) + i \in 1 .. Len(next)
    BY <1>2
  <2>4. next[(k - 1) + i].node = all[j].child
    BY <1>2, <1>5, <2>2
  <2>. QED BY <2>3, <2>4 DEF Pending
<1>10. ASSUME NEW n \in D \cup {top}
       PROVE  /\ trie.tokens[n] \subseteq new
              /\ \A j \in 1 .. Len(trie.children[n]) :
                    Alive(L, q, trie.children[n][j].child) =>
                        trie.children[n][j].child \in D \cup {top} \/ Pending(next, trie.children[n][j].child)
  <2>1. CASE n = top
    BY <1>9, <2>1
  <2>2. CASE n \in D
    BY <1>8, <2>2 DEF WalkOK
  <2>. QED BY <2>1, <2>2
<1>11. Alive(L, q, 0) => 0 \in D \cup {top} \/ Pending(next, 0)
  BY <1>8 DEF WalkOK
<1>12. new \subseteq RowFor(L, q)
  BY <1>7 DEF WalkOK
<1>. HIDE DEF new, top
<1>13. WalkOK(L, D \cup {top}, q, next, new)
  BY <1>1, <1>2, <1>3, <1>6, <1>10, <1>11, <1>12 DEF WalkOK
<1>. QED BY <1>13 DEF new, top, next

(* A dead entry has nothing to emit.                                        *)
LEMMA SkipWalks ==
    ASSUME NEW L, EngineOK(engine), EdgesOK(L), NEW D, NEW q, NEW row, WalkOK(L, D, q, stack, row),
           stack # <<>>, Peek.at = Dead
    PROVE  WalkOK(L, D, q, Popped, row)
<1>. DEFINE k == Len(stack)
<1>1. /\ stack \in Seq(Frame)
      /\ \A i \in 1 .. k : stack[i].row = q /\ stack[i].at = ConsumeToken(engine, q, L[stack[i].node])
  BY DEF WalkOK
<1>2. k \in Nat \ {0} /\ Popped \in Seq(Frame) /\ Len(Popped) = k - 1 /\ \A i \in 1 .. k - 1 : Popped[i] = stack[i]
  <2>. HIDE DEF Frame
  <2>. QED BY <1>1, PoppedStack
<1>3. ASSUME NEW n, Alive(L, q, n), Pending(stack, n) PROVE Pending(Popped, n)
  <2>1. PICK i \in 1 .. k : stack[i].node = n
    BY <1>3 DEF Pending
  <2>2. i # k
    BY <1>1, <1>3, <2>1 DEF Peek, Alive
  <2>3. i \in 1 .. k - 1 /\ i \in 1 .. Len(Popped)
    BY <1>2, <2>2
  <2>. QED BY <1>2, <2>1, <2>3 DEF Pending
<1>4. ASSUME NEW i \in 1 .. Len(Popped)
      PROVE  Popped[i].row = q /\ Popped[i].at = ConsumeToken(engine, q, L[Popped[i].node])
  <2>1. i \in 1 .. k - 1 /\ i \in 1 .. k
    BY <1>2
  <2>. QED BY <1>1, <1>2, <2>1
<1>. HIDE DEF k
<1>. QED BY <1>2, <1>3, <1>4 DEF WalkOK

(* No node is higher in the stack of the walk than it was in the measured   *)
(* one.                                                                     *)
Lower(B, st) == \A i \in 1 .. Len(st) : \E p \in Nat : i <= p /\ <<st[i].node, p>> \in B

LEMMA VisitFuel ==
    ASSUME NEW L, EngineOK(engine), EdgesOK(L), TrieIsRecord, stack \in Seq(Frame), stack # <<>>,
           NEW B, Covered(B, <<>>, trie.children, trie.frontier), Lower(B, stack),
           NEW kids \in Seq(EdgeOf(build)),
           Keeps(kids, trie.children[Peek.node], LiveEdges(Peek), Len(trie.children[Peek.node]))
    PROVE  Len(Pushed(kids)) <= trie.frontier /\ Lower(B, Pushed(kids))
<1>. DEFINE k == Len(stack)
            top == Peek.node
            next == Pushed(kids)
            all == trie.children[top]
<1>1. /\ k \in Nat \ {0} /\ Peek \in Frame /\ Len(kids) \in Nat
      /\ Len(next) = (k - 1) + Len(kids)
      /\ \A i \in 1 .. k - 1 : next[i] = stack[i]
      /\ \A i \in 1 .. Len(kids) : next[(k - 1) + i] = Below(Peek, kids[i])
  BY PushedKids
<1>. HIDE DEF next
<1>2. top \in Node
  BY <1>1 DEF Frame
<1>3. Len(all) \in Nat /\ Len(kids) <= Len(all) /\ DOMAIN trie.children = Node /\ trie.frontier \in Nat
  BY <1>2 DEF EdgesOK, Keeps, TrieIsRecord
<1>4. PICK p \in Nat : k <= p /\ <<top, p>> \in B
  <2>1. k \in 1 .. k
    BY <1>1
  <2>. QED BY <2>1 DEF Lower, Peek
<1>5. /\ p + Len(all) - 1 <= trie.frontier
      /\ \A i \in 1 .. Len(all) : Seen(B, <<>>, all[i].child, p + i - 1)
  BY <1>2, <1>3, <1>4 DEF Covered
<1>6. Len(next) <= trie.frontier
  BY <1>1, <1>3, <1>4, <1>5
<1>7. ASSUME NEW i \in 1 .. Len(next) PROVE \E r \in Nat : i <= r /\ <<next[i].node, r>> \in B
  <2>1. CASE i \in 1 .. k - 1
    <3>1. i \in 1 .. k
      BY <1>1, <2>1
    <3>. QED BY <1>1, <2>1, <3>1 DEF Lower
  <2>2. CASE i \notin 1 .. k - 1
    <3>. DEFINE j == i - (k - 1)
    <3>1. j \in 1 .. Len(kids) /\ i = (k - 1) + j
      BY <1>1, <2>2
    <3>2. next[i] = Below(Peek, kids[j])
      BY <1>1, <3>1
    <3>. HIDE DEF j
    <3>3. PICK m \in 1 .. Len(all) : j <= m /\ kids[j] = all[m]
      BY <3>1 DEF Keeps
    <3>4. <<all[m].child, p + m - 1>> \in B
      <4>1. Seen(B, <<>>, all[m].child, p + m - 1)
        BY <1>5
      <4>. QED BY <4>1 DEF Seen
    <3>5. p + m - 1 \in Nat /\ i <= p + m - 1
      BY <1>1, <1>3, <1>4, <3>1, <3>3
    <3>6. next[i].node = all[m].child
      BY <3>2, <3>3 DEF Below
    <3>. QED BY <3>4, <3>5, <3>6
  <2>. QED BY <2>1, <2>2
<1>. QED BY <1>6, <1>7 DEF Lower, next

----------------------------------------------------------------------------
(* The invariant.                                                           *)

(* The rest of the records is sorted and comes after the last one inserted. *)
InsertOK ==
    /\ pairs \in Seq(UNION Vocabulary)
    /\ \A i \in 1 .. Len(pairs) : LexLess(build.prev, pairs[i])
    /\ \A i, j \in 1 .. Len(pairs) : i < j => LexLess(pairs[i], pairs[j])
    /\ stack = <<>> /\ state = EngineState /\ \A q \in EngineState : rows[q] = {}

(* The row that is being filled.                                            *)
Working(q) == phase = "walk" /\ stack # <<>> /\ stack[1].row = q

RowsOK(L) ==
    /\ \A q \in state : rows[q] = {}
    /\ \A q \in EngineState \ state : Working(q) \/ rows[q] = RowFor(L, q)
    /\ phase = "walk" /\ stack # <<>> =>
          \E D : WalkOK(L, D, stack[1].row, stack, rows[stack[1].row]) /\ stack[1].row \notin state
    /\ phase = "fill" => stack = <<>>

FuelOK ==
    /\ phase = "measure" =>
          /\ stack \in Seq(Node) /\ Len(stack) <= trie.frontier
          /\ \E B : Covered(B, stack, trie.children, trie.frontier)
    /\ phase \in {"fill", "walk"} =>
          \E B : /\ Covered(B, <<>>, trie.children, trie.frontier)
                 /\ phase = "walk" => Lower(B, stack)

LoopOK(L) ==
    /\ BuildOK(L, build)
    /\ phase = "insert" => InsertOK
    /\ phase # "insert" => EdgesOK(L) /\ TokensOK /\ TrieIsRecord /\ RowsOK(L) /\ FuelOK

VocabInv ==
    /\ \E raw \in RawAutomaton : engine = Materialize(raw)
    /\ phase \in {"insert", "measure", "fill", "walk"}
    /\ MemoOK(memo)
    /\ state \subseteq EngineState
    /\ rows = [q \in EngineState |-> rows[q]]
    /\ \E L : LoopOK(L)

LEMMA InitOK == Init => VocabInv
<1>. SUFFICES ASSUME Init PROVE VocabInv
  OBVIOUS
<1>1. PICK v \in Vocabulary : pairs \in Prepared(v)
  BY DEF Init
<1>2. /\ build = [path |-> <<0>>, prev |-> <<>>, edges |-> <<>>, leaves |-> <<>>, nodes |-> 1]
      /\ phase = "insert" /\ stack = <<>> /\ state = EngineState /\ rows = [q \in EngineState |-> {}]
      /\ memo = [generation |-> [c \in Class |-> 0], value |-> [c \in Class |-> Dead], current |-> 0]
  BY DEF Init
<1>3. IsFiniteSet(v) /\ v \subseteq Seq(Byte) /\ <<>> \notin v /\ v \subseteq UNION Vocabulary
  BY VocabularyAssumption
<1>4. /\ pairs \in [1 .. Cardinality(v) -> v] /\ Cardinality(v) \in Nat
      /\ \A i, j \in DOMAIN pairs : i < j => LexLess(pairs[i], pairs[j])
  BY <1>1, <1>3, FS_CardinalityType DEF Prepared
<1>5. pairs \in Seq(v) /\ Len(pairs) = Cardinality(v) /\ DOMAIN pairs = 1 .. Len(pairs)
  BY <1>4
<1>6. ASSUME NEW i \in 1 .. Len(pairs) PROVE pairs[i] \in UNION Vocabulary /\ LexLess(build.prev, pairs[i])
  <2>1. pairs[i] \in v
    BY <1>4, <1>5
  <2>2. pairs[i] \in Seq(Byte) /\ pairs[i] # <<>>
    BY <1>3, <2>1
  <2>3. 0 < Len(pairs[i]) /\ SubSeq(pairs[i], 1, 0) = <<>>
    <3>1. Len(pairs[i]) \in Nat /\ Len(pairs[i]) # 0
      BY <2>2, EmptySeq, LenProperties
    <3>. QED BY <2>2, <3>1
  <2>4. build.prev = <<>> /\ Len(<<>>) = 0 /\ 0 \in 0 .. 0
    BY <1>2
  <2>. QED BY <1>3, <2>1, <2>3, <2>4 DEF LexLess
<1>7. InsertOK
  <2>1. pairs \in Seq(UNION Vocabulary)
    BY <1>3, <1>5, <1>6
  <2>. QED BY <1>2, <1>4, <1>5, <1>6, <2>1 DEF InsertOK
<1>. DEFINE L == [n \in {0} |-> <<>>]
<1>8. BuildOK(L, build)
  <2>1. /\ build.nodes = 1 /\ build.prev = <<>> /\ build.path = <<0>> /\ build.edges = <<>> /\ build.leaves = <<>>
        /\ NodesOf(build) = {0}
    BY <1>2 DEF NodesOf
  <2>2. Labelled(L, build)
    BY <2>1 DEF Labelled
  <2>3. LeavesOK(L, build)
    BY <2>1 DEF LeavesOK
  <2>4. PathOK(L, build)
    <3>1. Len(<<0>>) = 1 /\ <<0>>[1] = 0 /\ <<0>> \in Seq({0}) /\ L[0] = <<>> /\ <<>> \in Seq(Byte)
          /\ SubSeq(<<>>, 1, 0) = <<>> /\ Len(<<>>) = 0
      OBVIOUS
    <3>2. \A i \in 1 .. 1 : L[<<0>>[i]] = SubSeq(<<>>, 1, i - 1)
      BY <3>1
    <3>. HIDE DEF L
    <3>. QED BY <2>1, <3>1, <3>2 DEF PathOK
  <2>. QED BY <2>2, <2>3, <2>4 DEF BuildOK
<1>9. MemoOK(memo)
  BY <1>2, MemoAssumption DEF MemoOK, EngineState
<1>10. LoopOK(L)
  <2>. HIDE DEF L
  <2>. QED BY <1>2, <1>7, <1>8 DEF LoopOK
<1>11. \E raw \in RawAutomaton : engine = Materialize(raw)
  BY DEF Init
<1>. QED BY <1>2, <1>9, <1>10, <1>11 DEF VocabInv

LEMMA InsertKeeps ==
    ASSUME VocabInv, Insert
    PROVE  VocabInv'
<1>1. PICK L : LoopOK(L)
  BY DEF VocabInv
<1>2. /\ phase = "insert" /\ pairs # <<>> /\ pairs' = Tail(pairs) /\ build' = Inserted(build, Head(pairs))
      /\ UNCHANGED <<engine, trie, phase, stack, memo, state, rows>>
  BY DEF Insert
<1>3. InsertOK /\ BuildOK(L, build)
  BY <1>1, <1>2 DEF LoopOK
<1>. DEFINE bytes == Head(pairs)
            X == UNION Vocabulary
<1>4. /\ pairs \in Seq(X) /\ Len(pairs) \in Nat \ {0} /\ bytes = pairs[1] /\ bytes \in X
      /\ Tail(pairs) \in Seq(X) /\ Len(Tail(pairs)) = Len(pairs) - 1
      /\ \A i \in 1 .. Len(pairs) - 1 : Tail(pairs)[i] = pairs[i + 1]
  <2>1. pairs \in Seq(X)
    BY <1>3 DEF InsertOK
  <2>. HIDE DEF X
  <2>2. Len(pairs) \in Nat /\ Len(pairs) # 0
    BY <1>2, <2>1, EmptySeq, LenProperties
  <2>. QED BY <1>2, <2>1, <2>2
<1>. HIDE DEF X
<1>5. LexLess(build.prev, bytes)
  BY <1>3, <1>4 DEF InsertOK
<1>6. PICK M : BuildOK(M, build')
  BY <1>2, <1>3, <1>4, <1>5, InsertedOK DEF X
<1>7. build'.prev = bytes
  BY <1>2 DEF Inserted
<1>. HIDE DEF bytes
<1>8. InsertOK'
  <2>1. ASSUME NEW i \in 1 .. Len(pairs') PROVE LexLess(build'.prev, pairs'[i])
    <3>1. pairs'[i] = pairs[i + 1] /\ 1 \in 1 .. Len(pairs) /\ i + 1 \in 1 .. Len(pairs) /\ 1 < i + 1
      BY <1>2, <1>4
    <3>. QED BY <1>3, <1>4, <1>7, <3>1 DEF InsertOK
  <2>2. ASSUME NEW i \in 1 .. Len(pairs'), NEW j \in 1 .. Len(pairs'), i < j PROVE LexLess(pairs'[i], pairs'[j])
    <3>1. /\ pairs'[i] = pairs[i + 1] /\ pairs'[j] = pairs[j + 1]
          /\ i + 1 \in 1 .. Len(pairs) /\ j + 1 \in 1 .. Len(pairs) /\ i + 1 < j + 1
      BY <1>2, <1>4, <2>2
    <3>. QED BY <1>3, <3>1 DEF InsertOK
  <2>3. stack' = <<>> /\ state' = EngineState /\ \A q \in EngineState : rows'[q] = {}
    BY <1>2, <1>3 DEF InsertOK
  <2>. QED BY <1>2, <1>4, <2>1, <2>2, <2>3 DEF InsertOK, X
<1>9. LoopOK(M)'
  BY <1>2, <1>6, <1>8 DEF LoopOK
<1>. QED BY <1>2, <1>9 DEF VocabInv

LEMMA FlattenKeeps ==
    ASSUME VocabInv, Flatten
    PROVE  VocabInv'
<1>1. PICK L : LoopOK(L)
  BY DEF VocabInv
<1>2. phase = "insert" /\ UNCHANGED <<engine, pairs, build, memo, state, rows>>
  BY DEF Flatten
<1>3. BuildOK(L, build) /\ InsertOK
  BY <1>1, <1>2 DEF LoopOK
<1>4. /\ phase' = "measure" /\ stack' = <<0>> /\ trie'.frontier = 1 /\ EdgesOK(L)' /\ TokensOK'
      /\ trie' = [children |-> trie'.children, tokens |-> trie'.tokens, frontier |-> trie'.frontier]
  BY <1>3, FlattenedOK
<1>5. TrieIsRecord'
  BY <1>4 DEF TrieIsRecord
<1>6. RowsOK(L)'
  BY <1>2, <1>3, <1>4 DEF RowsOK, InsertOK
<1>7. FuelOK'
  <2>1. <<0>> \in Seq(Node') /\ Len(<<0>>) = 1 /\ <<0>>[1] = 0
    <3>1. 0 \in Node'
      BY <1>2, <1>3 DEF Node, BuildOK, Labelled
    <3>. QED BY <3>1
  <2>2. Covered({}, stack', trie'.children, trie'.frontier)
    BY <1>4, <2>1 DEF Covered, Seen
  <2>. QED BY <1>4, <2>1, <2>2 DEF FuelOK
<1>8. LoopOK(L)'
  BY <1>2, <1>3, <1>4, <1>5, <1>6, <1>7 DEF LoopOK
<1>. QED BY <1>2, <1>4, <1>8 DEF VocabInv

(* What does not change with the stack, the rows and the states to do.      *)
LEMMA TrieKept ==
    ASSUME NEW L, EdgesOK(L), TokensOK, UNCHANGED build,
           trie'.children = trie.children, trie'.tokens = trie.tokens
    PROVE  EdgesOK(L)' /\ TokensOK'
<1>1. Node' = Node /\ EdgeOf(build)' = EdgeOf(build) /\ LeafCount' = LeafCount /\ \A i : LeafNode(i)' = LeafNode(i)
  BY DEF Node, EdgeOf, NodesOf, LeafCount, LeafNode
<1>2. EdgesOK(L)'
  BY <1>1 DEF EdgesOK
<1>3. TokensOK'
  BY <1>1 DEF TokensOK
<1>. QED BY <1>2, <1>3

LEMMA RowForKept ==
    ASSUME NEW L, UNCHANGED <<engine, build>>, trie'.tokens = trie.tokens
    PROVE  \A q : RowFor(L, q)' = RowFor(L, q)
  BY DEF RowFor, Alive, Node

LEMMA MeasureKeeps ==
    ASSUME VocabInv, Measure
    PROVE  VocabInv'
<1>1. PICK L : LoopOK(L)
  BY DEF VocabInv
<1>2. phase = "measure" /\ UNCHANGED <<engine, pairs, build, phase, memo, state, rows>>
  BY DEF Measure
<1>3. BuildOK(L, build) /\ EdgesOK(L) /\ TokensOK /\ TrieIsRecord /\ RowsOK(L) /\ FuelOK
  BY <1>1, <1>2 DEF LoopOK
<1>4. /\ stack \in Seq(Node) /\ Len(stack) <= trie.frontier
      /\ \E B : Covered(B, stack, trie.children, trie.frontier)
  BY <1>2, <1>3 DEF FuelOK
<1>5. PICK B : Covered(B, stack, trie.children, trie.frontier)
  BY <1>4
<1>6. /\ stack' \in Seq(Node) /\ Len(stack') <= trie'.frontier /\ TrieIsRecord'
      /\ Covered(B \cup {<<Peek, Len(stack)>>}, stack', trie'.children, trie'.frontier)
      /\ trie'.children = trie.children /\ trie'.tokens = trie.tokens
  BY <1>3, <1>4, <1>5, MeasureCovers
<1>7. EdgesOK(L)' /\ TokensOK'
  BY <1>2, <1>3, <1>6, TrieKept
<1>8. RowsOK(L)'
  <2>1. \A q : RowFor(L, q)' = RowFor(L, q)
    BY <1>2, <1>6, RowForKept
  <2>2. \A q \in EngineState \ state : rows[q] = RowFor(L, q)
    BY <1>2, <1>3 DEF RowsOK, Working
  <2>. QED BY <1>2, <1>3, <2>1, <2>2 DEF RowsOK
<1>9. FuelOK'
  <2>1. Node' = Node
    BY <1>2 DEF Node
  <2>2. \E C : Covered(C, stack', trie'.children, trie'.frontier)
    BY <1>6
  <2>. QED BY <1>2, <1>6, <2>1, <2>2 DEF FuelOK
<1>10. LoopOK(L)'
  BY <1>2, <1>3, <1>6, <1>7, <1>8, <1>9 DEF LoopOK
<1>. QED BY <1>2, <1>10 DEF VocabInv

LEMMA MeasuredKeeps ==
    ASSUME VocabInv, Measured
    PROVE  VocabInv'
<1>1. PICK L : LoopOK(L)
  BY DEF VocabInv
<1>2. /\ phase = "measure" /\ stack = <<>> /\ phase' = "fill"
      /\ UNCHANGED <<engine, pairs, build, trie, stack, memo, state, rows>>
  BY DEF Measured
<1>3. BuildOK(L, build) /\ EdgesOK(L) /\ TokensOK /\ TrieIsRecord /\ RowsOK(L) /\ FuelOK
  BY <1>1, <1>2 DEF LoopOK
<1>4. EdgesOK(L)' /\ TokensOK' /\ TrieIsRecord'
  BY <1>2, <1>3, TrieKept DEF TrieIsRecord
<1>5. RowsOK(L)'
  <2>1. \A q : RowFor(L, q)' = RowFor(L, q)
    BY <1>2, RowForKept
  <2>. QED BY <1>2, <1>3, <2>1 DEF RowsOK, Working
<1>6. FuelOK'
  <2>1. \E B : Covered(B, <<>>, trie.children, trie.frontier)
    BY <1>2, <1>3 DEF FuelOK
  <2>. QED BY <1>2, <2>1 DEF FuelOK
<1>7. LoopOK(L)'
  BY <1>2, <1>3, <1>4, <1>5, <1>6 DEF LoopOK
<1>. QED BY <1>2, <1>7 DEF VocabInv

(* A row is begun at the root.                                              *)
LEMMA BeginKeeps ==
    ASSUME VocabInv, BeginRow
    PROVE  VocabInv'
<1>1. PICK L : LoopOK(L)
  BY DEF VocabInv
<1>2. /\ phase = "fill" /\ stack = <<>> /\ phase' = "walk"
      /\ UNCHANGED <<engine, pairs, build, trie, memo, rows>>
  BY DEF BeginRow
<1>3. PICK s \in state : state' = state \ {s} /\ stack' = <<[row |-> s, node |-> 0, at |-> s]>>
  BY DEF BeginRow
<1>4. BuildOK(L, build) /\ EdgesOK(L) /\ TokensOK /\ TrieIsRecord /\ RowsOK(L) /\ FuelOK /\ EngineOK(engine)
  BY <1>1, <1>2, MaterializedOK DEF LoopOK, VocabInv
<1>5. EdgesOK(L)' /\ TokensOK' /\ TrieIsRecord'
  BY <1>2, <1>4, TrieKept DEF TrieIsRecord
<1>. DEFINE f == [row |-> s, node |-> 0, at |-> s]
<1>6. s \in EngineState /\ f \in Frame /\ f.row = s /\ f.node = 0 /\ f.at = s
  <2>1. s \in EngineState /\ 0 \in Node
    BY <1>4 DEF VocabInv, EdgesOK, Node
  <2>. QED BY <2>1 DEF Frame
<1>. HIDE DEF f
<1>7. stack' \in Seq(Frame) /\ Len(stack') = 1 /\ stack'[1] = f /\ stack' # <<>>
  <2>1. stack' = <<f>>
    BY <1>3 DEF f
  <2>. HIDE DEF Frame
  <2>. QED BY <1>6, <2>1
<1>8. s = ConsumeToken(engine, s, L[0])
  <2>1. 0 \in Node
    BY <1>4 DEF EdgesOK, Node
  <2>2. L[0] \in Seq(Byte) /\ Len(L[0]) = 0
    BY <1>4, <2>1 DEF EdgesOK
  <2>. QED BY <1>4, <1>6, <2>2, ConsumeEmpty
<1>9. rows[s] = {}
  BY <1>3, <1>4 DEF RowsOK
<1>10. WalkOK(L, {}, s, stack', rows'[s])
  <2>1. \A i \in 1 .. Len(stack') : i = 1
    BY <1>7
  <2>2. Pending(stack', 0)
    BY <1>6, <1>7 DEF Pending
  <2>. QED BY <1>2, <1>6, <1>7, <1>8, <1>9, <2>1, <2>2 DEF WalkOK
<1>11. WalkOK(L, {}, stack[1].row, stack, rows[stack[1].row])'
  <2>1. stack'[1].row = s
    BY <1>6, <1>7
  <2>. QED BY <1>2, <1>10, <2>1 DEF WalkOK, RowFor, Alive, Pending, Frame, Node
<1>12. RowsOK(L)'
  <2>1. \A q : RowFor(L, q)' = RowFor(L, q)
    BY <1>2, RowForKept
  <2>2. stack'[1].row = s /\ s \notin state'
    BY <1>3, <1>6, <1>7
  <2>3. \A q \in EngineState \ state : rows[q] = RowFor(L, q)
    BY <1>2, <1>4 DEF RowsOK, Working
  <2>4. ASSUME NEW q \in EngineState \ state' PROVE Working(q)' \/ rows'[q] = RowFor(L, q)'
    BY <1>2, <1>3, <1>7, <2>1, <2>2, <2>3 DEF Working
  <2>5. \A q \in state' : rows'[q] = {}
    BY <1>2, <1>3, <1>4 DEF RowsOK
  <2>. QED BY <1>2, <1>11, <2>2, <2>4, <2>5 DEF RowsOK
<1>13. FuelOK'
  <2>1. PICK B : Covered(B, <<>>, trie.children, trie.frontier)
    BY <1>2, <1>4 DEF FuelOK
  <2>2. <<0, 1>> \in B
    BY <2>1 DEF Covered, Seen
  <2>3. Lower(B, stack')
    BY <1>6, <1>7, <2>2 DEF Lower
  <2>. QED BY <1>2, <2>1, <2>3 DEF FuelOK
<1>14. LoopOK(L)'
  BY <1>2, <1>4, <1>5, <1>12, <1>13 DEF LoopOK
<1>. QED BY <1>2, <1>3, <1>14 DEF VocabInv

(* What a step of the walk for row q does to the rows.                      *)
LEMMA WalkMoves ==
    ASSUME NEW L, EngineOK(engine), EdgesOK(L), RowsOK(L), NEW q, Working(q), q \notin state,
           NEW D, WalkOK(L, D, q, stack', rows'[q]), \A r \in EngineState : r # q => rows'[r] = rows[r],
           phase' = "walk", UNCHANGED <<engine, build, trie, state>>, state \subseteq EngineState
    PROVE  RowsOK(L)'
<1>1. \A r : RowFor(L, r)' = RowFor(L, r)
  BY RowForKept
<1>2. \A r \in EngineState \ state : r # q => rows'[r] = RowFor(L, r)
  BY DEF RowsOK, Working
<1>3. \A r \in state' : rows'[r] = {}
  BY DEF RowsOK
<1>4. CASE stack' = <<>>
  <2>1. rows'[q] = RowFor(L, q)
    <3>1. Len(stack') = 0
      BY <1>4
    <3>. QED BY <3>1, RowFinished
  <2>. QED BY <1>1, <1>2, <1>3, <1>4, <2>1 DEF RowsOK
<1>5. CASE stack' # <<>>
  <2>1. stack'[1].row = q
    <3>1. stack' \in Seq(Frame) /\ \A i \in 1 .. Len(stack') : stack'[i].row = q
      BY DEF WalkOK
    <3>2. Len(stack') \in Nat /\ Len(stack') # 0
      BY <1>5, <3>1, EmptySeq, LenProperties
    <3>3. 1 \in 1 .. Len(stack')
      BY <3>2
    <3>. QED BY <3>1, <3>3
  <2>2. WalkOK(L, D, stack[1].row, stack, rows[stack[1].row])'
    BY <2>1 DEF WalkOK, RowFor, Alive, Pending, Frame, Node
  <2>3. ASSUME NEW r \in EngineState \ state' PROVE Working(r)' \/ rows'[r] = RowFor(L, r)'
    BY <1>1, <1>2, <1>5, <2>1 DEF Working
  <2>. QED BY <1>3, <2>1, <2>2, <2>3 DEF RowsOK
<1>. QED BY <1>4, <1>5

LEMMA SkipKeeps ==
    ASSUME VocabInv, SkipDead
    PROVE  VocabInv'
<1>1. PICK L : LoopOK(L)
  BY DEF VocabInv
<1>2. /\ phase = "walk" /\ stack # <<>> /\ Peek.at = Dead /\ stack' = Popped
      /\ UNCHANGED <<engine, pairs, build, trie, phase, memo, state, rows>>
  BY DEF SkipDead
<1>3. BuildOK(L, build) /\ EdgesOK(L) /\ TokensOK /\ TrieIsRecord /\ RowsOK(L) /\ FuelOK /\ EngineOK(engine)
  BY <1>1, <1>2, MaterializedOK DEF LoopOK, VocabInv
<1>4. EdgesOK(L)' /\ TokensOK' /\ TrieIsRecord'
  BY <1>2, <1>3, TrieKept DEF TrieIsRecord
<1>. DEFINE q == stack[1].row
<1>5. PICK D : WalkOK(L, D, q, stack, rows[q]) /\ q \notin state
  BY <1>2, <1>3 DEF RowsOK
<1>. HIDE DEF q
<1>6. WalkOK(L, D, q, stack', rows'[q])
  BY <1>2, <1>3, <1>5, SkipWalks
<1>7. RowsOK(L)'
  <2>1. Working(q)
    BY <1>2 DEF Working, q
  <2>. QED BY <1>2, <1>3, <1>5, <1>6, <2>1, WalkMoves DEF VocabInv
<1>8. FuelOK'
  <2>1. PICK B : Covered(B, <<>>, trie.children, trie.frontier) /\ Lower(B, stack)
    BY <1>2, <1>3 DEF FuelOK
  <2>2. /\ Len(stack) \in Nat \ {0} /\ Len(Popped) = Len(stack) - 1
        /\ \A i \in 1 .. Len(stack) - 1 : Popped[i] = stack[i]
    <3>1. stack \in Seq(Frame)
      BY <1>5 DEF WalkOK
    <3>. QED BY <1>2, <3>1, PoppedStack
  <2>3. Lower(B, stack')
    BY <1>2, <2>1, <2>2 DEF Lower
  <2>. QED BY <1>2, <2>1, <2>3 DEF FuelOK
<1>9. LoopOK(L)'
  BY <1>2, <1>3, <1>4, <1>7, <1>8 DEF LoopOK
<1>. QED BY <1>2, <1>9 DEF VocabInv

LEMMA VisitKeeps ==
    ASSUME VocabInv, Visit
    PROVE  VocabInv'
<1>1. PICK L : LoopOK(L)
  BY DEF VocabInv
<1>2. phase = "walk" /\ stack # <<>>
  BY DEF Visit
<1>3. /\ BuildOK(L, build) /\ EdgesOK(L) /\ TokensOK /\ TrieIsRecord /\ RowsOK(L) /\ FuelOK
      /\ EngineOK(engine) /\ MemoOK(memo)
  BY <1>1, <1>2, MaterializedOK DEF LoopOK, VocabInv
<1>. DEFINE q == stack[1].row
<1>4. PICK D : WalkOK(L, D, q, stack, rows[q]) /\ q \notin state
  BY <1>2, <1>3 DEF RowsOK
<1>. HIDE DEF q
<1>5. stack \in Seq(Frame) /\ q \in EngineState
  BY <1>4 DEF WalkOK
<1>6. /\ Peek \in Frame /\ Peek.at # Dead /\ MemoOK(memo')
      /\ rows' = [rows EXCEPT ![Peek.row] = @ \cup trie.tokens[Peek.node]]
      /\ \E kids \in Seq(EdgeOf(build)) :
            /\ Keeps(kids, trie.children[Peek.node], LiveEdges(Peek), Len(trie.children[Peek.node]))
            /\ VisitPushes(kids)
      /\ UNCHANGED <<engine, pairs, build, trie, state>>
  BY <1>3, <1>5, VisitStep
<1>7. PICK kids \in Seq(EdgeOf(build)) :
            /\ Keeps(kids, trie.children[Peek.node], LiveEdges(Peek), Len(trie.children[Peek.node]))
            /\ VisitPushes(kids)
  BY <1>6
<1>8. PICK B : Covered(B, <<>>, trie.children, trie.frontier) /\ Lower(B, stack)
  BY <1>2, <1>3 DEF FuelOK
<1>9. Len(Pushed(kids)) <= trie.frontier /\ Lower(B, Pushed(kids))
  BY <1>2, <1>3, <1>5, <1>7, <1>8, VisitFuel
<1>10. stack' = Pushed(kids) /\ phase' = "walk"
  <2>1. Len(Pushed(kids)) \in Nat /\ trie.frontier \in Nat
    <3>1. Len(stack) \in Nat \ {0} /\ Len(kids) \in Nat /\ Len(Pushed(kids)) = (Len(stack) - 1) + Len(kids)
      BY <1>2, <1>3, <1>5, <1>7, PushedKids
    <3>. QED BY <1>3, <3>1 DEF TrieIsRecord
  <2>2. ~ (Len(Pushed(kids)) > trie.frontier)
    BY <1>9, <2>1
  <2>. QED BY <1>2, <1>7, <2>2 DEF VisitPushes
<1>11. Peek.row = q
  <2>1. Len(stack) \in Nat /\ Len(stack) # 0
    BY <1>2, <1>5, EmptySeq, LenProperties
  <2>2. Len(stack) \in 1 .. Len(stack)
    BY <2>1
  <2>. QED BY <1>4, <2>2 DEF WalkOK, Peek
<1>12. /\ rows' = [r \in EngineState |-> rows'[r]]
       /\ rows'[q] = rows[q] \cup trie.tokens[Peek.node]
       /\ \A r \in EngineState : r # q => rows'[r] = rows[r]
  <2>1. rows = [r \in EngineState |-> rows[r]]
    BY DEF VocabInv
  <2>. QED BY <1>5, <1>6, <1>11, <2>1
<1>13. WalkOK(L, D \cup {Peek.node}, q, stack', rows'[q])
  BY <1>2, <1>3, <1>4, <1>6, <1>7, <1>10, <1>12, VisitWalks
<1>14. RowsOK(L)'
  <2>1. Working(q)
    BY <1>2 DEF Working, q
  <2>2. \E E : WalkOK(L, E, q, stack', rows'[q])
    BY <1>13
  <2>. QED BY <1>3, <1>4, <1>6, <1>10, <1>12, <2>1, <2>2, WalkMoves DEF VocabInv
<1>15. EdgesOK(L)' /\ TokensOK' /\ TrieIsRecord'
  BY <1>3, <1>6, TrieKept DEF TrieIsRecord
<1>16. FuelOK'
  BY <1>6, <1>8, <1>9, <1>10 DEF FuelOK
<1>17. LoopOK(L)'
  BY <1>3, <1>6, <1>10, <1>14, <1>15, <1>16 DEF LoopOK
<1>. QED BY <1>6, <1>10, <1>12, <1>17 DEF VocabInv

LEMMA EndKeeps ==
    ASSUME VocabInv, EndRow
    PROVE  VocabInv'
<1>1. PICK L : LoopOK(L)
  BY DEF VocabInv
<1>2. /\ phase = "walk" /\ stack = <<>> /\ phase' = "fill"
      /\ UNCHANGED <<engine, pairs, build, trie, stack, memo, state, rows>>
  BY DEF EndRow
<1>3. BuildOK(L, build) /\ EdgesOK(L) /\ TokensOK /\ TrieIsRecord /\ RowsOK(L) /\ FuelOK
  BY <1>1, <1>2 DEF LoopOK
<1>4. EdgesOK(L)' /\ TokensOK' /\ TrieIsRecord'
  BY <1>2, <1>3, TrieKept DEF TrieIsRecord
<1>5. RowsOK(L)'
  <2>1. \A q : RowFor(L, q)' = RowFor(L, q)
    BY <1>2, RowForKept
  <2>. QED BY <1>2, <1>3, <2>1 DEF RowsOK, Working
<1>6. FuelOK'
  BY <1>2, <1>3 DEF FuelOK
<1>7. LoopOK(L)'
  BY <1>2, <1>3, <1>4, <1>5, <1>6 DEF LoopOK
<1>. QED BY <1>2, <1>7 DEF VocabInv

LEMMA StepKeeps == VocabInv /\ [Next]_vars => VocabInv'
<1>. SUFFICES ASSUME VocabInv, [Next]_vars PROVE VocabInv'
  OBVIOUS
<1>1. CASE UNCHANGED vars
  <2>1. PICK L : LoopOK(L)
    BY DEF VocabInv
  <2>2. UNCHANGED <<engine, pairs, build, trie, phase, stack, memo, state, rows>>
    BY <1>1 DEF vars
  <2>3. LoopOK(L)'
    <3>1. InsertOK => InsertOK'
      BY <2>2 DEF InsertOK
    <3>2. EdgesOK(L) /\ TokensOK => EdgesOK(L)' /\ TokensOK'
      BY <2>2, TrieKept
    <3>3. TrieIsRecord => TrieIsRecord'
      BY <2>2 DEF TrieIsRecord
    <3>4. FuelOK => FuelOK'
      BY <2>2 DEF FuelOK, Node
    <3>5. RowsOK(L) => RowsOK(L)'
      <4>1. \A q : RowFor(L, q)' = RowFor(L, q)
        BY <2>2, RowForKept
      <4>2. ASSUME NEW D, WalkOK(L, D, stack[1].row, stack, rows[stack[1].row])
            PROVE  WalkOK(L, D, stack[1].row, stack, rows[stack[1].row])'
        BY <2>2, <4>2 DEF WalkOK, RowFor, Alive, Pending, Frame, Node
      <4>. QED BY <2>2, <4>1, <4>2 DEF RowsOK, Working
    <3>6. BuildOK(L, build)'
      BY <2>1, <2>2 DEF LoopOK
    <3>. QED BY <2>1, <2>2, <3>1, <3>2, <3>3, <3>4, <3>5, <3>6 DEF LoopOK
  <2>. QED BY <2>2, <2>3 DEF VocabInv
<1>2. CASE Insert
  BY <1>2, InsertKeeps
<1>3. CASE Flatten
  BY <1>3, FlattenKeeps
<1>4. CASE Measure
  BY <1>4, MeasureKeeps
<1>5. CASE Measured
  BY <1>5, MeasuredKeeps
<1>6. CASE BeginRow
  BY <1>6, BeginKeeps
<1>7. CASE SkipDead
  BY <1>7, SkipKeeps
<1>8. CASE Visit
  BY <1>8, VisitKeeps
<1>9. CASE EndRow
  BY <1>9, EndKeeps
<1>10. CASE Done
  BY <1>1, <1>10 DEF Done
<1>. QED BY <1>1, <1>2, <1>3, <1>4, <1>5, <1>6, <1>7, <1>8, <1>9, <1>10 DEF Next

----------------------------------------------------------------------------
(* What the rows hold.                                                      *)

(* Ids say which record they belong to.                                     *)
LEMMA SharedId ==
    ASSUME NEW r \in UNION Vocabulary, NEW s \in UNION Vocabulary, NEW t, t \in Ids[r], t \in Ids[s]
    PROVE  r = s
  BY IdsAssumption

(* A record that was inserted is the label of its node.                     *)
LEMMA TokenLabels ==
    ASSUME NEW L, BuildOK(L, build), TokensOK, NEW s \in UNION Vocabulary
    PROVE  s \in TokenString <=> \E n \in Node : L[n] = s /\ trie.tokens[n] = Ids[s]
<1>1. /\ LeafCount \in Nat
      /\ \A i \in 1 .. LeafCount :
            /\ LeafNode(i) \in Node /\ L[LeafNode(i)] \in UNION Vocabulary
            /\ build.leaves[i].ids = Ids[L[LeafNode(i)]]
  <2>. DEFINE R == [node : NodesOf(build), ids : {Ids[r] : r \in UNION Vocabulary}]
  <2>1. build.leaves \in Seq(R)
    BY DEF BuildOK, LeavesOK
  <2>2. LeafCount \in Nat /\ \A i \in 1 .. LeafCount : build.leaves[i] \in R
    <3>. HIDE DEF R
    <3>. QED BY <2>1, LenProperties, ElementOfSeq DEF LeafCount
  <2>3. \A i \in 1 .. LeafCount : LeafNode(i) \in Node
    BY <2>2 DEF LeafNode, NodesOf, Node
  <2>. QED BY <2>2, <2>3 DEF BuildOK, LeavesOK, LeafNode, LeafCount
<1>2. PICK t : t \in Ids[s]
  BY IdsAssumption
<1>3. ASSUME s \in TokenString PROVE \E n \in Node : L[n] = s /\ trie.tokens[n] = Ids[s]
  <2>1. PICK i \in 1 .. LeafCount : build.leaves[i].ids = Ids[s]
    BY <1>3 DEF TokenString, LeafCount
  <2>2. L[LeafNode(i)] = s
    BY <1>1, <1>2, <2>1, SharedId
  <2>. QED BY <1>1, <2>1, <2>2 DEF TokensOK
<1>4. ASSUME NEW n \in Node, L[n] = s, trie.tokens[n] = Ids[s] PROVE s \in TokenString
  <2>1. PICK i \in 1 .. LeafCount : LeafNode(i) = n
    BY <1>2, <1>4 DEF TokensOK
  <2>2. build.leaves[i].ids = Ids[s]
    BY <1>1, <1>4, <2>1
  <2>. QED BY <2>2 DEF TokenString, LeafCount
<1>. QED BY <1>3, <1>4

(* A node with tokens is labelled by a record.                              *)
LEMMA NodeTokens ==
    ASSUME NEW L, BuildOK(L, build), TokensOK, NEW n \in Node, NEW t, t \in trie.tokens[n]
    PROVE  L[n] \in TokenString /\ trie.tokens[n] = Ids[L[n]]
<1>1. PICK i \in 1 .. LeafCount : LeafNode(i) = n
  BY DEF TokensOK
<1>2. /\ L[n] \in UNION Vocabulary /\ build.leaves[i].ids = Ids[L[n]]
  BY <1>1 DEF BuildOK, LeavesOK, LeafNode, LeafCount
<1>3. trie.tokens[n] = Ids[L[n]]
  BY <1>1, <1>2 DEF TokensOK
<1>. QED BY <1>2, <1>3, TokenLabels

(* The row of the nodes is the row of the records.                          *)
LEMMA RowIsNaive ==
    ASSUME NEW L, BuildOK(L, build), TokensOK, NEW q
    PROVE  RowFor(L, q) = UNION {Ids[s] : s \in {s \in TokenString : ConsumeToken(engine, q, s) # Dead}}
<1>. DEFINE naive == UNION {Ids[s] : s \in {s \in TokenString : ConsumeToken(engine, q, s) # Dead}}
<1>1. ASSUME NEW t \in RowFor(L, q) PROVE t \in naive
  <2>1. PICK n \in Node : Alive(L, q, n) /\ t \in trie.tokens[n]
    BY <1>1 DEF RowFor
  <2>2. L[n] \in TokenString /\ t \in Ids[L[n]]
    BY <2>1, NodeTokens
  <2>. QED BY <2>1, <2>2 DEF Alive
<1>2. ASSUME NEW t \in naive PROVE t \in RowFor(L, q)
  <2>1. PICK s \in TokenString : ConsumeToken(engine, q, s) # Dead /\ t \in Ids[s]
    BY <1>2
  <2>2. s \in UNION Vocabulary
    BY DEF TokenString
  <2>3. PICK n \in Node : L[n] = s /\ trie.tokens[n] = Ids[s]
    BY <2>2, TokenLabels
  <2>. QED BY <2>1, <2>3 DEF RowFor, Alive
<1>. QED BY <1>1, <1>2

----------------------------------------------------------------------------
LEMMA InvRows == VocabInv => RowsMatchNaive
<1>. SUFFICES ASSUME VocabInv, Built, NEW q \in EngineState,
                     q \notin state, stack = <<>> \/ phase # "walk" \/ stack[1].row # q
              PROVE  rows[q] = UNION {Ids[s] : s \in {s \in TokenString : ConsumeToken(engine, q, s) # Dead}}
  BY DEF RowsMatchNaive
<1>1. PICK L : LoopOK(L)
  BY DEF VocabInv
<1>2. phase # "insert"
  BY DEF Built
<1>3. BuildOK(L, build) /\ TokensOK /\ RowsOK(L)
  BY <1>1, <1>2 DEF LoopOK
<1>4. rows[q] = RowFor(L, q)
  BY <1>3 DEF RowsOK, Working
<1>. QED BY <1>3, <1>4, RowIsNaive

LEMMA InvCompletable == VocabInv => MaskIsCompletable
<1>. SUFFICES ASSUME VocabInv, phase = "fill", state = {}, NEW q \in EngineState, NEW s \in TokenString
              PROVE  Ids[s] \subseteq rows[q] <=> Completes(engine, ConsumeToken(engine, q, s), States)
  BY DEF MaskIsCompletable, Completes, States
<1>1. PICK raw \in RawAutomaton : engine = Materialize(raw)
  BY DEF VocabInv
<1>2. EngineOK(engine)
  BY <1>1, MaterializedOK
<1>3. s \in UNION Vocabulary /\ TokenString \subseteq UNION Vocabulary
  BY DEF TokenString
<1>4. rows[q] = UNION {Ids[r] : r \in {r \in TokenString : ConsumeToken(engine, q, r) # Dead}}
  BY InvRows DEF RowsMatchNaive, Built
<1>5. ASSUME Ids[s] \subseteq rows[q] PROVE Completes(engine, ConsumeToken(engine, q, s), States)
  <2>1. PICK t : t \in Ids[s]
    BY <1>3, IdsAssumption
  <2>2. PICK r \in TokenString : ConsumeToken(engine, q, r) # Dead /\ t \in Ids[r]
    BY <1>4, <1>5, <2>1
  <2>3. ConsumeToken(engine, q, s) # Dead
    BY <1>3, <2>1, <2>2, SharedId
  <2>4. s \in Seq(Byte) /\ Len(s) \in Nat \ {0}
    <3>1. s \in Seq(Byte) /\ s # <<>>
      BY <1>3, VocabularyAssumption
    <3>. QED BY <3>1, EmptySeq, LenProperties
  <2>5. PICK w \in Seq(Byte), b \in Byte : s = Append(w, b)
    <3>1. s # <<>>
      BY <2>4
    <3>. QED BY <2>4, <3>1, SequenceEmptyOrAppend
  <2>6. /\ ConsumeToken(engine, q, w) \in EngineState
        /\ ConsumeToken(engine, q, s) = Step(engine, ConsumeToken(engine, q, w), engine.classOf[b])
    BY <1>2, <2>5, ConsumeAppend
  <2>7. engine.classOf[b] \in Class
    BY <1>2 DEF EngineOK
  <2>. QED BY <1>1, <2>3, <2>6, <2>7, LiveCompletes
<1>6. ASSUME Completes(engine, ConsumeToken(engine, q, s), States) PROVE Ids[s] \subseteq rows[q]
  <2>1. ConsumeToken(engine, q, s) # Dead
    BY <1>1, <1>6, StatesType, DeadNeverCompletes
  <2>. QED BY <1>4, <2>1
<1>. QED BY <1>5, <1>6

LEMMA VocabInvariant == Spec => []VocabInv
  BY InitOK, StepKeeps, PTL DEF Spec

(* walk_live_subtree never runs out of the fuel compute_max_dfs_frontier    *)
(* measured, whatever is pruned: a node is never higher in the stack than   *)
(* it was in the measured walk.                                             *)
THEOREM TrieFuelSuffices == Spec => []FuelSuffices
<1>1. VocabInv => FuelSuffices
  BY DEF VocabInv, FuelSuffices
<1>. QED BY <1>1, VocabInvariant, PTL

(* A row that fill_packed_rows has finished holds exactly the tokens that   *)
(* consume_token accepts from its state, for any vocabulary and automaton.  *)
THEOREM TrieRowsMatchNaive == Spec => []RowsMatchNaive
  BY InvRows, VocabInvariant, PTL

(* A row holds exactly the tokens after which an accepting state can be     *)
(* reached: materialisation folds every other state into the sink, and the  *)
(* sink does not come back to life.                                         *)
THEOREM TrieMaskIsCompletable == Spec => []MaskIsCompletable
  BY InvCompletable, VocabInvariant, PTL

=============================================================================
