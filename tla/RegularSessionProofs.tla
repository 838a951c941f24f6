------------------------ MODULE RegularSessionProofs ------------------------
(***************************************************************************)
(* The sessions of the regular backend implement Decoder, proved for any   *)
(* automaton, vocabulary, number of sessions, row budget and gate limits.  *)
(*                                                                         *)
(* Three arguments meet.  Materialize: the backward closure is saturated   *)
(* in fewer rounds than there are states, so a state is kept iff some word *)
(* leads from it to acceptance, and a run of the engine is the run of the  *)
(* raw automaton with dead ends folded.  The rows: every query returns the *)
(* mask of the state it asked for (LazyRowsProofs).  The session: while a  *)
(* mask is pending the position it was asked for stays the session's own.  *)
(***************************************************************************)
EXTENDS RegularSession, WeightsProofs, SequenceTheorems

RowsProofs == INSTANCE LazyRowsProofs WITH State <- EngineState, MaskOf <- RowOf

----------------------------------------------------------------------------
(* Runs.                                                                    *)

(* What consume_token needs of an automaton.                                *)
EngineOK(e) ==
    /\ e.classOf \in [Byte -> Class]
    /\ \A q \in EngineState, c \in Class : Step(e, q, c) \in EngineState

(* Trail is the run of the engine.                                         *)
LEMMA TrailEquation ==
    ASSUME NEW e, EngineOK(e), NEW q \in EngineState, NEW w \in Seq(Byte)
    PROVE  /\ Trail(e, q, w) \in [0 .. Len(w) -> EngineState]
           /\ Trail(e, q, w)[0] = q
           /\ \A i \in 1 .. Len(w) : Trail(e, q, w)[i] = Step(e, Trail(e, q, w)[i - 1], e.classOf[w[i]])
<1>. DEFINE Eq(g) == g = [i \in 0 .. Len(w) |-> IF i = 0 THEN q ELSE Step(e, g[i - 1], e.classOf[w[i]])]
            F == [i \in 1 .. Len(w) |-> [p \in EngineState |-> Step(e, p, e.classOf[w[i]])]]
<1>1. Len(w) \in Nat /\ \A i \in 1 .. Len(w) : w[i] \in Byte
  OBVIOUS
<1>2. F \in [1 .. Len(w) -> [EngineState -> EngineState]]
  BY <1>1 DEF EngineOK
<1>3. PICK g \in [0 .. Len(w) -> EngineState] : Follows(g, q, Len(w), F)
  <2>. HIDE DEF F
  <2>. QED BY <1>1, <1>2, RecursionExists
<1>4. g[0] = q /\ \A i \in 1 .. Len(w) : g[i] = F[i][g[i - 1]]
  BY <1>3 DEF Follows
<1>5. ASSUME NEW i \in 1 .. Len(w) PROVE g[i] = Step(e, g[i - 1], e.classOf[w[i]])
  <2>1. i - 1 \in 0 .. Len(w) /\ g[i - 1] \in EngineState /\ g[i] = F[i][g[i - 1]]
    <3>. HIDE DEF F
    <3>. QED BY <1>1, <1>4
  <2>. QED BY <2>1
<1>6. Eq(g)
  BY <1>1, <1>4, <1>5
<1>7. Trail(e, q, w) = CHOOSE h : Eq(h)
  BY DEF Trail
<1>8. Eq(Trail(e, q, w))
  <2>. HIDE DEF Eq
  <2>. QED BY <1>6, <1>7, Zenon
<1>9. ASSUME NEW h, Eq(h) 
      PROVE  h \in [0 .. Len(w) -> EngineState] /\ h[0] = q
             /\ \A i \in 1 .. Len(w) : h[i] = Step(e, h[i - 1], e.classOf[w[i]])
  <2>1. DOMAIN h = 0 .. Len(w) /\ h = [i \in 0 .. Len(w) |-> h[i]]
    BY <1>9
  <2>2. h[0] = q /\ \A i \in 1 .. Len(w) : h[i] = Step(e, h[i - 1], e.classOf[w[i]])
    BY <1>1, <1>9
  <2>. DEFINE S == {i \in 0 .. Len(w) : h[i] \in EngineState}
  <2>3. 0 .. Len(w) \subseteq S
    <3>1. 0 \in S
      BY <1>1, <2>2
    <3>2. ASSUME NEW i \in 1 .. Len(w), i - 1 \in S PROVE i \in S
      BY <1>1, <2>2, <3>2 DEF EngineOK
    <3>. HIDE DEF S
    <3>. QED BY <1>1, <3>1, <3>2, SetInduction
  <2>. QED BY <2>1, <2>2, <2>3
<1>. QED
  <2>. HIDE DEF Eq
  <2>. QED BY <1>8, <1>9

LEMMA RawStepType ==
    ASSUME NEW q \in EngineState, NEW b \in Byte
    PROVE  RawStep(q, b) \in EngineState
  BY RawAssumption DEF RawStep, EngineState

(* RawTrail is the run of the raw automaton.                                *)
LEMMA RawTrailEquation ==
    ASSUME NEW q \in EngineState, NEW w \in Seq(Byte)
    PROVE  /\ RawTrail(q, w) \in [0 .. Len(w) -> EngineState]
           /\ RawTrail(q, w)[0] = q
           /\ \A i \in 1 .. Len(w) : RawTrail(q, w)[i] = RawStep(RawTrail(q, w)[i - 1], w[i])
<1>. DEFINE Eq(g) == g = [i \in 0 .. Len(w) |-> IF i = 0 THEN q ELSE RawStep(g[i - 1], w[i])]
            F == [i \in 1 .. Len(w) |-> [p \in EngineState |-> RawStep(p, w[i])]]
<1>1. Len(w) \in Nat /\ \A i \in 1 .. Len(w) : w[i] \in Byte
  OBVIOUS
<1>2. F \in [1 .. Len(w) -> [EngineState -> EngineState]]
  BY <1>1, RawStepType
<1>3. PICK g \in [0 .. Len(w) -> EngineState] : Follows(g, q, Len(w), F)
  <2>. HIDE DEF F
  <2>. QED BY <1>1, <1>2, RecursionExists
<1>4. g[0] = q /\ \A i \in 1 .. Len(w) : g[i] = F[i][g[i - 1]]
  BY <1>3 DEF Follows
<1>5. ASSUME NEW i \in 1 .. Len(w) PROVE g[i] = RawStep(g[i - 1], w[i])
  <2>1. i - 1 \in 0 .. Len(w) /\ g[i - 1] \in EngineState /\ g[i] = F[i][g[i - 1]]
    <3>. HIDE DEF F
    <3>. QED BY <1>1, <1>4
  <2>. QED BY <2>1
<1>6. Eq(g)
  BY <1>1, <1>4, <1>5
<1>7. RawTrail(q, w) = CHOOSE h : Eq(h)
  BY DEF RawTrail
<1>8. Eq(RawTrail(q, w))
  <2>. HIDE DEF Eq
  <2>. QED BY <1>6, <1>7, Zenon
<1>9. ASSUME NEW h, Eq(h) 
      PROVE  h \in [0 .. Len(w) -> EngineState] /\ h[0] = q
             /\ \A i \in 1 .. Len(w) : h[i] = RawStep(h[i - 1], w[i])
  <2>1. DOMAIN h = 0 .. Len(w) /\ h = [i \in 0 .. Len(w) |-> h[i]]
    BY <1>9
  <2>2. h[0] = q /\ \A i \in 1 .. Len(w) : h[i] = RawStep(h[i - 1], w[i])
    BY <1>1, <1>9
  <2>. DEFINE S == {i \in 0 .. Len(w) : h[i] \in EngineState}
  <2>3. 0 .. Len(w) \subseteq S
    <3>1. 0 \in S
      BY <1>1, <2>2
    <3>2. ASSUME NEW i \in 1 .. Len(w), i - 1 \in S PROVE i \in S
      BY <1>1, <2>2, <3>2, RawStepType
    <3>. HIDE DEF S
    <3>. QED BY <1>1, <3>1, <3>2, SetInduction
  <2>. QED BY <2>1, <2>2, <2>3
<1>. QED
  <2>. HIDE DEF Eq
  <2>. QED BY <1>8, <1>9

----------------------------------------------------------------------------
(* The states that materialisation keeps.                                   *)

States == Cardinality(RawState)
Back(X) == X \cup {q \in RawState : \E c \in Class : Raw.edge[<<q, c>>] \in X}
Live == CoAccessible(Raw)
Folded(q) == IF q \in Live THEN q ELSE Dead

LEMMA StatesType == States \in Nat /\ States >= 1
<1>1. IsFiniteSet(RawState) /\ Cardinality({Raw.start}) <= Cardinality(RawState)
  BY EngineAssumption, RawAssumption, FS_Subset
<1>. QED BY <1>1, FS_CardinalityType, FS_Singleton DEF States

(* Each round adds the predecessors of the one before.                      *)
LEMMA RoundsEquation ==
    /\ Rounds(Raw) \in [0 .. States -> SUBSET RawState]
    /\ Rounds(Raw)[0] = Raw.accepting
    /\ \A i \in 1 .. States : Rounds(Raw)[i] = Back(Rounds(Raw)[i - 1])
<1>. DEFINE D == SUBSET RawState
            Eq(g) == g = [n \in 0 .. States |-> IF n = 0 THEN Raw.accepting ELSE Back(g[n - 1])]
            F == [i \in 1 .. States |-> [X \in D |-> Back(X)]]
<1>0. States \in Nat
  BY StatesType
<1>1. Raw.accepting \in D /\ \A X \in D : Back(X) \in D
  BY RawAssumption DEF Back
<1>2. F \in [1 .. States -> [D -> D]]
  BY <1>1
<1>3. PICK g \in [0 .. States -> D] : Follows(g, Raw.accepting, States, F)
  <2>. HIDE DEF F, D
  <2>. QED BY <1>0, <1>1, <1>2, RecursionExists
<1>4. g[0] = Raw.accepting /\ \A i \in 1 .. States : g[i] = F[i][g[i - 1]]
  BY <1>3 DEF Follows
<1>5. ASSUME NEW i \in 1 .. States PROVE g[i] = Back(g[i - 1])
  <2>1. i - 1 \in 0 .. States /\ g[i - 1] \in D /\ g[i] = F[i][g[i - 1]]
    <3>. HIDE DEF F, D
    <3>. QED BY <1>0, <1>4
  <2>. QED BY <2>1
<1>6. Eq(g)
  BY <1>0, <1>4, <1>5
<1>7. Rounds(Raw) = CHOOSE h : Eq(h)
  BY DEF Rounds, States, Back
<1>8. Eq(Rounds(Raw))
  <2>. HIDE DEF Eq
  <2>. QED BY <1>6, <1>7, Zenon
<1>9. ASSUME NEW h, Eq(h)
      PROVE  h \in [0 .. States -> D] /\ h[0] = Raw.accepting
             /\ \A i \in 1 .. States : h[i] = Back(h[i - 1])
  <2>1. DOMAIN h = 0 .. States /\ h = [i \in 0 .. States |-> h[i]]
    BY <1>9
  <2>2. h[0] = Raw.accepting /\ \A i \in 1 .. States : h[i] = Back(h[i - 1])
    BY <1>0, <1>9
  <2>. DEFINE S == {i \in 0 .. States : h[i] \in D}
  <2>3. 0 .. States \subseteq S
    <3>1. 0 \in S
      BY <1>0, <1>1, <2>2
    <3>2. ASSUME NEW i \in 1 .. States, i - 1 \in S PROVE i \in S
      <4>. HIDE DEF D
      <4>. QED BY <1>0, <1>1, <2>2, <3>2
    <3>. HIDE DEF S
    <3>. QED BY <1>0, <3>1, <3>2, SetInduction
  <2>. QED BY <2>1, <2>2, <2>3
<1>. QED
  <2>. HIDE DEF Eq
  <2>. QED BY <1>8, <1>9

(* A round adds nothing, or there are more states than rounds before it:    *)
(* the closure is reached in fewer rounds than there are states.            *)
LEMMA RoundsSaturate ==
    /\ Live \subseteq RawState /\ Raw.accepting \subseteq Live
    /\ Back(Live) = Live
    /\ Live = Rounds(Raw)[States - 1]
<1>. DEFINE G == Rounds(Raw)
<1>1. G \in [0 .. States -> SUBSET RawState] /\ G[0] = Raw.accepting
      /\ \A i \in 1 .. States : G[i] = Back(G[i - 1])
  BY RoundsEquation
<1>. HIDE DEF G
<1>2. States \in Nat /\ States >= 1 /\ IsFiniteSet(RawState) /\ States = Cardinality(RawState)
  BY StatesType, EngineAssumption DEF States
<1>3. \A X \in SUBSET RawState : IsFiniteSet(X) /\ Cardinality(X) \in Nat /\ Cardinality(X) <= States
                                  /\ (Cardinality(X) = States => X = RawState)
  BY <1>2, FS_Subset, FS_CardinalityType
<1>4. \A X \in SUBSET RawState : Back(X) \in SUBSET RawState /\ X \subseteq Back(X)
  BY DEF Back
<1>. DEFINE S == {i \in 0 .. States : Cardinality(G[i]) >= i + 1 \/ Back(G[i]) = G[i]}
<1>5. 0 .. States \subseteq S
  <2>1. 0 \in S
    <3>1. CASE G[0] = {}
      <4>1. Back({}) = {}
        BY DEF Back
      <4>. QED BY <1>2, <3>1, <4>1
    <3>2. CASE G[0] # {}
      <4>1. Cardinality(G[0]) # 0
        BY <1>1, <1>2, <1>3, <3>2, FS_EmptySet
      <4>2. Cardinality(G[0]) \in Nat
        BY <1>1, <1>2, <1>3
      <4>. QED BY <1>2, <4>1, <4>2
    <3>. QED BY <3>1, <3>2
  <2>2. ASSUME NEW i \in 1 .. States, i - 1 \in S PROVE i \in S
    <3>1. G[i] = Back(G[i - 1]) /\ G[i - 1] \in SUBSET RawState /\ G[i] \in SUBSET RawState
      BY <1>1, <1>2
    <3>2. CASE Back(G[i - 1]) = G[i - 1]
      BY <1>2, <3>1, <3>2
    <3>3. CASE Back(G[i - 1]) # G[i - 1]
      <4>1. Cardinality(G[i - 1]) >= i
        BY <1>2, <2>2, <3>3
      <4>2. G[i - 1] \subseteq G[i] /\ G[i] # G[i - 1] /\ IsFiniteSet(G[i])
        BY <1>3, <1>4, <3>1, <3>3
      <4>3. Cardinality(G[i - 1]) <= Cardinality(G[i]) /\ Cardinality(G[i]) # Cardinality(G[i - 1])
        BY <4>2, FS_Subset
      <4>4. Cardinality(G[i - 1]) \in Nat /\ Cardinality(G[i]) \in Nat
        BY <1>3, <3>1
      <4>5. Cardinality(G[i]) >= i + 1
        BY <4>1, <4>3, <4>4
      <4>. QED BY <1>2, <4>5
    <3>. QED BY <3>2, <3>3
  <2>. HIDE DEF S
  <2>. QED BY <1>2, <2>1, <2>2, SetInduction
<1>6. Back(G[States - 1]) = G[States - 1]
  <2>1. States - 1 \in S /\ G[States - 1] \in SUBSET RawState
    BY <1>1, <1>2, <1>5
  <2>2. CASE Cardinality(G[States - 1]) >= (States - 1) + 1
    <3>1. G[States - 1] = RawState
      BY <1>2, <1>3, <2>1, <2>2
    <3>. QED BY <1>4, <2>1, <3>1
  <2>. QED BY <2>1, <2>2
<1>7. Live = G[States] /\ G[States] = Back(G[States - 1]) /\ G[States] \in SUBSET RawState
  BY <1>1, <1>2 DEF Live, CoAccessible, States, G
<1>8. Live = G[States - 1] /\ Back(Live) = Live /\ Live \subseteq RawState
  BY <1>6, <1>7
<1>9. Raw.accepting \subseteq Live
  <2>. DEFINE T == {i \in 0 .. States : Raw.accepting \subseteq G[i]}
  <2>1. 0 \in T
    BY <1>1, <1>2
  <2>2. ASSUME NEW i \in 1 .. States, i - 1 \in T PROVE i \in T
    BY <1>1, <1>2, <1>4, <2>2
  <2>3. 0 .. States \subseteq T
    <3>. HIDE DEF T
    <3>. QED BY <1>2, <2>1, <2>2, SetInduction
  <2>. QED BY <1>2, <1>7, <2>3
<1>. QED BY <1>8, <1>9 DEF G

(* What folding rests on: the dead sink is not live, and a step into a live *)
(* state comes from one.                                                    *)
LEMMA StepIntoLive ==
    ASSUME NEW q \in EngineState, NEW b \in Byte, RawStep(q, b) \in Live
    PROVE  q \in Live
<1>1. Dead \notin Live /\ Back(Live) = Live
  BY RoundsSaturate, DeadAssumption
<1>2. q \in RawState /\ Raw.classOf[b] \in Class /\ Raw.edge[<<q, Raw.classOf[b]>>] \in Live
  BY <1>1, RawAssumption DEF RawStep, EngineState
<1>3. q \in Back(Live)
  BY <1>2 DEF Back
<1>. QED BY <1>1, <1>3

LEMMA FoldedType == \A q \in EngineState : Folded(q) \in EngineState
  BY RoundsSaturate DEF Folded, EngineState

LEMMA EngineParts ==
    /\ engine.start = Folded(Raw.start)
    /\ engine.accepting = Raw.accepting
    /\ engine.classOf = Raw.classOf
    /\ engine.edge = [p \in Live \X Class |-> Folded(Raw.edge[p])]
  BY DEF engine, Materialize, Folded, Live

(* A step of the engine is a step of the raw automaton, folded.             *)
LEMMA FoldedStep ==
    ASSUME NEW q \in EngineState, NEW b \in Byte
    PROVE  Step(engine, Folded(q), engine.classOf[b]) = Folded(RawStep(q, b))
<1>. DEFINE c == Raw.classOf[b]
<1>1. c \in Class /\ Dead \notin Live /\ Live \subseteq RawState
  BY RoundsSaturate, RawAssumption, DeadAssumption
<1>. HIDE DEF c
<1>2. /\ DOMAIN engine.edge = Live \X Class /\ engine.classOf[b] = c
      /\ \A p \in Live \X Class : engine.edge[p] = Folded(Raw.edge[p])
  BY EngineParts DEF c
<1>3. CASE q \in Live
  <2>1. Folded(q) = q /\ <<q, c>> \in Live \X Class /\ q # Dead
    BY <1>1, <1>3 DEF Folded
  <2>2. Step(engine, q, c) = Folded(Raw.edge[<<q, c>>])
    BY <1>2, <2>1 DEF Step
  <2>. QED BY <1>2, <2>1, <2>2 DEF RawStep, c
<1>4. CASE q \notin Live
  <2>1. Folded(q) = Dead /\ <<Dead, c>> \notin Live \X Class
    BY <1>1, <1>4 DEF Folded
  <2>2. Step(engine, Dead, c) = Dead
    BY <1>2, <2>1 DEF Step
  <2>3. RawStep(q, b) \notin Live
    BY <1>4, StepIntoLive
  <2>. QED BY <1>2, <2>1, <2>2, <2>3 DEF Folded
<1>. QED BY <1>3, <1>4

LEMMA EngineIsOK == EngineOK(engine)
<1>1. engine.classOf \in [Byte -> Class]
  BY EngineParts, RawAssumption
<1>2. ASSUME NEW q \in EngineState, NEW c \in Class PROVE Step(engine, q, c) \in EngineState
  <2>1. \A p \in RawState \X Class : Raw.edge[p] \in EngineState
    BY RawAssumption
  <2>2. CASE <<q, c>> \in Live \X Class
    <3>1. <<q, c>> \in RawState \X Class /\ Step(engine, q, c) = Folded(Raw.edge[<<q, c>>])
      BY <2>2, RoundsSaturate, EngineParts DEF Step
    <3>. QED BY <2>1, <3>1, FoldedType
  <2>3. CASE <<q, c>> \notin Live \X Class
    <3>1. Step(engine, q, c) = Dead
      BY <2>3, EngineParts DEF Step
    <3>. QED BY <3>1 DEF EngineState
  <2>. QED BY <2>2, <2>3
<1>. QED BY <1>1, <1>2 DEF EngineOK

(* consume_token on the engine ends where the raw automaton does, folded.   *)
LEMMA FoldedRun ==
    ASSUME NEW q \in EngineState, NEW w \in Seq(Byte)
    PROVE  ConsumeToken(engine, Folded(q), w) = Folded(RawTrail(q, w)[Len(w)])
<1>. DEFINE g == Trail(engine, Folded(q), w)
            h == RawTrail(q, w)
<1>1. g[0] = Folded(q) /\ \A i \in 1 .. Len(w) : g[i] = Step(engine, g[i - 1], engine.classOf[w[i]])
  BY EngineIsOK, FoldedType, TrailEquation
<1>2. h \in [0 .. Len(w) -> EngineState] /\ h[0] = q
      /\ \A i \in 1 .. Len(w) : h[i] = RawStep(h[i - 1], w[i])
  BY RawTrailEquation
<1>3. Len(w) \in Nat /\ \A i \in 1 .. Len(w) : w[i] \in Byte
  OBVIOUS
<1>. HIDE DEF g, h
<1>. DEFINE S == {i \in 0 .. Len(w) : g[i] = Folded(h[i])}
<1>4. 0 \in S
  BY <1>1, <1>2, <1>3
<1>5. ASSUME NEW i \in 1 .. Len(w), i - 1 \in S PROVE i \in S
  <2>1. i - 1 \in 0 .. Len(w) /\ h[i - 1] \in EngineState /\ w[i] \in Byte /\ g[i - 1] = Folded(h[i - 1])
    BY <1>2, <1>3, <1>5
  <2>2. Step(engine, Folded(h[i - 1]), engine.classOf[w[i]]) = Folded(RawStep(h[i - 1], w[i]))
    BY <2>1, FoldedStep
  <2>3. g[i] = Folded(h[i])
    BY <1>1, <1>2, <2>1, <2>2
  <2>. QED BY <1>3, <2>3
<1>6. 0 .. Len(w) \subseteq S
  <2>. HIDE DEF S
  <2>. QED BY <1>3, <1>4, <1>5, SetInduction
<1>7. g[Len(w)] = Folded(h[Len(w)])
  BY <1>3, <1>6
<1>. QED BY <1>7 DEF ConsumeToken, g, h

(* A run of one word after another.                                         *)
LEMMA RunConcat ==
    ASSUME NEW q \in EngineState, NEW u \in Seq(Byte), NEW v \in Seq(Byte)
    PROVE  /\ RawTrail(q, u)[Len(u)] \in EngineState
           /\ RawTrail(q, u \o v)[Len(u \o v)] = RawTrail(RawTrail(q, u)[Len(u)], v)[Len(v)]
<1>. DEFINE m == Len(u)
            n == Len(v)
            g == RawTrail(q, u)
            k == RawTrail(g[m], v)
            h == RawTrail(q, u \o v)
<1>1. m \in Nat /\ n \in Nat /\ u \o v \in Seq(Byte) /\ Len(u \o v) = m + n
  OBVIOUS
<1>2. /\ \A i \in 1 .. m : (u \o v)[i] = u[i]
      /\ \A i \in 1 .. n : (u \o v)[m + i] = v[i]
  BY <1>1, ConcatProperties
<1>3. g \in [0 .. m -> EngineState] /\ g[0] = q /\ \A i \in 1 .. m : g[i] = RawStep(g[i - 1], u[i])
  BY RawTrailEquation
<1>4. g[m] \in EngineState
  <2>. HIDE DEF g, m
  <2>. QED BY <1>1, <1>3
<1>5. k[0] = g[m] /\ \A i \in 1 .. n : k[i] = RawStep(k[i - 1], v[i])
  <2>. HIDE DEF g, m
  <2>. QED BY <1>4, RawTrailEquation
<1>6. h[0] = q /\ \A i \in 1 .. m + n : h[i] = RawStep(h[i - 1], (u \o v)[i])
  <2>1. \A w \in Seq(Byte) : /\ RawTrail(q, w)[0] = q
                              /\ \A i \in 1 .. Len(w) : RawTrail(q, w)[i] = RawStep(RawTrail(q, w)[i - 1], w[i])
    BY RawTrailEquation
  <2>. HIDE DEF m, n
  <2>. QED BY <1>1, <2>1
<1>. HIDE DEF g, k, h, m, n
<1>7. h[m] = g[m]
  <2>. DEFINE S == {i \in 0 .. m : h[i] = g[i]}
  <2>1. 0 \in S
    BY <1>1, <1>3, <1>6
  <2>2. ASSUME NEW i \in 1 .. m, i - 1 \in S PROVE i \in S
    <3>1. i \in 1 .. m + n /\ h[i - 1] = g[i - 1] /\ (u \o v)[i] = u[i]
      BY <1>1, <1>2, <2>2
    <3>2. h[i] = g[i]
      BY <1>3, <1>6, <3>1
    <3>. QED BY <1>1, <3>2
  <2>. HIDE DEF S
  <2>3. 0 .. m \subseteq S
    BY <1>1, <2>1, <2>2, SetInduction
  <2>. QED BY <1>1, <2>3 DEF S
<1>8. h[m + n] = k[n]
  <2>. DEFINE S == {i \in 0 .. n : h[m + i] = k[i]}
  <2>1. 0 \in S
    BY <1>1, <1>5, <1>7
  <2>2. ASSUME NEW i \in 1 .. n, i - 1 \in S PROVE i \in S
    <3>0. m + i \in 1 .. m + n /\ (m + i) - 1 = m + (i - 1)
      BY <1>1
    <3>1. m + i \in 1 .. m + n /\ h[(m + i) - 1] = k[i - 1] /\ (u \o v)[m + i] = v[i]
      BY <1>2, <2>2, <3>0
    <3>2. h[m + i] = RawStep(h[(m + i) - 1], (u \o v)[m + i]) /\ k[i] = RawStep(k[i - 1], v[i])
      BY <1>5, <1>6, <3>1
    <3>3. h[m + i] = k[i]
      BY <3>1, <3>2
    <3>. QED BY <1>1, <3>3
  <2>. HIDE DEF S
  <2>3. 0 .. n \subseteq S
    BY <1>1, <2>1, <2>2, SetInduction
  <2>. QED BY <1>1, <2>3 DEF S
<1>. QED BY <1>1, <1>4, <1>8 DEF g, k, h, m, n

LEMMA WordIsSeq ==
    ASSUME NEW n \in Nat, NEW w \in [1 .. n -> Byte]
    PROVE  w \in Seq(Byte) /\ Len(w) = n
  OBVIOUS

(* A run that ends live started live.                                       *)
LEMMA LiveBackward ==
    ASSUME NEW q \in EngineState, NEW w \in Seq(Byte), RawTrail(q, w)[Len(w)] \in Live
    PROVE  q \in Live
<1>. DEFINE g == RawTrail(q, w)
            n == Len(w)
            S == {i \in 0 .. n : g[n - i] \in Live}
<1>1. g \in [0 .. n -> EngineState] /\ g[0] = q /\ \A i \in 1 .. n : g[i] = RawStep(g[i - 1], w[i])
  BY RawTrailEquation
<1>2. n \in Nat /\ g[n] \in Live /\ \A i \in 1 .. n : w[i] \in Byte
  OBVIOUS
<1>. HIDE DEF g, n
<1>3. 0 \in S
  BY <1>2
<1>4. ASSUME NEW i \in 1 .. n, i - 1 \in S PROVE i \in S
  <2>. DEFINE j == n - (i - 1)
  <2>1. j \in 1 .. n /\ j - 1 \in 0 .. n /\ j - 1 = n - i /\ g[j] \in Live
    BY <1>2, <1>4
  <2>. HIDE DEF j
  <2>2. g[j - 1] \in EngineState /\ w[j] \in Byte /\ RawStep(g[j - 1], w[j]) \in Live
    BY <1>1, <1>2, <2>1
  <2>3. g[j - 1] \in Live
    BY <2>2, StepIntoLive
  <2>. QED BY <1>2, <2>1, <2>3
<1>5. 0 .. n \subseteq S
  <2>. HIDE DEF S
  <2>. QED BY <1>2, <1>3, <1>4, SetInduction
<1>6. n \in S /\ n - n = 0
  BY <1>2, <1>5
<1>. QED BY <1>1, <1>6

(* q has a completion of at most n bytes.                                   *)
Completes(q, n) ==
    \E m \in 0 .. n : \E w \in [1 .. m -> Byte] : RawTrail(q, w)[m] \in Raw.accepting

(* What round n has reached has a completion of at most n bytes.            *)
LEMMA RoundCompletes ==
    \A n \in 0 .. States : \A q \in Rounds(Raw)[n] : Completes(q, n)
<1>. DEFINE G == Rounds(Raw)
            S == {n \in 0 .. States : \A q \in G[n] : Completes(q, n)}
<1>1. G \in [0 .. States -> SUBSET RawState] /\ G[0] = Raw.accepting
      /\ \A i \in 1 .. States : G[i] = Back(G[i - 1])
  BY RoundsEquation
<1>2. States \in Nat
  BY StatesType
<1>. HIDE DEF G
<1>3. 0 \in S
  <2>1. ASSUME NEW q \in G[0] PROVE Completes(q, 0)
    <3>1. q \in Raw.accepting /\ q \in EngineState
      BY <1>1, RawAssumption DEF EngineState
    <3>. DEFINE w == [i \in 1 .. 0 |-> i]
    <3>2. w \in [1 .. 0 -> Byte] /\ 0 \in Nat
      OBVIOUS
    <3>. HIDE DEF w
    <3>3. w \in Seq(Byte)
      BY <3>2, WordIsSeq
    <3>4. RawTrail(q, w)[0] = q
      BY <3>1, <3>3, RawTrailEquation
    <3>5. 0 \in 0 .. 0
      OBVIOUS
    <3>. QED BY <3>1, <3>2, <3>4, <3>5 DEF Completes
  <2>. QED BY <1>2, <2>1
<1>4. ASSUME NEW n \in 1 .. States, n - 1 \in S PROVE n \in S
  <2>. SUFFICES ASSUME NEW q \in G[n] PROVE Completes(q, n)
    BY <1>2
  <2>1. n \in Nat /\ n - 1 \in 0 .. States /\ G[n] = Back(G[n - 1]) /\ G[n - 1] \in SUBSET RawState
        /\ \A p \in G[n - 1] : Completes(p, n - 1)
    BY <1>1, <1>2, <1>4
  <2>2. CASE q \in G[n - 1]
    <3>1. PICK m \in 0 .. n - 1 : \E w \in [1 .. m -> Byte] : RawTrail(q, w)[m] \in Raw.accepting
      BY <2>1, <2>2 DEF Completes
    <3>2. m \in 0 .. n
      BY <2>1
    <3>. QED BY <3>1, <3>2 DEF Completes
  <2>3. CASE q \notin G[n - 1]
    <3>1. PICK c \in Class : Raw.edge[<<q, c>>] \in G[n - 1]
      BY <2>1, <2>3 DEF Back
    <3>2. PICK b \in Byte : Raw.classOf[b] = c
      BY RawAssumption
    <3>. DEFINE p == Raw.edge[<<q, c>>]
    <3>3. q \in RawState /\ q \in EngineState /\ q # Dead
      BY <2>1, <2>3, DeadAssumption DEF Back, EngineState
    <3>4. RawStep(q, b) = p
      BY <3>2, <3>3 DEF RawStep
    <3>. HIDE DEF p
    <3>5. PICK m \in 0 .. n - 1 : \E w \in [1 .. m -> Byte] : RawTrail(p, w)[m] \in Raw.accepting
      BY <2>1, <3>1 DEF Completes, p
    <3>6. PICK w \in [1 .. m -> Byte] : RawTrail(p, w)[m] \in Raw.accepting
      BY <3>5
    <3>7. m \in Nat /\ w \in Seq(Byte) /\ Len(w) = m /\ <<b>> \in Seq(Byte) /\ Len(<<b>>) = 1
      BY <2>1, WordIsSeq
    <3>. DEFINE a == <<b>>
                v == a \o w
    <3>8. v \in Seq(Byte) /\ Len(v) = m + 1 /\ v \in [1 .. m + 1 -> Byte] /\ m + 1 \in 0 .. n
      <4>1. a \in Seq(Byte) /\ Len(a) = 1
        BY <3>7
      <4>. HIDE DEF a
      <4>2. v \in Seq(Byte) /\ Len(v) = 1 + m
        BY <3>7, <4>1, ConcatProperties
      <4>. HIDE DEF v
      <4>3. v \in [1 .. Len(v) -> Byte] /\ 1 + m = m + 1 /\ m + 1 \in 0 .. n
        BY <2>1, <3>7, <4>2, LenProperties
      <4>. QED BY <4>2, <4>3
    <3>9. RawTrail(q, a)[1] = p
      <4>1. RawTrail(q, a)[0] = q /\ RawTrail(q, a)[1] = RawStep(RawTrail(q, a)[1 - 1], a[1])
        <5>1. a \in Seq(Byte) /\ 1 \in 1 .. Len(a)
          BY <3>7
        <5>. HIDE DEF a
        <5>. QED BY <3>3, <5>1, RawTrailEquation
      <4>2. a[1] = b /\ 1 - 1 = 0
        OBVIOUS
      <4>. HIDE DEF a
      <4>. QED BY <3>4, <4>1, <4>2
    <3>10. RawTrail(q, v)[Len(v)] = RawTrail(RawTrail(q, a)[Len(a)], w)[Len(w)]
      BY <3>3, <3>7, RunConcat
    <3>11. RawTrail(q, v)[m + 1] \in Raw.accepting
      <4>. HIDE DEF v, a
      <4>. QED BY <3>6, <3>7, <3>8, <3>9, <3>10 DEF a
    <3>. HIDE DEF v
    <3>. QED BY <3>8, <3>11 DEF Completes
  <2>. QED BY <2>2, <2>3
<1>5. 0 .. States \subseteq S
  <2>. HIDE DEF S
  <2>. QED BY <1>2, <1>3, <1>4, SetInduction
<1>. QED BY <1>5 DEF G

(* A state is kept iff acceptance can be reached from it.                   *)
LEMMA LiveIsCompletable ==
    ASSUME NEW q \in EngineState
    PROVE  q \in Live <=> Completes(q, States - 1)
<1>0. States \in Nat /\ States - 1 \in 0 .. States
  BY StatesType
<1>1. ASSUME q \in Live PROVE Completes(q, States - 1)
  <2>1. q \in Rounds(Raw)[States - 1]
    BY <1>1, RoundsSaturate
  <2>. QED BY <1>0, <2>1, RoundCompletes
<1>2. ASSUME Completes(q, States - 1) PROVE q \in Live
  <2>1. PICK n \in 0 .. States - 1 : \E w \in [1 .. n -> Byte] : RawTrail(q, w)[n] \in Raw.accepting
    BY <1>2 DEF Completes
  <2>2. PICK w \in [1 .. n -> Byte] : RawTrail(q, w)[n] \in Raw.accepting
    BY <2>1
  <2>3. w \in Seq(Byte) /\ Len(w) = n
    BY <1>0, WordIsSeq
  <2>. QED BY <2>2, <2>3, RoundsSaturate, LiveBackward
<1>. QED BY <1>1, <1>2

LEMMA RunType ==
    ASSUME NEW u \in Seq(Byte)
    PROVE  RawRun(u) \in EngineState /\ Raw.start \in EngineState
<1>1. Raw.start \in EngineState
  BY RawAssumption DEF EngineState
<1>. QED BY <1>1, RunConcat DEF RawRun

LEMMA RunOfConcat ==
    ASSUME NEW u \in Seq(Byte), NEW v \in Seq(Byte)
    PROVE  RawRun(u \o v) = RawTrail(RawRun(u), v)[Len(v)]
  BY RunType, RunConcat DEF RawRun

(* A text is viable iff its run has not left the live states.               *)
LEMMA ViableIsLive ==
    ASSUME NEW u \in Seq(Byte)
    PROVE  RawViable(u) <=> RawRun(u) \in Live
<1>0. States \in Nat /\ RawRun(u) \in EngineState
  BY StatesType, RunType
<1>1. ASSUME NEW n \in 0 .. States - 1, NEW w \in [1 .. n -> Byte]
      PROVE  RawComplete(u \o w) <=> RawTrail(RawRun(u), w)[n] \in Raw.accepting
  <2>1. w \in Seq(Byte) /\ Len(w) = n
    BY <1>0, WordIsSeq
  <2>. QED BY <2>1, RunOfConcat DEF RawComplete
<1>2. RawViable(u) <=> Completes(RawRun(u), States - 1)
  BY <1>1 DEF RawViable, Completes, States
<1>. QED BY <1>0, <1>2, LiveIsCompletable

(* The completions RawViable tries are enough: a text is viable iff it is   *)
(* the beginning of some word of the language, however long.                *)
THEOREM ViableIsPrefix ==
    \A u \in Seq(Byte) : RawViable(u) <=> \E w \in Seq(Byte) : RawComplete(u \o w)
<1>. SUFFICES ASSUME NEW u \in Seq(Byte)
              PROVE  RawViable(u) <=> \E w \in Seq(Byte) : RawComplete(u \o w)
  OBVIOUS
<1>0. States \in Nat /\ RawRun(u) \in EngineState
  BY StatesType, RunType
<1>1. ASSUME RawViable(u) PROVE \E w \in Seq(Byte) : RawComplete(u \o w)
  <2>1. PICK n \in 0 .. States - 1 : \E w \in [1 .. n -> Byte] : RawComplete(u \o w)
    BY <1>1 DEF RawViable, States
  <2>2. PICK w \in [1 .. n -> Byte] : RawComplete(u \o w)
    BY <2>1
  <2>3. w \in Seq(Byte)
    BY <1>0, WordIsSeq
  <2>. QED BY <2>2, <2>3
<1>2. ASSUME NEW w \in Seq(Byte), RawComplete(u \o w) PROVE RawViable(u)
  <2>1. RawTrail(RawRun(u), w)[Len(w)] \in Live
    BY <1>2, RunOfConcat, RoundsSaturate DEF RawComplete
  <2>2. RawRun(u) \in Live
    BY <1>0, <2>1, LiveBackward
  <2>. QED BY <2>2, ViableIsLive
<1>. QED BY <1>1, <1>2

----------------------------------------------------------------------------
(* The position of a session, and what its masks and commits mean.          *)

(* Where the matcher is after the text u.                                   *)
LEMMA PositionIsRun ==
    ASSUME NEW u \in Seq(Byte), NEW v \in Seq(Byte)
    PROVE  /\ ConsumeToken(engine, Folded(RawRun(u)), v) = Folded(RawRun(u \o v))
           /\ Folded(RawRun(u)) \in EngineState
           /\ Folded(RawRun(u)) # Dead <=> RawViable(u)
           /\ IsAccepting(engine, Folded(RawRun(u))) <=> RawComplete(u)
<1>1. RawRun(u) \in EngineState /\ Dead \notin Live /\ Raw.accepting \subseteq Live
  BY RunType, RoundsSaturate, DeadAssumption
<1>2. ConsumeToken(engine, Folded(RawRun(u)), v) = Folded(RawRun(u \o v))
  BY <1>1, FoldedRun, RunOfConcat
<1>3. Folded(RawRun(u)) # Dead <=> RawViable(u)
  BY <1>1, ViableIsLive DEF Folded
<1>4. IsAccepting(engine, Folded(RawRun(u))) <=> RawComplete(u)
  BY <1>1, EngineParts DEF IsAccepting, RawComplete, Folded
<1>. QED BY <1>1, <1>2, <1>3, <1>4, FoldedType

(* The row of a position is what Decoder allows after its text.             *)
LEMMA RowIsAllowed ==
    ASSUME NEW u \in Seq(Byte)
    PROVE  RowOf[Folded(RawRun(u))] \cup (IF IsAccepting(engine, Folded(RawRun(u))) THEN {Eos} ELSE {})
               = Promise!Allowed(u)
<1>. DEFINE p == Folded(RawRun(u))
<1>1. p \in EngineState /\ (IsAccepting(engine, p) <=> RawComplete(u))
  BY PositionIsRun
<1>2. ASSUME NEW tok \in Token
      PROVE  ConsumeToken(engine, p, TokenBytes[tok]) # Dead <=> RawViable(u \o TokenBytes[tok])
  <2>1. TokenBytes[tok] \in Seq(Byte) /\ u \o TokenBytes[tok] \in Seq(Byte)
    BY TokenAssumption, ConcatProperties
  <2>. QED BY <2>1, PositionIsRun
<1>3. RowOf[p] = {tok \in Token : ConsumeToken(engine, p, TokenBytes[tok]) # Dead}
  BY <1>1 DEF RowOf
<1>4. RowOf[p] = {tok \in DOMAIN TokenBytes : RawViable(u \o TokenBytes[tok])}
  <2>. HIDE DEF p
  <2>. QED BY <1>2, <1>3 DEF Token
<1>. QED BY <1>1, <1>4 DEF Promise!Allowed

----------------------------------------------------------------------------
(* The shared rows under the sessions.                                      *)

(* The assumptions of the rows on their constants hold of those they get.   *)
LEMMA RowsAssumptions ==
    /\ RowsProofs!IsFiniteSet(EngineState) /\ EngineState # {}
    /\ EntryBytes \in Nat \ {0} /\ Budget \in Nat /\ Transient \in Nat
    /\ NoThread \notin Thread
<1>1. IsFiniteSet(EngineState)
  BY EngineAssumption, FS_AddElement DEF EngineState
<1>2. RowsProofs!IsFiniteSet(EngineState)
  BY <1>1 DEF IsFiniteSet, RowsProofs!IsFiniteSet
<1>. QED BY <1>2, RowBudgetAssumption DEF EngineState

(* The two instances of the rows mean the same.                             *)
LEMMA RowsStep ==
    ASSUME NEW t \in Thread, Rows!QueryStep(t)
    PROVE  RowsProofs!QueryStep(t)
<1>. USE DEF Rows!At, RowsProofs!At, Rows!Goto, RowsProofs!Goto, Rows!Empty, RowsProofs!Empty,
             Rows!rowVars, RowsProofs!rowVars, Rows!gateVars, RowsProofs!gateVars,
             Rows!Ok, RowsProofs!Ok, Rows!Err, RowsProofs!Err, Rows!Failure, RowsProofs!Failure,
             Rows!Initialising, RowsProofs!Initialising, Rows!AfterWalk, RowsProofs!AfterWalk,
             Rows!None, RowsProofs!None, Rows!Uncached, RowsProofs!Uncached
<1>1. CASE Rows!Get(t)
  BY <1>1 DEF Rows!Get, RowsProofs!Get, RowsProofs!QueryStep
<1>2. CASE Rows!Reserve(t)
  BY <1>2 DEF Rows!Reserve, RowsProofs!Reserve, RowsProofs!QueryStep
<1>3. CASE Rows!Admission(t)
  <2>1. Rows!Gate!TryAcquire(t, Transient) => RowsProofs!Gate!TryAcquire(t, Transient)
    BY DEF Rows!Gate!TryAcquire, RowsProofs!Gate!TryAcquire, Rows!Gate!Request, RowsProofs!Gate!Request,
           Rows!Gate!Reject, RowsProofs!Gate!Reject, Rows!Gate!Fits, RowsProofs!Gate!Fits,
           Rows!Gate!Admit, RowsProofs!Gate!Admit, Rows!Gate!Admitted, RowsProofs!Gate!Admitted,
           Rows!Gate!Maximum, RowsProofs!Gate!Maximum, Rows!Gate!Unset, RowsProofs!Gate!Unset
  <2>. QED BY <1>3, <2>1 DEF Rows!Admission, RowsProofs!Admission, RowsProofs!QueryStep
<1>4. CASE Rows!Walk(t)
  BY <1>4 DEF Rows!Walk, RowsProofs!Walk, RowsProofs!QueryStep
<1>5. CASE Rows!DropPermit(t)
  <2>1. /\ Rows!Gate!Release(t) => RowsProofs!Gate!Release(t)
        /\ Rows!Gate!NotifyAll(t) => RowsProofs!Gate!NotifyAll(t)
    BY DEF Rows!Gate!Release, RowsProofs!Gate!Release, Rows!Gate!NotifyAll, RowsProofs!Gate!NotifyAll
  <2>. QED BY <1>5, <2>1 DEF Rows!DropPermit, RowsProofs!DropPermit, RowsProofs!QueryStep
<1>6. CASE Rows!Settle(t)
  BY <1>6 DEF Rows!Settle, RowsProofs!Settle, RowsProofs!QueryStep
<1>7. CASE Rows!Publish(t)
  BY <1>7 DEF Rows!Publish, RowsProofs!Publish, RowsProofs!QueryStep
<1>8. CASE Rows!Read(t)
  BY <1>8 DEF Rows!Read, RowsProofs!Read, RowsProofs!QueryStep
<1>. QED BY <1>1, <1>2, <1>3, <1>4, <1>5, <1>6, <1>7, <1>8 DEF Rows!QueryStep

----------------------------------------------------------------------------
(* The sessions.                                                            *)

Reply == {"ok", "pending", "Compile", "SessionStopped", "IllegalToken", "Matcher(IllegalToken)"}

SessionTypes ==
    /\ pos \in [Thread -> EngineState]
    /\ text \in [Thread -> Seq(Byte)]
    /\ lifecycle \in [Thread -> {"Active", "Stopped"}]
    /\ out \in [Thread -> SUBSET (Token \cup {Eos})]
    /\ last \in [Thread -> Reply]

(* The matcher is where the accepted text leads the raw automaton, folded.  *)
Tracking == \A t \in Thread : pos[t] = Folded(RawRun(text[t]))

(* A mask is pending while its query runs, of an active session, with the   *)
(* buffer zeroed and for the position the session still has.                *)
PendingInv ==
    \A t \in Thread :
        /\ last[t] = "pending" <=> qpc[t] # "idle"
        /\ last[t] = "pending" => lifecycle[t] = "Active" /\ out[t] = {} /\ qstate[t] = pos[t]

SessionInv == SessionTypes /\ Tracking /\ PendingInv /\ RowsProofs!RowsInv

(* A session starts where the empty text leads.                             *)
LEMMA StartPosition ==
    <<>> \in Seq(Byte) /\ engine.start = Folded(RawRun(<<>>)) /\ engine.start \in EngineState
<1>1. <<>> \in Seq(Byte) /\ Len(<<>>) = 0
  BY EmptySeq
<1>2. Raw.start \in EngineState
  BY RawAssumption DEF EngineState
<1>3. RawRun(<<>>) = Raw.start
  BY <1>1, <1>2, RawTrailEquation DEF RawRun
<1>. QED BY <1>1, <1>3, EngineParts, PositionIsRun

LEMMA SessionInit == Init => SessionInv
<1>. SUFFICES ASSUME Init PROVE SessionInv
  OBVIOUS
<1>1. RowsProofs!Init
  BY DEF Init, Rows!Init, RowsProofs!Init, Rows!Empty, RowsProofs!Empty, Rows!None, RowsProofs!None,
         Rows!AnyState, RowsProofs!AnyState, Rows!Gate!Clamped, RowsProofs!Gate!Clamped,
         Rows!Gate!FreshInner, RowsProofs!Gate!FreshInner, Rows!Gate!AtLeastOne,
         RowsProofs!Gate!AtLeastOne
<1>2. RowsProofs!RowsInv
  BY <1>1, RowsAssumptions, RowsProofs!RowsInvInit
<1>3. <<>> \in Seq(Byte) /\ engine.start = Folded(RawRun(<<>>)) /\ engine.start \in EngineState
  BY StartPosition
<1>6. SessionTypes /\ Tracking
  BY <1>3 DEF Init, SessionTypes, Tracking, Reply
<1>7. PendingInv
  BY DEF Init, Rows!Init, PendingInv
<1>. QED BY <1>2, <1>6, <1>7 DEF SessionInv

(* What a step of a query does to its place.                                *)
LEMMA QueryPlaces ==
    ASSUME NEW t \in Thread, Rows!QueryStep(t), DOMAIN qpc = Thread
    PROVE  /\ qpc[t] # "idle" /\ qpc'[t] # "idle" /\ qstate' = qstate
           /\ \A u \in Thread : u # t => qpc'[u] = qpc[u]
<1>. USE DEF Rows!At, Rows!Goto, Rows!AfterWalk
<1>1. CASE Rows!Get(t) \/ Rows!Reserve(t) \/ Rows!Walk(t) \/ Rows!Settle(t)
  BY <1>1 DEF Rows!Get, Rows!Reserve, Rows!Walk, Rows!Settle
<1>2. CASE Rows!Publish(t) \/ Rows!Read(t)
  BY <1>2 DEF Rows!Publish, Rows!Read
<1>3. CASE Rows!Admission(t)
  BY <1>3 DEF Rows!Admission
<1>4. CASE Rows!DropPermit(t)
  BY <1>4 DEF Rows!DropPermit
<1>. QED BY <1>1, <1>2, <1>3, <1>4 DEF Rows!QueryStep

(* A step of a session is a step of the rows, or leaves them alone.         *)
LEMMA SessionStepOfRows ==
    ASSUME SessionInv, [Next]_vars
    PROVE  [RowsProofs!Next]_(RowsProofs!vars)
<1>. DEFINE Stutter == UNCHANGED RowsProofs!vars
<1>0. UNCHANGED lazyVars => Stutter
  BY DEF lazyVars, RowsProofs!vars, RowsProofs!rowVars, RowsProofs!queryVars, RowsProofs!gateVars
<1>1. ASSUME NEW t \in Thread, WriteMask(t) PROVE RowsProofs!Next \/ Stutter
  <2>1. pos[t] \in EngineState
    BY DEF SessionInv, SessionTypes
  <2>2. ASSUME Rows!Ask(t, pos[t]) PROVE RowsProofs!Ask(t, pos[t])
    BY <2>2 DEF Rows!Ask, RowsProofs!Ask, Rows!At, RowsProofs!At, Rows!Goto, RowsProofs!Goto,
                Rows!None, RowsProofs!None, Rows!rowVars, RowsProofs!rowVars, Rows!gateVars,
                RowsProofs!gateVars
  <2>3. Rows!Ask(t, pos[t]) \/ UNCHANGED lazyVars
    BY <1>1 DEF WriteMask
  <2>. HIDE DEF Stutter
  <2>. QED BY <1>0, <2>1, <2>2, <2>3 DEF RowsProofs!Next
<1>2. ASSUME NEW t \in Thread, QueryRow(t) PROVE RowsProofs!Next
  BY <1>2, RowsStep DEF QueryRow, RowsProofs!Next
<1>3. ASSUME NEW t \in Thread, FinishMask(t) PROVE RowsProofs!Next
  <2>1. RowsProofs!Return(t)
    BY <1>3 DEF FinishMask, Rows!Return, RowsProofs!Return, Rows!At, RowsProofs!At, Rows!Goto,
                RowsProofs!Goto, Rows!None, RowsProofs!None, Rows!AnyState, RowsProofs!AnyState,
                Rows!rowVars, RowsProofs!rowVars, Rows!gateVars, RowsProofs!gateVars
  <2>. QED BY <2>1 DEF RowsProofs!Next
<1>4. ASSUME NEW t \in Thread,
             \/ AdvanceStopped(t) \/ AdvanceEos(t) \/ Reset(t)
             \/ \E tok \in Token \cup ForeignId : AdvanceToken(t, tok)
      PROVE  UNCHANGED lazyVars
  BY <1>4 DEF AdvanceStopped, AdvanceEos, Reset, AdvanceToken
<1>5. UNCHANGED vars => UNCHANGED lazyVars
  BY DEF vars
<1>. HIDE DEF Stutter
<1>6. RowsProofs!Next \/ Stutter
  BY <1>0, <1>1, <1>2, <1>3, <1>4, <1>5 DEF Next
<1>. QED BY <1>6 DEF Stutter

(* What the query of a mask brings back.                                    *)
LEMMA FinishedMask ==
    ASSUME SessionInv, NEW t \in Thread, FinishMask(t)
    PROVE  /\ last[t] = "pending" /\ lifecycle[t] = "Active" /\ out[t] = {}
           /\ qpc' = [qpc EXCEPT ![t] = "idle"] /\ \A u \in Thread : u # t => qstate'[u] = qstate[u]
           /\ UNCHANGED <<pos, lifecycle, text>>
           /\ \E a \in {"ok", "Compile"} : last' = [last EXCEPT ![t] = a]
           /\ \/ out' = out
              \/ out' = [out EXCEPT ![t] = Promise!Allowed(text[t])]
<1>1. /\ qpc[t] = "reply" /\ qpc' = [qpc EXCEPT ![t] = "idle"] /\ UNCHANGED <<pos, lifecycle, text>>
      /\ qstate' = [qstate EXCEPT ![t] = Rows!AnyState]
  BY DEF FinishMask, Rows!Return, Rows!At, Rows!Goto
<1>2. last[t] = "pending" /\ lifecycle[t] = "Active" /\ out[t] = {} /\ qstate[t] = pos[t]
  BY <1>1 DEF SessionInv, PendingInv
<1>3. outcome[t] \in {RowsProofs!Ok(RowOf[pos[t]])} \cup RowsProofs!Failure
  BY <1>1, <1>2 DEF SessionInv, RowsProofs!RowsInv, RowsProofs!QueryInv, RowsProofs!AnswerOf
<1>4. \A u \in Thread : u # t => qstate'[u] = qstate[u]
  BY <1>1 DEF SessionInv, RowsProofs!RowsInv, RowsProofs!RowTypes
<1>5. Rows!Failure = RowsProofs!Failure
  BY DEF Rows!Failure, RowsProofs!Failure, Rows!Err, RowsProofs!Err
<1>6. CASE outcome[t] \in Rows!Failure
  <2>1. last' = [last EXCEPT ![t] = "Compile"] /\ out' = [out EXCEPT ![t] = {}]
    BY <1>6 DEF FinishMask, Answer
  <2>2. out' = out
    BY <1>2, <2>1 DEF SessionInv, SessionTypes
  <2>. QED BY <1>1, <1>2, <1>4, <2>1, <2>2
<1>7. CASE outcome[t] \notin Rows!Failure
  <2>1. outcome[t][2] = RowOf[pos[t]]
    BY <1>3, <1>5, <1>7 DEF RowsProofs!Ok
  <2>2. pos[t] = Folded(RawRun(text[t])) /\ text[t] \in Seq(Byte)
    BY DEF SessionInv, Tracking, SessionTypes
  <2>3. RowOf[pos[t]] \cup (IF IsAccepting(engine, pos[t]) THEN {Eos} ELSE {}) = Promise!Allowed(text[t])
    BY <2>2, RowIsAllowed
  <2>4. /\ last' = [last EXCEPT ![t] = "ok"]
        /\ out' = [out EXCEPT ![t] =
                      outcome[t][2] \cup (IF IsAccepting(engine, pos[t]) THEN {Eos} ELSE {})]
    BY <1>7 DEF FinishMask, Answer
  <2>. QED BY <1>1, <1>2, <1>4, <2>1, <2>3, <2>4
<1>. QED BY <1>6, <1>7

(* What an accepted token does.                                             *)
LEMMA TokenStep ==
    ASSUME SessionInv, NEW t \in Thread, NEW tok \in Token \cup ForeignId, AdvanceToken(t, tok)
    PROVE  /\ UNCHANGED <<lazyVars, lifecycle, out>> /\ last[t] # "pending" /\ lifecycle[t] = "Active"
           /\ \/ /\ UNCHANGED <<pos, text>> /\ last' = [last EXCEPT ![t] = "Matcher(IllegalToken)"]
              \/ /\ tok \in Token /\ tok # Eos
                 /\ text' = [text EXCEPT ![t] = text[t] \o TokenBytes[tok]]
                 /\ pos' = [pos EXCEPT ![t] = Folded(RawRun(text[t] \o TokenBytes[tok]))]
                 /\ text[t] \o TokenBytes[tok] \in Seq(Byte)
                 /\ Folded(RawRun(text[t] \o TokenBytes[tok])) \in EngineState
                 /\ RawViable(text[t] \o TokenBytes[tok])
                 /\ last' = [last EXCEPT ![t] = "ok"]
<1>1. UNCHANGED <<lazyVars, lifecycle, out>> /\ last[t] # "pending" /\ lifecycle[t] = "Active" /\ tok # Eos
  BY DEF AdvanceToken, Idle
<1>2. CASE tok \in Token /\ ConsumeToken(engine, pos[t], TokenBytes[tok]) # Dead
  <2>. DEFINE v == TokenBytes[tok]
  <2>1. v \in Seq(Byte) /\ text[t] \in Seq(Byte) /\ pos[t] = Folded(RawRun(text[t]))
    BY <1>2, TokenAssumption DEF SessionInv, SessionTypes, Tracking
  <2>2. text[t] \o v \in Seq(Byte)
    BY <2>1, ConcatProperties
  <2>3. ConsumeToken(engine, pos[t], v) = Folded(RawRun(text[t] \o v))
    BY <2>1, PositionIsRun
  <2>4. Folded(RawRun(text[t] \o v)) \in EngineState /\ RawViable(text[t] \o v)
    BY <1>2, <2>2, <2>3, PositionIsRun
  <2>5. /\ pos' = [pos EXCEPT ![t] = ConsumeToken(engine, pos[t], v)]
        /\ text' = [text EXCEPT ![t] = text[t] \o v] /\ last' = [last EXCEPT ![t] = "ok"]
    BY <1>2 DEF AdvanceToken, Answer
  <2>. QED BY <1>1, <1>2, <2>2, <2>3, <2>4, <2>5
<1>3. CASE ~ (tok \in Token /\ ConsumeToken(engine, pos[t], TokenBytes[tok]) # Dead)
  BY <1>1, <1>3 DEF AdvanceToken, Answer
<1>. QED BY <1>2, <1>3

LEMMA AllowedType ==
    ASSUME NEW u
    PROVE  Promise!Allowed(u) \subseteq Token \cup {Eos}
  BY DEF Promise!Allowed, Token

LEMMA SessionStep == SessionInv /\ [Next]_vars => SessionInv'
<1>. SUFFICES ASSUME SessionInv, [Next]_vars PROVE SessionInv'
  OBVIOUS
<1>0. RowsProofs!RowsInv'
  BY SessionStepOfRows, RowsAssumptions, RowsProofs!RowsInvStep DEF SessionInv
<1>. DEFINE Mine == SessionTypes /\ Tracking /\ PendingInv
<1>1. SessionTypes /\ Tracking /\ PendingInv /\ DOMAIN qpc = Thread /\ DOMAIN qstate = Thread
  BY DEF SessionInv, RowsProofs!RowsInv, RowsProofs!RowTypes
<1>2. ASSUME NEW t \in Thread, WriteMask(t) PROVE Mine'
  <2>1. CASE lifecycle[t] = "Stopped"
    <3>1. /\ UNCHANGED <<pos, lifecycle, text, qpc, qstate>> /\ out' = [out EXCEPT ![t] = {Eos}]
          /\ last' = [last EXCEPT ![t] = "ok"] /\ last[t] # "pending"
      BY <1>2, <2>1 DEF WriteMask, Answer, Idle, lazyVars
    <3>2. SessionTypes' /\ Tracking'
      BY <1>1, <3>1 DEF SessionTypes, Tracking, Reply
    <3>3. PendingInv'
      BY <1>1, <3>1 DEF SessionTypes, PendingInv
    <3>. QED BY <3>2, <3>3
  <2>2. CASE lifecycle[t] = "Active"
    <3>1. /\ UNCHANGED <<pos, lifecycle, text>> /\ out' = [out EXCEPT ![t] = {}]
          /\ last' = [last EXCEPT ![t] = "pending"] /\ last[t] # "pending"
          /\ qpc' = [qpc EXCEPT ![t] = "get"] /\ qstate' = [qstate EXCEPT ![t] = pos[t]]
      BY <1>2, <2>2 DEF WriteMask, Answer, Idle, Rows!Ask, Rows!Goto
    <3>2. SessionTypes' /\ Tracking'
      BY <1>1, <3>1 DEF SessionTypes, Tracking, Reply
    <3>3. PendingInv'
      BY <1>1, <2>2, <3>1 DEF SessionTypes, PendingInv
    <3>. QED BY <3>2, <3>3
  <2>. QED BY <1>1, <2>1, <2>2 DEF SessionTypes
<1>3. ASSUME NEW t \in Thread, QueryRow(t) PROVE Mine'
  <2>1. UNCHANGED sessionVars /\ Rows!QueryStep(t)
    BY <1>3 DEF QueryRow
  <2>2. SessionTypes' /\ Tracking'
    BY <1>1, <2>1 DEF SessionTypes, Tracking, sessionVars
  <2>3. PendingInv'
    BY <1>1, <2>1, QueryPlaces DEF PendingInv, sessionVars
  <2>. QED BY <2>2, <2>3
<1>4. ASSUME NEW t \in Thread, FinishMask(t) PROVE Mine'
  <2>1. /\ last[t] = "pending" /\ UNCHANGED <<pos, lifecycle, text>>
        /\ qpc' = [qpc EXCEPT ![t] = "idle"] /\ \A u \in Thread : u # t => qstate'[u] = qstate[u]
        /\ \E a \in {"ok", "Compile"} : last' = [last EXCEPT ![t] = a]
        /\ out' = out \/ out' = [out EXCEPT ![t] = Promise!Allowed(text[t])]
    BY <1>4, FinishedMask
  <2>2. SessionTypes' /\ Tracking'
    BY <1>1, <2>1, AllowedType DEF SessionTypes, Tracking, Reply
  <2>3. PendingInv'
    BY <1>1, <2>1 DEF SessionTypes, PendingInv
  <2>. QED BY <2>2, <2>3
<1>5. ASSUME NEW t \in Thread, AdvanceStopped(t) \/ AdvanceEos(t) PROVE Mine'
  <2>1. /\ UNCHANGED <<pos, out, text, qpc, qstate>> /\ last[t] # "pending"
        /\ \E a \in Reply \ {"pending"} : last' = [last EXCEPT ![t] = a]
        /\ lifecycle' = lifecycle \/ lifecycle' = [lifecycle EXCEPT ![t] = "Stopped"]
    BY <1>5 DEF AdvanceStopped, AdvanceEos, Answer, Idle, lazyVars, Reply
  <2>2. SessionTypes' /\ Tracking'
    BY <1>1, <2>1 DEF SessionTypes, Tracking
  <2>3. PendingInv'
    BY <1>1, <2>1 DEF SessionTypes, PendingInv
  <2>. QED BY <2>2, <2>3
<1>6. ASSUME NEW t \in Thread, Reset(t) PROVE Mine'
  <2>1. /\ UNCHANGED <<out, qpc, qstate>> /\ last[t] # "pending" /\ last' = [last EXCEPT ![t] = "ok"]
        /\ pos' = [pos EXCEPT ![t] = engine.start] /\ text' = [text EXCEPT ![t] = <<>>]
        /\ lifecycle' = [lifecycle EXCEPT ![t] = "Active"]
    BY <1>6 DEF Reset, Answer, Idle, lazyVars
  <2>2. <<>> \in Seq(Byte) /\ engine.start = Folded(RawRun(<<>>)) /\ engine.start \in EngineState
    BY StartPosition
  <2>3. SessionTypes' /\ Tracking'
    BY <1>1, <2>1, <2>2 DEF SessionTypes, Tracking, Reply
  <2>4. PendingInv'
    BY <1>1, <2>1 DEF SessionTypes, PendingInv
  <2>. QED BY <2>3, <2>4
<1>7. ASSUME NEW t \in Thread, NEW tok \in Token \cup ForeignId, AdvanceToken(t, tok) PROVE Mine'
  <2>. DEFINE v == text[t] \o TokenBytes[tok]
  <2>1. /\ UNCHANGED <<lazyVars, lifecycle, out>> /\ last[t] # "pending" /\ lifecycle[t] = "Active"
        /\ \/ /\ UNCHANGED <<pos, text>> /\ last' = [last EXCEPT ![t] = "Matcher(IllegalToken)"]
           \/ /\ text' = [text EXCEPT ![t] = v] /\ pos' = [pos EXCEPT ![t] = Folded(RawRun(v))]
              /\ v \in Seq(Byte) /\ Folded(RawRun(v)) \in EngineState
              /\ last' = [last EXCEPT ![t] = "ok"]
    BY <1>7, TokenStep
  <2>. HIDE DEF v
  <2>2. UNCHANGED <<lifecycle, out, qpc, qstate>>
    BY <2>1 DEF lazyVars
  <2>3. SessionTypes'
    <3>1. pos' \in [Thread -> EngineState] /\ text' \in [Thread -> Seq(Byte)]
      <4>1. ASSUME NEW p \in EngineState PROVE [pos EXCEPT ![t] = p] \in [Thread -> EngineState]
        BY <1>1 DEF SessionTypes
      <4>2. ASSUME NEW u \in Seq(Byte) PROVE [text EXCEPT ![t] = u] \in [Thread -> Seq(Byte)]
        BY <1>1 DEF SessionTypes
      <4>3. CASE UNCHANGED <<pos, text>>
        BY <1>1, <4>3 DEF SessionTypes
      <4>. QED BY <2>1, <4>1, <4>2, <4>3
    <3>2. last' \in [Thread -> Reply]
      BY <1>1, <2>1 DEF SessionTypes, Reply
    <3>. QED BY <1>1, <2>2, <3>1, <3>2 DEF SessionTypes
  <2>5. Tracking'
    <3>1. CASE UNCHANGED <<pos, text>>
      BY <1>1, <3>1 DEF Tracking
    <3>2. CASE text' = [text EXCEPT ![t] = v] /\ pos' = [pos EXCEPT ![t] = Folded(RawRun(v))]
      BY <1>1, <3>2 DEF Tracking, SessionTypes
    <3>. QED BY <2>1, <3>1, <3>2
  <2>4. PendingInv'
    BY <1>1, <2>1, <2>2 DEF SessionTypes, PendingInv
  <2>. QED BY <2>3, <2>4, <2>5
<1>8. ASSUME UNCHANGED vars PROVE Mine'
  <2>1. UNCHANGED <<pos, text, lifecycle, out, last, qpc, qstate>>
    BY <1>8 DEF vars, lazyVars, sessionVars
  <2>2. SessionTypes' /\ Tracking'
    BY <1>1, <2>1 DEF SessionTypes, Tracking
  <2>3. PendingInv'
    BY <1>1, <2>1 DEF PendingInv
  <2>. QED BY <2>2, <2>3
<1>. HIDE DEF Mine
<1>9. Mine'
  BY <1>2, <1>3, <1>4, <1>5, <1>6, <1>7, <1>8 DEF Next
<1>. QED BY <1>0, <1>9 DEF SessionInv, Mine

LEMMA SessionInvariance == Spec => []SessionInv
  BY SessionInit, SessionStep, PTL DEF Spec

----------------------------------------------------------------------------
(* The promise.                                                             *)

(* The abstract state of the sessions.                                      *)
Halted == [t \in Thread |-> lifecycle[t] = "Stopped"]
Filling == [t \in Thread |-> IF last[t] = "pending" THEN "filling" ELSE "ready"]

(* An answer that is not a pending mask leaves the abstract status alone.   *)
LEMMA AnswerKeeps ==
    ASSUME SessionTypes, NEW t \in Thread, last[t] # "pending", NEW a, a # "pending",
           last' = [last EXCEPT ![t] = a]
    PROVE  Filling' = Filling
  BY DEF Filling, SessionTypes

LEMMA SessionKeepsPromise ==
    ASSUME SessionInv, [Next]_vars
    PROVE  [Promise!Next]_(Promise!vars)
<1>. DEFINE Same == UNCHANGED <<text, Halted, out, Filling>>
<1>0. Same => UNCHANGED Promise!vars
  BY DEF Promise!vars, Halted, Filling
<1>1. SessionTypes /\ Tracking /\ PendingInv
  BY DEF SessionInv
<1>2. ASSUME NEW t \in Thread, WriteMask(t) PROVE Promise!MaskBegins(t)
  <2>1. UNCHANGED <<lifecycle, text>> /\ last[t] # "pending"
    BY <1>2 DEF WriteMask, Idle
  <2>2. Halted' = Halted /\ Filling[t] = "ready" /\ (Halted[t] <=> lifecycle[t] = "Stopped")
    BY <2>1 DEF Halted, Filling
  <2>3. CASE lifecycle[t] = "Stopped"
    <3>1. out' = [out EXCEPT ![t] = {Eos}] /\ last' = [last EXCEPT ![t] = "ok"]
      BY <1>2, <2>3 DEF WriteMask, Answer
    <3>2. Filling' = Filling
      BY <1>1, <2>1, <3>1, AnswerKeeps
    <3>. QED BY <2>1, <2>2, <2>3, <3>1, <3>2 DEF Promise!MaskBegins, Halted, Filling
  <2>4. CASE lifecycle[t] = "Active"
    <3>1. out' = [out EXCEPT ![t] = {}] /\ last' = [last EXCEPT ![t] = "pending"]
      BY <1>2, <2>4 DEF WriteMask, Answer
    <3>2. Filling' = [Filling EXCEPT ![t] = "filling"]
      BY <1>1, <3>1 DEF Filling, SessionTypes
    <3>. QED BY <2>1, <2>2, <2>4, <3>1, <3>2 DEF Promise!MaskBegins, Halted, Filling
  <2>. QED BY <1>1, <2>3, <2>4 DEF SessionTypes
<1>3. ASSUME NEW t \in Thread, QueryRow(t) PROVE Same
  BY <1>3 DEF QueryRow, sessionVars, Halted, Filling
<1>4. ASSUME NEW t \in Thread, FinishMask(t) PROVE Promise!MaskEnds(t)
  <2>1. /\ last[t] = "pending" /\ UNCHANGED <<pos, lifecycle, text>>
        /\ \E a \in {"ok", "Compile"} : last' = [last EXCEPT ![t] = a]
        /\ out' = out \/ out' = [out EXCEPT ![t] = Promise!Allowed(text[t])]
    BY <1>4, FinishedMask
  <2>2. Filling[t] = "filling" /\ Filling' = [Filling EXCEPT ![t] = "ready"]
    BY <1>1, <2>1 DEF Filling, SessionTypes
  <2>3. Halted' = Halted
    BY <2>1 DEF Halted
  <2>. QED BY <2>1, <2>2, <2>3 DEF Promise!MaskEnds, Halted, Filling
<1>5. ASSUME NEW t \in Thread, AdvanceStopped(t) PROVE Same
  <2>1. UNCHANGED <<lifecycle, out, text>> /\ last[t] # "pending"
        /\ last' = [last EXCEPT ![t] = "SessionStopped"]
    BY <1>5 DEF AdvanceStopped, Answer, Idle
  <2>2. Filling' = Filling
    BY <1>1, <2>1, AnswerKeeps
  <2>. QED BY <2>1, <2>2 DEF Halted
<1>6. ASSUME NEW t \in Thread, AdvanceEos(t) PROVE Promise!Commit(t) \/ Same
  <2>1. UNCHANGED <<pos, out, text>> /\ last[t] # "pending" /\ lifecycle[t] = "Active"
    BY <1>6 DEF AdvanceEos, Idle
  <2>2. Filling[t] = "ready" /\ ~ Halted[t] /\ (IsAccepting(engine, pos[t]) <=> RawComplete(text[t]))
    BY <1>1, <2>1, PositionIsRun DEF Filling, Halted, Tracking, SessionTypes
  <2>3. CASE IsAccepting(engine, pos[t])
    <3>1. lifecycle' = [lifecycle EXCEPT ![t] = "Stopped"] /\ last' = [last EXCEPT ![t] = "ok"]
      BY <1>6, <2>3 DEF AdvanceEos, Answer
    <3>2. Filling' = Filling
      BY <1>1, <2>1, <3>1, AnswerKeeps
    <3>3. Halted' = [Halted EXCEPT ![t] = TRUE]
      BY <1>1, <3>1 DEF Halted, SessionTypes
    <3>. QED BY <2>1, <2>2, <2>3, <3>2, <3>3 DEF Promise!Commit, Halted, Filling
  <2>4. CASE ~ IsAccepting(engine, pos[t])
    <3>1. lifecycle' = lifecycle /\ last' = [last EXCEPT ![t] = "IllegalToken"]
      BY <1>6, <2>4 DEF AdvanceEos, Answer
    <3>2. Filling' = Filling
      BY <1>1, <2>1, <3>1, AnswerKeeps
    <3>. QED BY <2>1, <3>1, <3>2 DEF Halted
  <2>. QED BY <2>3, <2>4
<1>7. ASSUME NEW t \in Thread, Reset(t) PROVE Promise!Reset(t)
  <2>1. /\ UNCHANGED out /\ last[t] # "pending" /\ last' = [last EXCEPT ![t] = "ok"]
        /\ text' = [text EXCEPT ![t] = <<>>] /\ lifecycle' = [lifecycle EXCEPT ![t] = "Active"]
    BY <1>7 DEF Reset, Answer, Idle
  <2>2. Filling' = Filling
    BY <1>1, <2>1, AnswerKeeps
  <2>3. Halted' = [Halted EXCEPT ![t] = FALSE] /\ Filling[t] = "ready"
    BY <1>1, <2>1 DEF Halted, Filling, SessionTypes
  <2>. QED BY <2>1, <2>2, <2>3 DEF Promise!Reset, Halted, Filling
<1>8. ASSUME NEW t \in Thread, NEW tok \in Token \cup ForeignId, AdvanceToken(t, tok)
      PROVE  Promise!Commit(t) \/ Same
  <2>. DEFINE v == text[t] \o TokenBytes[tok]
  <2>1. /\ UNCHANGED <<lifecycle, out>> /\ last[t] # "pending" /\ lifecycle[t] = "Active"
        /\ \/ text' = text /\ last' = [last EXCEPT ![t] = "Matcher(IllegalToken)"]
           \/ /\ tok \in Token /\ tok # Eos /\ text' = [text EXCEPT ![t] = v]
              /\ RawViable(v) /\ last' = [last EXCEPT ![t] = "ok"]
    BY <1>8, TokenStep
  <2>2. Filling' = Filling /\ Halted' = Halted /\ Filling[t] = "ready" /\ ~ Halted[t]
    BY <1>1, <2>1, AnswerKeeps DEF Halted, Filling
  <2>3. CASE text' = text
    BY <2>1, <2>2, <2>3
  <2>4. CASE tok \in Token /\ tok # Eos /\ text' = [text EXCEPT ![t] = v] /\ RawViable(v)
    <3>1. tok \in (DOMAIN TokenBytes \cap Promise!Allowed(text[t])) \ {Eos}
      BY <2>4 DEF Promise!Allowed, Token
    <3>2. Promise!Commit(t)
      BY <2>1, <2>2, <2>4, <3>1 DEF Promise!Commit, Halted, Filling
    <3>. QED BY <3>2
  <2>. QED BY <2>1, <2>3, <2>4
<1>9. UNCHANGED vars => Same
  BY DEF vars, sessionVars, Halted, Filling
<1>. HIDE DEF Same
<1>10. Promise!Next \/ Same
  <2>1. ASSUME NEW t \in Thread, Promise!MaskBegins(t) \/ Promise!MaskEnds(t) \/ Promise!Commit(t)
                                  \/ Promise!Reset(t)
        PROVE  Promise!Next
    BY <2>1 DEF Promise!Next
  <2>. QED BY <1>2, <1>3, <1>4, <1>5, <1>6, <1>7, <1>8, <1>9, <2>1 DEF Next
<1>. QED BY <1>0, <1>10

(* The sessions implement Decoder for every automaton, vocabulary, number   *)
(* of sessions and budget: through shared rows, uncached rows and failed    *)
(* walks, every mask delivered is exactly the tokens after which the text   *)
(* can still be completed, with EOS iff it is complete, and advance accepts *)
(* exactly those.                                                           *)
THEOREM SessionImplementsDecoder == Spec => ImplementsDecoder
<1>1. Init => Promise!Init
  BY DEF Init, Promise!Init
<1>. QED BY <1>1, SessionInvariance, SessionKeepsPromise, PTL DEF Spec, ImplementsDecoder, Promise!Spec
=============================================================================
