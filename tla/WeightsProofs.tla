--------------------------- MODULE WeightsProofs ---------------------------
(* The facts about Weight that the accounting proofs cite, and the least    *)
(* element that takes the place of induction in them.                       *)
EXTENDS Weights, FiniteSetTheorems, FunctionTheorems, WellFoundedInduction, TLAPS

(* A set of naturals that is not empty has a least member.                  *)
LEMMA LeastNatural ==
    ASSUME NEW T \in SUBSET Nat, T # {}
    PROVE  \E n \in T : \A m \in T : n <= m
<1>1. IsWellFoundedOn(OpToRel(<, Nat), Nat)
  BY NatLessThanWellFounded
<1>2. PICK n \in T : \A m \in T : ~ (<<m, n>> \in OpToRel(<, Nat))
  BY <1>1, WFMin
<1>3. ASSUME NEW m \in T PROVE n <= m
  <2>1. <<m, n>> \notin OpToRel(<, Nat)
    BY <1>2
  <2>2. ~ (m < n)
    BY <2>1 DEF OpToRel
  <2>. QED BY <2>2
<1>. QED BY <1>3

(* Induction up to n, on the set of the numbers that have the property.     *)
LEMMA SetInduction ==
    ASSUME NEW n \in Nat, NEW S, 0 \in S, \A i \in 1 .. n : i - 1 \in S => i \in S
    PROVE  0 .. n \subseteq S
<1>. DEFINE Missing == {i \in 0 .. n : i \notin S}
<1>. SUFFICES ASSUME Missing # {} PROVE FALSE
  OBVIOUS
<1>1. PICK m \in Missing : \A k \in Missing : m <= k
  <2>1. Missing \in SUBSET Nat
    OBVIOUS
  <2>. HIDE DEF Missing
  <2>. QED BY <2>1, LeastNatural
<1>2. m \in 1 .. n /\ m - 1 \notin Missing
  BY <1>1
<1>. QED BY <1>1, <1>2

(* The sequence g starts at q and goes on by the functions F.               *)
Follows(g, q, n, F) == g[0] = q /\ \A i \in 1 .. n : g[i] = F[i][g[i - 1]]

(* A sequence of states is determined by its first and by how each follows  *)
(* from the one before.                                                     *)
LEMMA RecursionExists ==
    ASSUME NEW n \in Nat, NEW D, NEW q \in D, NEW F \in [1 .. n -> [D -> D]]
    PROVE  \E g \in [0 .. n -> D] : Follows(g, q, n, F)
<1>. DEFINE Upto(m) == \E g \in [0 .. m -> D] : g[0] = q /\ \A i \in 1 .. m : g[i] = F[i][g[i - 1]]
<1>1. Upto(0)
  <2>. DEFINE g == [i \in 0 .. 0 |-> q]
  <2>1. g \in [0 .. 0 -> D] /\ g[0] = q /\ \A i \in 1 .. 0 : g[i] = F[i][g[i - 1]]
    OBVIOUS
  <2>. QED BY <2>1
<1>2. ASSUME NEW m \in 0 .. n, m # n, Upto(m) PROVE Upto(m + 1)
  <2>1. PICK g \in [0 .. m -> D] : g[0] = q /\ \A i \in 1 .. m : g[i] = F[i][g[i - 1]]
    BY <1>2
  <2>. DEFINE h == [i \in 0 .. m + 1 |-> IF i = m + 1 THEN F[m + 1][g[m]] ELSE g[i]]
  <2>2. F[m + 1][g[m]] \in D
    BY <1>2
  <2>3. h \in [0 .. m + 1 -> D] /\ h[0] = q
    BY <2>1, <2>2
  <2>4. ASSUME NEW i \in 1 .. m + 1 PROVE h[i] = F[i][h[i - 1]]
    BY <2>1
  <2>. QED BY <2>3, <2>4
<1>3. 0 .. n \subseteq {m \in 0 .. n : Upto(m)}
  <2>. DEFINE S == {m \in 0 .. n : Upto(m)}
  <2>. HIDE DEF Upto
  <2>1. 0 \in S
    BY <1>1
  <2>2. ASSUME NEW m \in 1 .. n, m - 1 \in S PROVE m \in S
    <3>1. Upto((m - 1) + 1) /\ (m - 1) + 1 = m
      BY <1>2, <2>2
    <3>. QED BY <3>1
  <2>. HIDE DEF S
  <2>3. 0 .. n \subseteq S
    BY <2>1, <2>2, SetInduction
  <2>. QED BY <2>3 DEF S
<1>. QED
  <2>. HIDE DEF Upto
  <2>1. Upto(n)
    BY <1>3
  <2>. QED BY <2>1 DEF Upto, Follows

(* The units of one element are as many as its quantity.                    *)
LEMMA UnitsOfOne ==
    ASSUME NEW x, NEW n \in Nat
    PROVE  /\ IsFiniteSet({x} \X (1 .. n))
           /\ Cardinality({x} \X (1 .. n)) = n
<1>1. IsFiniteSet(1 .. n) /\ Cardinality(1 .. n) = n
  BY FS_Interval
<1>2. IsFiniteSet({x}) /\ Cardinality({x}) = 1
  BY FS_Singleton
<1>3. /\ IsFiniteSet({x} \X (1 .. n))
      /\ Cardinality({x} \X (1 .. n)) = Cardinality({x}) * Cardinality(1 .. n)
  BY <1>1, <1>2, FS_Product
<1>. QED BY <1>1, <1>2, <1>3

(* Finitely many elements with natural quantities have finitely many units. *)
LEMMA UnitsFinite ==
    ASSUME NEW S, IsFiniteSet(S), NEW f, \A x \in S : f[x] \in Nat
    PROVE  /\ IsFiniteSet(Units(f, S))
           /\ Weight(f, S) \in Nat
<1>. DEFINE T == {{x} \X (1 .. f[x]) : x \in S}
            g == [x \in S |-> {x} \X (1 .. f[x])]
<1>1. g \in Surjection(S, T)
  BY DEF Surjection
<1>2. IsFiniteSet(T)
  BY <1>1, FS_Surjection
<1>3. ASSUME NEW U \in T
      PROVE  IsFiniteSet(U)
  <2>1. PICK x \in S : U = {x} \X (1 .. f[x])
    OBVIOUS
  <2>. QED BY <2>1, UnitsOfOne
<1>4. IsFiniteSet(UNION T)
  BY <1>2, <1>3, FS_UNION
<1>. QED BY <1>4, FS_CardinalityType DEF Units, Weight

LEMMA WeightEmpty ==
    ASSUME NEW f
    PROVE  Weight(f, {}) = 0
<1>1. Units(f, {}) = {}
  BY DEF Units
<1>. QED BY <1>1, FS_EmptySet DEF Weight

(* Only the quantities of the members count.                                *)
LEMMA WeightCong ==
    ASSUME NEW S, NEW f, NEW g, \A x \in S : f[x] = g[x]
    PROVE  Weight(f, S) = Weight(g, S)
<1>1. Units(f, S) = Units(g, S)
  BY DEF Units
<1>. QED BY <1>1 DEF Weight

(* Two disjoint sets weigh as much as their union.                          *)
LEMMA WeightUnion ==
    ASSUME NEW S, NEW T, IsFiniteSet(S), IsFiniteSet(T), S \cap T = {},
           NEW f, \A x \in S \cup T : f[x] \in Nat
    PROVE  Weight(f, S \cup T) = Weight(f, S) + Weight(f, T)
<1>1. IsFiniteSet(Units(f, S)) /\ IsFiniteSet(Units(f, T))
  BY UnitsFinite
<1>2. Units(f, S \cup T) = Units(f, S) \cup Units(f, T)
  BY DEF Units
<1>3. Units(f, S) \cap Units(f, T) = {}
  BY DEF Units
<1>4. Cardinality(Units(f, S) \cap Units(f, T)) = 0
  BY <1>3, FS_EmptySet
<1>5. Cardinality(Units(f, S)) \in Nat /\ Cardinality(Units(f, T)) \in Nat
  BY <1>1, FS_CardinalityType
<1>6. Cardinality(Units(f, S) \cup Units(f, T)) =
        Cardinality(Units(f, S)) + Cardinality(Units(f, T))
            - Cardinality(Units(f, S) \cap Units(f, T))
  BY <1>1, FS_Union
<1>7. Cardinality(Units(f, S) \cup Units(f, T)) =
        Cardinality(Units(f, S)) + Cardinality(Units(f, T))
  BY <1>4, <1>5, <1>6
<1>8. Weight(f, S \cup T) = Cardinality(Units(f, S) \cup Units(f, T))
  BY <1>2, Zenon DEF Weight
<1>9. Weight(f, S) = Cardinality(Units(f, S)) /\ Weight(f, T) = Cardinality(Units(f, T))
  BY DEF Weight
<1>. QED BY <1>7, <1>8, <1>9

LEMMA WeightOne ==
    ASSUME NEW x, NEW f, f[x] \in Nat
    PROVE  Weight(f, {x}) = f[x]
<1>1. Units(f, {x}) = {x} \X (1 .. f[x])
  BY DEF Units
<1>. QED BY <1>1, UnitsOfOne DEF Weight

LEMMA WeightAdd ==
    ASSUME NEW S, IsFiniteSet(S), NEW x, x \notin S,
           NEW f, \A y \in S \cup {x} : f[y] \in Nat
    PROVE  Weight(f, S \cup {x}) = Weight(f, S) + f[x]
<1>1. IsFiniteSet({x}) /\ S \cap {x} = {}
  BY FS_Singleton
<1>2. Weight(f, S \cup {x}) = Weight(f, S) + Weight(f, {x})
  BY <1>1, WeightUnion
<1>. QED BY <1>2, WeightOne

LEMMA WeightRemove ==
    ASSUME NEW S, IsFiniteSet(S), NEW x \in S, NEW f, \A y \in S : f[y] \in Nat
    PROVE  /\ Weight(f, S \ {x}) = Weight(f, S) - f[x]
           /\ f[x] <= Weight(f, S)
<1>1. IsFiniteSet(S \ {x}) /\ x \notin S \ {x} /\ (S \ {x}) \cup {x} = S
  BY FS_RemoveElement
<1>2. Weight(f, S) = Weight(f, S \ {x}) + f[x]
  BY <1>1, WeightAdd
<1>3. Weight(f, S \ {x}) \in Nat /\ f[x] \in Nat
  BY <1>1, UnitsFinite
<1>. QED BY <1>2, <1>3
=============================================================================
