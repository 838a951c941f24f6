-------------------------- MODULE TrieCacheProofs --------------------------
(***************************************************************************)
(* Proofs about the single-flight cache, alone and composed with a gate.   *)
(*                                                                         *)
(* Alone, which is the artifact cache, for any callers, keys, charges and  *)
(* budget: its byte total is exact, its budget is kept until the log is    *)
(* first compacted, a key never has two builders, and no waiter is left    *)
(* behind.  The store and the callers have an inductive invariant each;    *)
(* the only fact the second needs of the first is which keys a critical    *)
(* section can make retained.                                              *)
(*                                                                         *)
(* The trie cache composes it with the gate: it implements the cache, so   *)
(* that what is proved of the cache holds there as well, and the builds    *)
(* that run together keep the limits of its gate, counted in the estimates *)
(* of the vocabularies being built.                                        *)
(***************************************************************************)
EXTENDS TrieCache, WeightsProofs, SequenceTheorems

----------------------------------------------------------------------------
(* The retained map, its byte total and its touch log.                      *)

Record == {Candidate[k] : k \in Key} \X Nat

Covers(st) ==
    \A k \in Retained(st) :
        \E i \in 1 .. Len(st.log) : st.log[i] = <<Candidate[k], st.last[k]>>

(* What holds of the log until the first compaction: it has at most one     *)
(* record per tick, and it lets eviction reach every entry.                 *)
LogOK(st) ==
    /\ st.log \in Seq(Record)
    /\ Len(st.log) <= st.tick
    /\ Covers(st)

(* A store; of its log nothing is said.                                     *)
StoreShape(st) == st \in [last : [Key -> Nat], bytes : Nat, tick : Nat, log : {st.log}]

StoreInv(st) ==
    /\ StoreShape(st)
    /\ st.bytes = Weight(Size, Retained(st))
    /\ st.tick <= 4 + LogSlack => LogOK(st) /\ st.bytes <= Budget

(* Two of the field updates of a store.                                     *)
Pushed(st, c, g) == [st EXCEPT !.tick = c, !.log = g]
Evicted(st, l, b, g) == [st EXCEPT !.last = l, !.bytes = b, !.log = g]

LEMMA PushedFields ==
    ASSUME NEW st, StoreShape(st), NEW c \in Nat, NEW g
    PROVE  /\ StoreShape(Pushed(st, c, g))
           /\ Pushed(st, c, g).last = st.last /\ Pushed(st, c, g).bytes = st.bytes
           /\ Pushed(st, c, g).tick = c /\ Pushed(st, c, g).log = g
  BY DEF StoreShape, Pushed

LEMMA EvictedFields ==
    ASSUME NEW st, StoreShape(st), NEW l \in [Key -> Nat], NEW b \in Nat, NEW g
    PROVE  /\ StoreShape(Evicted(st, l, b, g))
           /\ Evicted(st, l, b, g).last = l /\ Evicted(st, l, b, g).bytes = b
           /\ Evicted(st, l, b, g).tick = st.tick /\ Evicted(st, l, b, g).log = g
  BY DEF StoreShape, Evicted

(* Any set of keys is finite and has a weight.                              *)
LEMMA KeysWeigh ==
    ASSUME NEW S, S \subseteq Key
    PROVE  IsFiniteSet(S) /\ Weight(Size, S) \in Nat /\ \A k \in S : Size[k] \in Nat
<1>1. IsFiniteSet(S)
  BY KeyAssumption, FS_Subset
<1>2. \A k \in S : Size[k] \in Nat
  BY SizeAssumption
<1>. QED BY <1>1, <1>2, UnitsFinite

(* Taking keys out of a set takes their charges out of its weight.          *)
LEMMA WeightWithout ==
    ASSUME NEW S, S \subseteq Key, NEW V, V \subseteq S
    PROVE  /\ Weight(Size, S \ V) = Weight(Size, S) - Weight(Size, V)
           /\ Weight(Size, V) <= Weight(Size, S)
<1>1. /\ IsFiniteSet(V) /\ IsFiniteSet(S \ V) /\ V \cap (S \ V) = {}
      /\ \A k \in V \cup (S \ V) : Size[k] \in Nat
      /\ Weight(Size, V) \in Nat /\ Weight(Size, S \ V) \in Nat
  BY KeysWeigh
<1>2. Weight(Size, V \cup (S \ V)) = Weight(Size, V) + Weight(Size, S \ V)
  BY <1>1, WeightUnion
<1>3. Weight(Size, V \cup (S \ V)) = Weight(Size, S)
  <2>1. V \cup (S \ V) = S
    OBVIOUS
  <2>. QED BY <2>1, Zenon
<1>. QED BY <1>1, <1>2, <1>3

(* The eviction loop ends, and either made room or emptied the log.         *)
LEMMA PoppedStops ==
    ASSUME NEW st, StoreShape(st), st.log \in Seq(Record), NEW need \in Nat
    PROVE  LET n == Popped(st, need)
           IN  /\ n \in 0 .. Len(st.log)
               /\ BytesAfter(st, n) + need <= Budget \/ n = Len(st.log)
<1>. DEFINE Stop(n) == BytesAfter(st, n) + need <= Budget \/ n = Len(st.log)
            T == {n \in 0 .. Len(st.log) : Stop(n)}
<1>1. Len(st.log) \in Nat
  BY LenProperties
<1>2. ASSUME NEW n \in Nat PROVE BytesAfter(st, n) \in Int
  <2>1. Victims(st, n) \subseteq Key
    BY DEF Victims, Retained
  <2>. QED BY <2>1, KeysWeigh DEF BytesAfter, StoreShape
<1>3. T \in SUBSET Nat /\ Len(st.log) \in T
  BY <1>1
<1>4. PICK n \in T : \A m \in T : n <= m
  BY <1>3, LeastNatural
<1>5. \A m \in 0 .. n - 1 : BytesAfter(st, m) + need > Budget
  <2>. SUFFICES ASSUME NEW m \in 0 .. n - 1 PROVE BytesAfter(st, m) + need > Budget
    OBVIOUS
  <2>1. m \in 0 .. Len(st.log) /\ m \notin T
    BY <1>1, <1>4
  <2>2. ~ Stop(m) /\ m \in Nat
    BY <2>1
  <2>. QED BY <1>2, <2>2, BudgetAssumption
<1>6. \E x \in 0 .. Len(st.log) : Stop(x) /\ \A m \in 0 .. x - 1 : BytesAfter(st, m) + need > Budget
  BY <1>4, <1>5
<1>. QED BY <1>6 DEF Popped

(* A touch leaves the map and its bytes alone and advances the clock; until *)
(* the first compaction it only appends to the log.                         *)
LEMMA TouchEffect ==
    ASSUME NEW st, StoreShape(st), NEW k \in Key
    PROVE  LET new == Touch(st, k)
           IN  /\ StoreShape(new)
               /\ new.last = st.last /\ new.bytes = st.bytes /\ new.tick = st.tick + 1
               /\ /\ new.tick <= 4 + LogSlack
                  /\ st.log \in Seq(Record)
                  /\ Len(st.log) <= st.tick
                  => new.log = Append(st.log, <<Candidate[k], st.tick + 1>>)
<1>. DEFINE pushed == [st EXCEPT !.tick = @ + 1,
                                 !.log = Append(@, <<Candidate[k], st.tick + 1>>)]
            new == Touch(st, k)
<1>1. /\ StoreShape(pushed) /\ pushed.last = st.last /\ pushed.bytes = st.bytes
      /\ pushed.tick = st.tick + 1
      /\ pushed.log = Append(st.log, <<Candidate[k], st.tick + 1>>)
  <2>. DEFINE c == st.tick + 1
              g == Append(st.log, <<Candidate[k], st.tick + 1>>)
  <2>1. c \in Nat
    BY DEF StoreShape
  <2>2. pushed = Pushed(st, c, g)
    BY DEF Pushed
  <2>. HIDE DEF pushed, c, g
  <2>3. /\ StoreShape(pushed) /\ pushed.last = st.last /\ pushed.bytes = st.bytes
        /\ pushed.tick = c /\ pushed.log = g
    BY <2>1, <2>2, PushedFields
  <2>. QED BY <2>3 DEF c, g
<1>2. /\ StoreShape(CompactLru(pushed)) /\ CompactLru(pushed).last = st.last
      /\ CompactLru(pushed).bytes = st.bytes /\ CompactLru(pushed).tick = st.tick + 1
  <2>. DEFINE kept == CompactLru(pushed).log
  <2>1. CompactLru(pushed) = [pushed EXCEPT !.log = kept]
    BY <1>1 DEF CompactLru, StoreShape
  <2>. HIDE DEF kept
  <2>. QED BY <1>1, <2>1 DEF StoreShape
<1>3. new = CompactLru(pushed) \/ new = pushed
  BY DEF Touch
<1>4. ASSUME new.tick <= 4 + LogSlack, st.log \in Seq(Record), Len(st.log) <= st.tick
      PROVE  new = pushed
  <2>1. Len(pushed.log) = Len(st.log) + 1 /\ Len(st.log) \in Nat
    BY <1>1, <1>4
  <2>2. st.tick \in Nat /\ new.tick = st.tick + 1
    BY <1>1, <1>2, <1>3 DEF StoreShape
  <2>3. CompactAt(st) \in Nat /\ CompactAt(st) >= 4 + LogSlack
    <3>1. Cardinality(Retained(st)) \in Nat
      BY KeysWeigh, FS_CardinalityType DEF Retained
    <3>. QED BY <3>1, SlackAssumption DEF CompactAt, AtLeastOne
  <2>4. ~ (Len(pushed.log) > CompactAt(st))
    BY <1>4, <2>1, <2>2, <2>3, SlackAssumption
  <2>. QED BY <2>4 DEF Touch
<1>. HIDE DEF pushed
<1>. QED BY <1>1, <1>2, <1>3, <1>4

(* Eviction removes keys, never adds one, and keeps the total exact; until  *)
(* the first compaction it also makes the room it was asked for.            *)
LEMMA EvictEffect ==
    ASSUME NEW st, StoreInv(st), NEW need \in Nat, need <= Budget
    PROVE  LET new == EvictUntilFits(st, need)
           IN  /\ StoreShape(new)
               /\ new.tick = st.tick
               /\ Retained(new) \subseteq Retained(st)
               /\ new.bytes = Weight(Size, Retained(new))
               /\ st.tick <= 4 + LogSlack => LogOK(new) /\ new.bytes + need <= Budget
<1>. DEFINE n == Popped(st, need)
            V == Victims(st, n)
            new == EvictUntilFits(st, need)
<1>1. StoreShape(st) /\ st.bytes = Weight(Size, Retained(st))
  BY DEF StoreInv
<1>2. V \subseteq Retained(st) /\ Retained(st) \subseteq Key
  BY DEF Victims, Retained
<1>3. /\ Weight(Size, Retained(st) \ V) = Weight(Size, Retained(st)) - Weight(Size, V)
      /\ Weight(Size, Retained(st) \ V) \in Nat
  BY <1>2, WeightWithout, KeysWeigh
<1>4. BytesAfter(st, n) = Weight(Size, Retained(st) \ V) /\ BytesAfter(st, n) \in Nat
  BY <1>1, <1>3 DEF BytesAfter
<1>5. /\ StoreShape(new)
      /\ new.last = [k \in Key |-> IF k \in V THEN Absent ELSE st.last[k]]
      /\ new.bytes = BytesAfter(st, n)
      /\ new.tick = st.tick
      /\ new.log = SubSeq(st.log, n + 1, Len(st.log))
  <2>. DEFINE l == [k \in Key |-> IF k \in V THEN Absent ELSE st.last[k]]
              g == SubSeq(st.log, n + 1, Len(st.log))
  <2>1. l \in [Key -> Nat]
    BY <1>1 DEF StoreShape, Absent
  <2>2. new = Evicted(st, l, BytesAfter(st, n), g)
    BY DEF EvictUntilFits, Evicted
  <2>. HIDE DEF new, n, V, l, g
  <2>3. /\ StoreShape(new) /\ new.last = l /\ new.bytes = BytesAfter(st, n)
        /\ new.tick = st.tick /\ new.log = g
    BY <1>1, <1>4, <2>1, <2>2, EvictedFields
  <2>. QED BY <2>3 DEF l, g
<1>6. Retained(new) = Retained(st) \ V
  BY <1>1, <1>2, <1>5 DEF Retained, StoreShape, Absent
<1>7. new.bytes = Weight(Size, Retained(new))
  BY <1>4, <1>5, <1>6
<1>9. ASSUME st.tick <= 4 + LogSlack
      PROVE  LogOK(new) /\ new.bytes + need <= Budget
  <2>1. st.log \in Seq(Record) /\ Len(st.log) <= st.tick /\ Covers(st)
    BY <1>9 DEF StoreInv, LogOK
  <2>2. n \in 0 .. Len(st.log) /\ (BytesAfter(st, n) + need <= Budget \/ n = Len(st.log))
    BY <1>1, <2>1, PoppedStops
  <2>3. Len(st.log) \in Nat
    BY <2>1
  <2>4. /\ new.log \in Seq(Record)
        /\ Len(new.log) = Len(st.log) - n
        /\ \A i \in 1 .. Len(st.log) - n : new.log[i] = st.log[n + i]
    <3>. HIDE DEF n
    <3>1. n + 1 \in 1 .. Len(st.log) + 1 /\ Len(st.log) \in n + 1 - 1 .. Len(st.log)
      BY <2>2, <2>3
    <3>. QED BY <1>5, <2>1, <2>2, <2>3, <3>1, SubSeqProperties
  <2>5. Covers(new)
    <3>. SUFFICES ASSUME NEW k \in Retained(new)
                  PROVE  \E i \in 1 .. Len(new.log) : new.log[i] = <<Candidate[k], new.last[k]>>
      BY DEF Covers
    <3>1. k \in Retained(st) /\ k \notin V /\ new.last[k] = st.last[k]
      BY <1>2, <1>5, <1>6
    <3>2. PICK i \in 1 .. Len(st.log) : st.log[i] = <<Candidate[k], st.last[k]>>
      BY <2>1, <3>1 DEF Covers
    <3>3. ~ (i \in 1 .. n)
      BY <3>1, <3>2 DEF Victims
    <3>4. i - n \in 1 .. Len(st.log) - n /\ n + (i - n) = i
      BY <2>2, <2>3, <3>2, <3>3
    <3>5. new.log[i - n] = st.log[i]
      BY <2>4, <3>4
    <3>. QED BY <2>4, <3>1, <3>2, <3>4, <3>5
  <2>6. LogOK(new)
    BY <1>1, <1>5, <2>1, <2>2, <2>3, <2>4, <2>5 DEF LogOK, StoreShape
  <2>7. CASE n = Len(st.log)
    <3>1. Retained(st) = V
      BY <2>1, <2>7, <1>2 DEF Covers, Victims
    <3>2. new.bytes = Weight(Size, {})
      BY <1>4, <1>5, <3>1
    <3>. QED BY <2>6, <3>2, WeightEmpty
  <2>. QED BY <1>5, <2>2, <2>6, <2>7
<1>. QED BY <1>2, <1>5, <1>6, <1>7, <1>9

(* Storing the new tick in the touched entry makes its record the live one. *)
LEMMA StampEffect ==
    ASSUME NEW st, StoreShape(st), NEW k \in Key,
           NEW u, StoreShape(u), u.last = st.last, u.tick = st.tick + 1,
           u.tick <= 4 + LogSlack /\ LogOK(st) => u.log = Append(st.log, <<Candidate[k], u.tick>>)
    PROVE  LET new == SetLastUsed(u, k)
           IN  /\ StoreShape(new)
               /\ new.bytes = u.bytes /\ new.tick = u.tick
               /\ Retained(new) = Retained(st) \cup {k}
               /\ u.tick <= 4 + LogSlack /\ LogOK(st) => LogOK(new)
<1>. DEFINE new == SetLastUsed(u, k)
<1>1. /\ StoreShape(new) /\ new.bytes = u.bytes /\ new.tick = u.tick /\ new.log = u.log
      /\ new.last = [st.last EXCEPT ![k] = u.tick]
  BY DEF SetLastUsed, StoreShape
<1>. HIDE DEF new
<1>2. st.last \in [Key -> Nat] /\ st.tick \in Nat /\ u.tick \in Nat \ {0}
  BY DEF StoreShape
<1>3. Retained(new) = Retained(st) \cup {k}
  BY <1>1, <1>2 DEF Retained, Absent
<1>4. ASSUME u.tick <= 4 + LogSlack, LogOK(st)
      PROVE  LogOK(new)
  <2>1. /\ st.log \in Seq(Record) /\ Len(st.log) \in Nat /\ Len(st.log) <= st.tick
        /\ <<Candidate[k], u.tick>> \in Record
    BY <1>2, <1>4 DEF LogOK, Record
  <2>2. new.log = Append(st.log, <<Candidate[k], u.tick>>)
    BY <1>1, <1>4
  <2>. HIDE DEF Record
  <2>3. /\ new.log \in Seq(Record) /\ Len(new.log) = Len(st.log) + 1
        /\ \A i \in 1 .. Len(st.log) : new.log[i] = st.log[i]
        /\ new.log[Len(st.log) + 1] = <<Candidate[k], u.tick>>
    BY <2>1, <2>2, AppendProperties
  <2>4. ASSUME NEW j \in Retained(new)
        PROVE  \E i \in 1 .. Len(new.log) : new.log[i] = <<Candidate[j], new.last[j]>>
    <3>1. CASE j = k
      <4>1. new.last[j] = u.tick
        BY <1>1, <1>2, <3>1
      <4>2. Len(st.log) + 1 \in 1 .. Len(new.log)
        BY <2>1, <2>3
      <4>. QED BY <2>3, <3>1, <4>1, <4>2
    <3>2. CASE j # k
      <4>1. j \in Retained(st) /\ new.last[j] = st.last[j]
        BY <1>1, <1>2, <1>3, <2>4, <3>2 DEF Retained
      <4>2. PICK i \in 1 .. Len(st.log) : st.log[i] = <<Candidate[j], st.last[j]>>
        BY <1>4, <4>1 DEF LogOK, Covers
      <4>3. i \in 1 .. Len(new.log) /\ new.log[i] = st.log[i]
        BY <2>1, <2>3, <4>2
      <4>. QED BY <4>1, <4>2, <4>3
    <3>. QED BY <3>1, <3>2
  <2>5. Covers(new)
    BY <2>4 DEF Covers
  <2>6. Len(new.log) <= new.tick
    BY <1>1, <1>2, <2>1, <2>3
  <2>. QED BY <2>3, <2>5, <2>6 DEF LogOK
<1>. QED BY <1>1, <1>3, <1>4 DEF new

(* A hit keeps the set of retained keys.                                    *)
LEMMA HitStore ==
    ASSUME NEW st, StoreInv(st), NEW k \in Retained(st)
    PROVE  LET new == SetLastUsed(Touch(st, k), k)
           IN  StoreInv(new) /\ Retained(new) = Retained(st)
<1>. DEFINE u == Touch(st, k)
            new == SetLastUsed(u, k)
<1>1. StoreShape(st) /\ k \in Key /\ st.bytes = Weight(Size, Retained(st)) /\ st.tick \in Nat
  BY DEF StoreInv, Retained, StoreShape
<1>2. /\ StoreShape(u) /\ u.last = st.last /\ u.bytes = st.bytes /\ u.tick = st.tick + 1
      /\ u.tick <= 4 + LogSlack /\ LogOK(st) => u.log = Append(st.log, <<Candidate[k], u.tick>>)
  BY <1>1, TouchEffect DEF LogOK
<1>. HIDE DEF u
<1>3. /\ StoreShape(new) /\ new.bytes = u.bytes /\ new.tick = u.tick
      /\ Retained(new) = Retained(st) \cup {k}
      /\ u.tick <= 4 + LogSlack /\ LogOK(st) => LogOK(new)
  BY <1>1, <1>2, StampEffect
<1>. HIDE DEF new
<1>4. Retained(new) = Retained(st)
  BY <1>3
<1>5. new.bytes = Weight(Size, Retained(new))
  BY <1>1, <1>2, <1>3, <1>4
<1>6. ASSUME new.tick <= 4 + LogSlack PROVE LogOK(new) /\ new.bytes <= Budget
  <2>1. st.tick <= 4 + LogSlack
    BY <1>1, <1>2, <1>3, <1>6, SlackAssumption
  <2>. QED BY <1>2, <1>3, <1>6, <2>1 DEF StoreInv
<1>. QED BY <1>3, <1>4, <1>5, <1>6 DEF StoreInv, new, u

(* Retaining a value makes its key retained, and no other.                  *)
LEMMA RetainStore ==
    ASSUME NEW st, StoreInv(st), NEW k \in Key, k \notin Retained(st)
    PROVE  StoreInv(Retain(st, k)) /\ Retained(Retain(st, k)) \subseteq Retained(st) \cup {k}
<1>1. CASE Size[k] > Budget
  BY <1>1 DEF Retain
<1>2. CASE ~ (Size[k] > Budget)
  <2>. DEFINE room == EvictUntilFits(st, Size[k])
              touched == Touch(room, k)
              u == [touched EXCEPT !.bytes = @ + Size[k]]
              new == SetLastUsed(u, k)
  <2>1. new = Retain(st, k) /\ Size[k] \in Nat /\ Size[k] <= Budget
    BY <1>2, SizeAssumption, BudgetAssumption DEF Retain
  <2>2. /\ StoreShape(room) /\ room.tick = st.tick
        /\ Retained(room) \subseteq Retained(st)
        /\ room.bytes = Weight(Size, Retained(room))
        /\ st.tick <= 4 + LogSlack => LogOK(room) /\ room.bytes + Size[k] <= Budget
    BY <2>1, EvictEffect
  <2>. HIDE DEF room
  <2>3. /\ StoreShape(touched) /\ touched.last = room.last /\ touched.bytes = room.bytes
        /\ touched.tick = room.tick + 1
        /\ touched.tick <= 4 + LogSlack /\ LogOK(room)
             => touched.log = Append(room.log, <<Candidate[k], touched.tick>>)
    BY <2>2, TouchEffect DEF LogOK
  <2>. HIDE DEF touched
  <2>4. /\ StoreShape(u) /\ u.last = touched.last /\ u.tick = touched.tick
        /\ u.log = touched.log /\ u.bytes = touched.bytes + Size[k]
    BY <2>1, <2>3 DEF StoreShape
  <2>. HIDE DEF u
  <2>5. /\ StoreShape(new) /\ new.bytes = u.bytes /\ new.tick = u.tick
        /\ Retained(new) = Retained(room) \cup {k}
        /\ u.tick <= 4 + LogSlack /\ LogOK(room) => LogOK(new)
    BY <2>2, <2>3, <2>4, StampEffect
  <2>. HIDE DEF new
  <2>6. new.bytes = Weight(Size, Retained(new))
    <3>1. k \notin Retained(room) /\ Retained(room) \subseteq Key
      BY <2>2 DEF Retained
    <3>2. IsFiniteSet(Retained(room)) /\ \A j \in Retained(room) \cup {k} : Size[j] \in Nat
      BY <2>1, <3>1, KeysWeigh
    <3>3. Weight(Size, Retained(room) \cup {k}) = Weight(Size, Retained(room)) + Size[k]
      BY <3>1, <3>2, WeightAdd
    <3>. QED BY <2>2, <2>3, <2>4, <2>5, <3>3
  <2>7. ASSUME new.tick <= 4 + LogSlack PROVE LogOK(new) /\ new.bytes <= Budget
    <3>1. st.tick \in Nat /\ new.tick = st.tick + 1
      BY <2>2, <2>3, <2>4, <2>5 DEF StoreShape
    <3>2. st.tick <= 4 + LogSlack
      BY <2>7, <3>1, SlackAssumption
    <3>. QED BY <2>2, <2>3, <2>4, <2>5, <2>7, <3>2
  <2>. QED BY <2>1, <2>2, <2>5, <2>6, <2>7 DEF StoreInv
<1>. QED BY <1>1, <1>2

LEMMA EmptyStoreInv ==
    StoreInv(EmptyStore) /\ Retained(EmptyStore) = {}
<1>1. /\ StoreShape(EmptyStore) /\ Retained(EmptyStore) = {} /\ EmptyStore.bytes = 0
      /\ EmptyStore.log = <<>> /\ EmptyStore.tick = 0
  BY DEF EmptyStore, StoreShape, Retained, Absent
<1>2. LogOK(EmptyStore)
  BY <1>1 DEF LogOK, Covers
<1>. QED BY <1>1, <1>2, WeightEmpty, BudgetAssumption DEF StoreInv

----------------------------------------------------------------------------
(* The callers, their slots and the in-flight table.                        *)

(* A builder that has not filled its slot yet, and one that has.            *)
Filling == {"building", "publishOk", "publishErr", "unwind"}
Filled == {"retireOk", "retireErr", "unwindRemove"}

CallerTypes ==
    /\ inFlight \in [Key -> Slot \cup {NoSlot}]
    /\ DOMAIN result = Slot
    /\ pc \in [Thread -> {"idle", "lookup", "waiting"} \cup Builder]
    /\ key \in [Thread -> Key \cup {NoKey}]
    /\ mine \in [Thread -> Slot \cup {NoSlot}]
    /\ \A t \in Thread : pc[t] # "idle" => key[t] \in Key
    /\ \A t \in Thread : pc[t] \in Builder \cup {"waiting"} <=> mine[t] \in Slot

(* A slot serves one key.                                                   *)
SlotsAgree ==
    \A t, u \in Thread : mine[t] = mine[u] /\ mine[t] \in Slot => key[t] = key[u]

(* The slot of a builder is empty until it fills it, with its own outcome.  *)
BuilderFills ==
    \A t \in Thread :
        /\ pc[t] \in Filling => result[mine[t]] = Pending
        /\ pc[t] \in Filled => result[mine[t]] \in {Err, Ok(key[t])}

CallersInv == CallerTypes /\ SlotsAgree /\ BuilderFills /\ SingleFlight /\ WaiterIsServed

LEMMA OutcomesDiffer ==
    Pending # Err /\ \A k \in Key : Pending # Ok(k)
  BY DEF Pending, Err, Ok

LEMMA CallersInit ==
    CacheInit => CallersInv
<1>. SUFFICES ASSUME CacheInit PROVE CallersInv
  OBVIOUS
<1>1. CallerTypes
  BY NullAssumption DEF CacheInit, CallerTypes, Builder
<1>2. SlotsAgree /\ BuilderFills /\ SingleFlight /\ WaiterIsServed
  BY DEF CacheInit, SlotsAgree, BuilderFills, SingleFlight, WaiterIsServed, Builder, Filling, Filled
<1>. QED BY <1>1, <1>2 DEF CallersInv

(* A call starts without a slot.                                            *)
LEMMA CallKeeps ==
    ASSUME CallersInv, NEW t \in Thread, NEW k \in Key, Call(t, k)
    PROVE  CallersInv'
<1>1. CallerTypes'
  BY DEF CallersInv, CallerTypes, Call, Builder
<1>2. SlotsAgree'
  BY DEF CallersInv, CallerTypes, SlotsAgree, Call, Builder
<1>3. BuilderFills'
  BY DEF CallersInv, CallerTypes, BuilderFills, Call, Builder, Filling, Filled
<1>4. SingleFlight'
  BY DEF CallersInv, CallerTypes, SingleFlight, Call, Builder
<1>5. WaiterIsServed'
  BY DEF CallersInv, CallerTypes, WaiterIsServed, Call, Builder
<1>. QED BY <1>1, <1>2, <1>3, <1>4, <1>5 DEF CallersInv

(* The outcome of a build is known before its slot is filled.               *)
LEMMA BuildKeeps ==
    ASSUME CallersInv, NEW t \in Thread, BuildStep(t)
    PROVE  CallersInv'
<1>1. CallerTypes'
  BY DEF CallersInv, CallerTypes, BuildStep, BuildOk, BuildErr, BuildPanic, Goto, Builder
<1>2. SlotsAgree'
  BY DEF CallersInv, CallerTypes, SlotsAgree, BuildStep, BuildOk, BuildErr, BuildPanic, Goto
<1>3. BuilderFills'
  BY DEF CallersInv, CallerTypes, BuilderFills, BuildStep, BuildOk, BuildErr, BuildPanic, Goto,
         Filling, Filled
<1>4. SingleFlight'
  BY DEF CallersInv, CallerTypes, SingleFlight, BuildStep, BuildOk, BuildErr, BuildPanic, Goto,
         Builder
<1>5. WaiterIsServed'
  BY DEF CallersInv, CallerTypes, WaiterIsServed, BuildStep, BuildOk, BuildErr, BuildPanic, Goto
<1>. QED BY <1>1, <1>2, <1>3, <1>4, <1>5 DEF CallersInv

(* A caller joins a build: its slot is the one the builder of its key holds. *)
LEMMA JoinKeeps ==
    ASSUME CallersInv, NEW t \in Thread, Join(t)
    PROVE  CallersInv'
<1>1. CallerTypes /\ SlotsAgree /\ BuilderFills /\ SingleFlight /\ WaiterIsServed
  BY DEF CallersInv
<1>2. key[t] \in Key /\ inFlight[key[t]] \in Slot
  BY <1>1 DEF CallerTypes, Join
<1>3. PICK b \in Thread : pc[b] \in Builder /\ key[b] = key[t] /\ mine[b] = inFlight[key[t]]
  BY <1>1, <1>2, NullAssumption DEF SingleFlight
<1>4. /\ b # t /\ mine' = [mine EXCEPT ![t] = mine[b]]
      /\ pc' = [pc EXCEPT ![t] = "waiting"] /\ UNCHANGED <<key, inFlight, result, store>>
  BY <1>3 DEF Join, Goto, Builder
<1>5. CallerTypes'
  BY <1>1, <1>2, <1>3, <1>4 DEF CallerTypes, Builder
<1>6. SlotsAgree'
  BY <1>1, <1>3, <1>4 DEF CallerTypes, SlotsAgree
<1>7. BuilderFills'
  BY <1>1, <1>4 DEF CallerTypes, BuilderFills, Filling, Filled
<1>8. SingleFlight'
  BY <1>1, <1>4, Z3 DEF CallerTypes, SingleFlight, Builder, Join
<1>9. WaiterIsServed'
  <2>. SUFFICES ASSUME NEW w \in Thread, pc'[w] = "waiting"
                PROVE  \/ result[mine'[w]] \in {Err, Ok(key[w])}
                       \/ /\ result[mine'[w]] = Pending
                          /\ \E u \in Thread : /\ mine'[u] = mine'[w] /\ key[u] = key[w]
                                               /\ pc'[u] \in Filling
    BY <1>4 DEF WaiterIsServed, Filling
  <2>1. CASE w = t
    <3>1. pc[b] \in Filling \/ pc[b] \in Filled
      BY <1>3 DEF Builder, Filling, Filled
    <3>. QED BY <1>1, <1>3, <1>4, <2>1, <3>1 DEF CallerTypes, BuilderFills
  <2>2. CASE w # t
    BY <1>1, <1>4, <2>2 DEF CallerTypes, WaiterIsServed, Filling, Join
  <2>. QED BY <2>1, <2>2
<1>. QED BY <1>5, <1>6, <1>7, <1>8, <1>9 DEF CallersInv

(* A caller claims a key: the slot is new to everybody.                     *)
LEMMA ClaimKeeps ==
    ASSUME CallersInv, NEW t \in Thread, Claim(t)
    PROVE  CallersInv'
<1>1. CallerTypes /\ SlotsAgree /\ BuilderFills /\ SingleFlight /\ WaiterIsServed
  BY DEF CallersInv
<1>2. PICK s \in FreeSlot :
        /\ inFlight' = [inFlight EXCEPT ![key[t]] = s]
        /\ result' = [result EXCEPT ![s] = Pending]
        /\ mine' = [mine EXCEPT ![t] = s]
  BY DEF Claim
<1>3. /\ s \in Slot /\ s # NoSlot /\ \A u \in Thread : mine[u] # s
      /\ key[t] \in Key /\ key[t] \notin Retained(store) /\ inFlight[key[t]] = NoSlot
      /\ pc[t] = "lookup" /\ pc' = [pc EXCEPT ![t] = "building"]
      /\ UNCHANGED <<key, store>>
  BY <1>1, <1>2, NullAssumption DEF FreeSlot, Claim, Goto, CallerTypes
<1>4. \A u \in Thread : pc[u] \in Builder => key[u] # key[t]
  BY <1>1, <1>3, NullAssumption DEF CallerTypes, SingleFlight
<1>5. CallerTypes'
  BY <1>1, <1>2, <1>3 DEF CallerTypes, Builder
<1>6. SlotsAgree'
  BY <1>1, <1>2, <1>3 DEF CallerTypes, SlotsAgree
<1>7. BuilderFills'
  BY <1>1, <1>2, <1>3 DEF CallerTypes, BuilderFills, Filling, Filled, Builder
<1>8. SingleFlight'
  <2>1. \A u \in Thread : pc'[u] \in Builder => inFlight'[key'[u]] = mine'[u]
    BY <1>1, <1>2, <1>3, <1>4 DEF CallerTypes, SingleFlight, Builder
  <2>2. \A u, v \in Thread : pc'[u] \in Builder /\ pc'[v] \in Builder /\ key'[u] = key'[v] => u = v
    BY <1>1, <1>3, <1>4 DEF CallerTypes, SingleFlight, Builder
  <2>3. ASSUME NEW k \in Key, inFlight'[k] # NoSlot
        PROVE  k \notin Retained(store) /\ \E u \in Thread : pc'[u] \in Builder /\ key'[u] = k
    <3>1. CASE k = key[t]
      BY <1>1, <1>3, <3>1 DEF CallerTypes, Builder
    <3>2. CASE k # key[t]
      BY <1>1, <1>2, <1>3, <2>3, <3>2 DEF CallerTypes, SingleFlight, Builder
    <3>. QED BY <3>1, <3>2
  <2>. QED BY <1>3, <2>1, <2>2, <2>3 DEF SingleFlight, Retained
<1>9. WaiterIsServed'
  BY <1>1, <1>2, <1>3 DEF CallerTypes, WaiterIsServed, Builder
<1>. QED BY <1>5, <1>6, <1>7, <1>8, <1>9 DEF CallersInv

(* A slot somebody still refers to keeps its result.                        *)
LEMMA DropKeeps ==
    ASSUME DropSlots, NEW u \in Thread, mine'[u] \in Slot
    PROVE  result'[mine'[u]] = result[mine'[u]]
  BY DEF DropSlots, FreeSlot

(* A waiter that returns takes nothing from the others.                     *)
LEMMA CollectKeeps ==
    ASSUME CallersInv, NEW t \in Thread, Collect(t)
    PROVE  CallersInv'
<1>1. CallerTypes /\ SlotsAgree /\ BuilderFills /\ SingleFlight /\ WaiterIsServed
  BY DEF CallersInv
<1>2. /\ pc[t] = "waiting" /\ pc' = [pc EXCEPT ![t] = "idle"] /\ DropSlots
      /\ mine' = [mine EXCEPT ![t] = NoSlot] /\ key' = [key EXCEPT ![t] = NoKey]
      /\ UNCHANGED <<store, inFlight>>
  BY DEF Collect, Return
<1>3. CallerTypes'
  BY <1>1, <1>2, NullAssumption DEF CallerTypes, Builder, DropSlots
<1>4. \A u \in Thread : mine'[u] \in Slot => result'[mine'[u]] = result[mine[u]] /\ u # t
  BY <1>1, <1>2, DropKeeps, NullAssumption DEF CallerTypes
<1>5. SlotsAgree'
  BY <1>1, <1>2, NullAssumption DEF CallerTypes, SlotsAgree
<1>6. BuilderFills'
  BY <1>1, <1>2, <1>3, <1>4 DEF CallerTypes, BuilderFills, Filling, Filled, Builder
<1>7. SingleFlight'
  BY <1>1, <1>2 DEF CallerTypes, SingleFlight, Builder, Retained
<1>8. WaiterIsServed'
  BY <1>1, <1>2, <1>3, <1>4 DEF CallerTypes, WaiterIsServed, Builder
<1>. QED BY <1>3, <1>5, <1>6, <1>7, <1>8 DEF CallersInv

(* A builder fills its slot with its own outcome.                           *)
LEMMA FillKeeps ==
    ASSUME CallersInv, NEW t \in Thread, pc[t] \in Filling, NEW l \in Filled,
           NEW r \in {Err, Ok(key[t])}, result' = [result EXCEPT ![mine[t]] = r],
           pc' = [pc EXCEPT ![t] = l], UNCHANGED <<key, mine, store, inFlight>>
    PROVE  CallersInv'
<1>1. CallerTypes /\ SlotsAgree /\ BuilderFills /\ SingleFlight /\ WaiterIsServed
  BY DEF CallersInv
<1>2. mine[t] \in Slot
  BY <1>1 DEF CallerTypes, Filling, Builder
<1>3. CallerTypes'
  BY <1>1 DEF CallerTypes, Builder, Filling, Filled
<1>4. SlotsAgree'
  BY <1>1 DEF SlotsAgree
<1>5. ASSUME NEW u \in Thread, pc[u] \in Builder, u # t PROVE mine[u] # mine[t]
  BY <1>1, <1>2, <1>5 DEF SlotsAgree, SingleFlight, Filling, Builder
<1>6. BuilderFills'
  <2>. SUFFICES ASSUME NEW u \in Thread
                PROVE  /\ pc'[u] \in Filling => result'[mine[u]] = Pending
                       /\ pc'[u] \in Filled => result'[mine[u]] \in {Err, Ok(key[u])}
    BY DEF BuilderFills
  <2>1. CASE u = t
    BY <1>1, <1>2, <2>1 DEF CallerTypes, Filling, Filled
  <2>2. CASE u # t /\ pc[u] \in Builder
    BY <1>1, <1>2, <1>5, <2>2 DEF CallerTypes, BuilderFills
  <2>3. CASE u # t /\ pc[u] \notin Builder
    BY <1>1, <2>3 DEF CallerTypes, Filling, Filled, Builder
  <2>. QED BY <2>1, <2>2, <2>3
<1>7. SingleFlight'
  BY <1>1 DEF CallerTypes, SingleFlight, Builder, Filling, Filled, Retained
<1>8. WaiterIsServed'
  <2>. SUFFICES ASSUME NEW w \in Thread, pc'[w] = "waiting"
                PROVE  \/ result'[mine[w]] \in {Err, Ok(key[w])}
                       \/ /\ result'[mine[w]] = Pending
                          /\ \E u \in Thread : /\ mine[u] = mine[w] /\ key[u] = key[w]
                                               /\ pc'[u] \in Filling
    BY DEF WaiterIsServed, Filling
  <2>1. pc[w] = "waiting" /\ w # t /\ mine[w] \in Slot
    BY <1>1 DEF CallerTypes, Filling, Filled
  <2>2. CASE mine[w] = mine[t]
    BY <1>1, <1>2, <2>1, <2>2 DEF CallerTypes, SlotsAgree
  <2>3. CASE mine[w] # mine[t]
    <3>1. result'[mine[w]] = result[mine[w]]
      BY <1>1, <1>2, <2>1, <2>3 DEF CallerTypes
    <3>2. \A u \in Thread : mine[u] = mine[w] => pc'[u] = pc[u]
      BY <1>1, <2>3 DEF CallerTypes
    <3>. QED BY <1>1, <2>1, <3>1, <3>2 DEF WaiterIsServed, Filling
  <2>. QED BY <2>2, <2>3
<1>. QED BY <1>3, <1>4, <1>6, <1>7, <1>8 DEF CallersInv

LEMMA PublishKeeps ==
    ASSUME CallersInv, NEW t \in Thread, Publish(t) \/ UnwindPublish(t)
    PROVE  CallersInv'
<1>1. CASE Publish(t)
  <2>. DEFINE r == IF pc[t] = "publishOk" THEN Ok(key[t]) ELSE Err
              l == IF pc[t] = "publishOk" THEN "retireOk" ELSE "retireErr"
  <2>1. /\ pc[t] \in Filling /\ l \in Filled /\ r \in {Err, Ok(key[t])}
        /\ result' = [result EXCEPT ![mine[t]] = r] /\ pc' = [pc EXCEPT ![t] = l]
        /\ UNCHANGED <<key, mine, store, inFlight>>
    BY <1>1 DEF Publish, Goto, Filling, Filled
  <2>. HIDE DEF r, l
  <2>. QED BY <2>1, FillKeeps
<1>2. CASE UnwindPublish(t)
  <2>1. result[mine[t]] = Pending
    BY <1>2 DEF CallersInv, BuilderFills, UnwindPublish, Filling
  <2>2. /\ pc[t] \in Filling /\ "unwindRemove" \in Filled
        /\ result' = [result EXCEPT ![mine[t]] = Err] /\ pc' = [pc EXCEPT ![t] = "unwindRemove"]
        /\ UNCHANGED <<key, mine, store, inFlight>>
    BY <1>2, <2>1 DEF UnwindPublish, Goto, Filling, Filled
  <2>. QED BY <2>2, FillKeeps
<1>. QED BY <1>1, <1>2

(* A builder leaves: its key is no longer in flight and may be retained.    *)
LEMMA LeaveKeeps ==
    ASSUME CallersInv, NEW t \in Thread, pc[t] \in Filled,
           inFlight' = [inFlight EXCEPT ![key[t]] = NoSlot], DropSlots,
           pc' = [pc EXCEPT ![t] = "idle"], mine' = [mine EXCEPT ![t] = NoSlot],
           key' = [key EXCEPT ![t] = NoKey],
           Retained(store') \subseteq Retained(store) \cup {key[t]}
    PROVE  CallersInv'
<1>1. CallerTypes /\ SlotsAgree /\ BuilderFills /\ SingleFlight /\ WaiterIsServed
  BY DEF CallersInv
<1>2. pc[t] \in Builder /\ key[t] \in Key /\ key[t] # NoKey
  BY <1>1, NullAssumption DEF CallerTypes, Filled, Builder
<1>3. CallerTypes'
  BY <1>1, <1>2, NullAssumption DEF CallerTypes, Builder, DropSlots
<1>4. \A u \in Thread : mine'[u] \in Slot => result'[mine'[u]] = result[mine[u]] /\ u # t
  BY <1>1, DropKeeps, NullAssumption DEF CallerTypes
<1>5. SlotsAgree'
  BY <1>1, NullAssumption DEF CallerTypes, SlotsAgree
<1>6. BuilderFills'
  BY <1>1, <1>3, <1>4 DEF CallerTypes, BuilderFills, Filling, Filled, Builder
<1>7. SingleFlight'
  <2>1. \A u \in Thread : pc'[u] \in Builder => u # t /\ pc[u] \in Builder /\ key'[u] = key[u]
                                                 /\ mine'[u] = mine[u] /\ key[u] # key[t]
    BY <1>1, <1>2 DEF CallerTypes, SingleFlight, Builder
  <2>2. \A u \in Thread : pc'[u] \in Builder => inFlight'[key'[u]] = mine'[u]
    BY <1>1, <1>2, <2>1 DEF CallerTypes, SingleFlight
  <2>3. \A u, v \in Thread : pc'[u] \in Builder /\ pc'[v] \in Builder /\ key'[u] = key'[v] => u = v
    BY <1>1, <2>1 DEF SingleFlight
  <2>4. ASSUME NEW k \in Key, inFlight'[k] # NoSlot
        PROVE  k \notin Retained(store') /\ \E u \in Thread : pc'[u] \in Builder /\ key'[u] = k
    <3>1. k # key[t] /\ inFlight[k] # NoSlot
      BY <1>1, <1>2, <2>4 DEF CallerTypes
    <3>2. k \notin Retained(store)
      BY <1>1, <3>1 DEF SingleFlight
    <3>3. PICK u \in Thread : pc[u] \in Builder /\ key[u] = k
      BY <1>1, <3>1 DEF SingleFlight
    <3>4. u # t /\ pc'[u] = pc[u] /\ key'[u] = key[u]
      BY <1>1, <3>1, <3>3 DEF CallerTypes
    <3>. QED BY <3>1, <3>2, <3>3, <3>4
  <2>. QED BY <2>2, <2>3, <2>4 DEF SingleFlight, Retained
<1>8. WaiterIsServed'
  <2>. SUFFICES ASSUME NEW w \in Thread, pc'[w] = "waiting"
                PROVE  \/ result'[mine'[w]] \in {Err, Ok(key'[w])}
                       \/ /\ result'[mine'[w]] = Pending
                          /\ \E u \in Thread : /\ mine'[u] = mine'[w] /\ key'[u] = key'[w]
                                               /\ pc'[u] \in Filling
    BY DEF WaiterIsServed, Filling
  <2>1. w # t /\ pc[w] = "waiting" /\ key'[w] = key[w] /\ mine'[w] = mine[w]
    BY <1>1 DEF CallerTypes
  <2>2. mine'[w] \in Slot /\ result'[mine'[w]] = result[mine[w]]
    BY <1>1, <1>4, <2>1 DEF CallerTypes
  <2>3. \A u \in Thread : pc[u] \in Filling => /\ pc'[u] = pc[u] /\ key'[u] = key[u]
                                               /\ mine'[u] = mine[u]
    BY <1>1 DEF CallerTypes, Filling, Filled
  <2>. QED BY <1>1, <2>1, <2>2, <2>3 DEF WaiterIsServed, Filling
<1>. QED BY <1>3, <1>5, <1>6, <1>7, <1>8 DEF CallersInv

----------------------------------------------------------------------------
(* The two together.                                                        *)

CacheInv == StoreInv(store) /\ CallersInv

LEMMA CacheInvInit ==
    CacheInit => CacheInv
  BY CallersInit, EmptyStoreInv DEF CacheInit, CacheInv

(* A builder's key is not retained while it builds.                         *)
LEMMA BuilderKey ==
    ASSUME CallersInv, NEW t \in Thread, pc[t] \in Builder
    PROVE  key[t] \in Key /\ key[t] \notin Retained(store)
<1>1. key[t] \in Key /\ inFlight[key[t]] = mine[t] /\ mine[t] \in Slot
  BY DEF CallersInv, CallerTypes, SingleFlight, Builder
<1>. QED BY <1>1, NullAssumption DEF CallersInv, SingleFlight

(* The steps that end a build.                                              *)
LEMMA RetireStep ==
    ASSUME CacheInv, NEW t \in Thread, RetireOk(t) \/ RetireErr(t) \/ UnwindRemove(t)
    PROVE  CacheInv'
<1>1. /\ pc[t] \in Filled /\ DropSlots
      /\ inFlight' = [inFlight EXCEPT ![key[t]] = NoSlot]
      /\ pc' = [pc EXCEPT ![t] = "idle"] /\ mine' = [mine EXCEPT ![t] = NoSlot]
      /\ key' = [key EXCEPT ![t] = NoKey]
      /\ store' = store \/ store' = Retain(store, key[t])
  BY DEF RetireOk, RetireErr, UnwindRemove, Return, Filled
<1>2. key[t] \in Key /\ key[t] \notin Retained(store)
  BY <1>1, BuilderKey DEF CacheInv, Filled, Builder
<1>3. StoreInv(store') /\ Retained(store') \subseteq Retained(store) \cup {key[t]}
  BY <1>1, <1>2, RetainStore DEF CacheInv
<1>4. CallersInv'
  BY <1>1, <1>3, LeaveKeeps DEF CacheInv
<1>. QED BY <1>3, <1>4 DEF CacheInv

(* A hit restamps one entry and ends its call; a clear empties the store.   *)
LEMMA HitStep ==
    ASSUME CacheInv, NEW t \in Thread, Hit(t)
    PROVE  CacheInv'
<1>1. CallerTypes /\ SlotsAgree /\ BuilderFills /\ SingleFlight /\ WaiterIsServed
  BY DEF CacheInv, CallersInv
<1>2. /\ pc[t] = "lookup" /\ pc' = [pc EXCEPT ![t] = "idle"]
      /\ mine' = [mine EXCEPT ![t] = NoSlot] /\ key' = [key EXCEPT ![t] = NoKey]
      /\ UNCHANGED <<inFlight, result>>
  BY DEF Hit, Return
<1>3. StoreInv(store') /\ Retained(store') = Retained(store)
  BY HitStore DEF CacheInv, Hit
<1>4. CallerTypes'
  BY <1>1, <1>2, NullAssumption DEF CallerTypes, Builder
<1>5. SlotsAgree'
  BY <1>1, <1>2, NullAssumption DEF CallerTypes, SlotsAgree, Builder
<1>6. BuilderFills'
  BY <1>1, <1>2 DEF CallerTypes, BuilderFills, Filling, Filled
<1>7. SingleFlight'
  BY <1>1, <1>2, <1>3 DEF CallerTypes, SingleFlight, Builder
<1>8. WaiterIsServed'
  BY <1>1, <1>2 DEF CallerTypes, WaiterIsServed
<1>. QED BY <1>3, <1>4, <1>5, <1>6, <1>7, <1>8 DEF CacheInv, CallersInv

LEMMA ClearStep ==
    ASSUME CacheInv, Clear
    PROVE  CacheInv'
<1>1. StoreInv(store') /\ Retained(store') = {} /\ UNCHANGED <<inFlight, result, pc, key, mine>>
  BY EmptyStoreInv DEF Clear
<1>2. CallersInv'
  BY <1>1 DEF CacheInv, CallersInv, CallerTypes, SlotsAgree, BuilderFills, SingleFlight,
              WaiterIsServed
<1>. QED BY <1>1, <1>2 DEF CacheInv

LEMMA CacheStep ==
    CacheInv /\ [CacheNext]_cacheVars => CacheInv'
<1>. SUFFICES ASSUME CacheInv, [CacheNext]_cacheVars PROVE CacheInv'
  OBVIOUS
<1>1. ASSUME NEW t \in Thread, NEW k \in Key, Call(t, k) PROVE CacheInv'
  BY <1>1, CallKeeps DEF CacheInv, Call
<1>2. ASSUME NEW t \in Thread, Hit(t) PROVE CacheInv'
  BY <1>2, HitStep
<1>3. ASSUME NEW t \in Thread, Join(t) PROVE CacheInv'
  BY <1>3, JoinKeeps DEF CacheInv, Join
<1>4. ASSUME NEW t \in Thread, Claim(t) PROVE CacheInv'
  BY <1>4, ClaimKeeps DEF CacheInv, Claim
<1>5. ASSUME NEW t \in Thread, Collect(t) PROVE CacheInv'
  BY <1>5, CollectKeeps DEF CacheInv, Collect
<1>6. ASSUME NEW t \in Thread, BuildStep(t) PROVE CacheInv'
  BY <1>6, BuildKeeps DEF CacheInv, BuildStep, BuildOk, BuildErr, BuildPanic
<1>7. ASSUME NEW t \in Thread, Publish(t) \/ UnwindPublish(t) PROVE CacheInv'
  BY <1>7, PublishKeeps DEF CacheInv, Publish, UnwindPublish
<1>8. ASSUME NEW t \in Thread, RetireOk(t) \/ RetireErr(t) \/ UnwindRemove(t) PROVE CacheInv'
  BY <1>8, RetireStep
<1>9. CASE Clear
  BY <1>9, ClearStep
<1>10. CASE UNCHANGED cacheVars
  BY <1>10 DEF cacheVars, CacheInv, CallersInv, CallerTypes, SlotsAgree, BuilderFills, SingleFlight,
               WaiterIsServed
<1>. QED BY <1>1, <1>2, <1>3, <1>4, <1>5, <1>6, <1>7, <1>8, <1>9, <1>10
         DEF CacheNext, CallStep

LEMMA CacheInvImplies ==
    CacheInv => /\ Accounting /\ ByteBounded /\ LogCoversRetained
                /\ SingleFlight /\ WaiterIsServed
  BY DEF CacheInv, StoreInv, CallersInv, Accounting, ByteBounded, LogCoversRetained, Uncompacted,
         LogOK, Covers

LEMMA CacheInvariance ==
    CacheSpec => []CacheInv
  BY CacheInvInit, CacheStep, PTL DEF CacheSpec

(* The byte total always equals the charges of what is retained, whatever   *)
(* hits, evictions, compactions, failed or panicked builds and clears do.   *)
THEOREM CacheAccounting ==
    CacheSpec => []Accounting
  BY CacheInvariance, CacheInvImplies, PTL

(* The budget is kept, with no exception, until the log is first compacted. *)
THEOREM CacheByteBounded ==
    CacheSpec => []ByteBounded
  BY CacheInvariance, CacheInvImplies, PTL

(* Until then eviction can reach every retained entry.                      *)
THEOREM CacheLogCovers ==
    CacheSpec => []LogCoversRetained
  BY CacheInvariance, CacheInvImplies, PTL

(* A key has one builder at a time and is not built while it is retained.   *)
THEOREM CacheSingleFlight ==
    CacheSpec => []SingleFlight
  BY CacheInvariance, CacheInvImplies, PTL

(* No caller waits on a slot that nobody will fill, or that was filled for  *)
(* another key.                                                             *)
THEOREM CacheWaiterIsServed ==
    CacheSpec => []WaiterIsServed
  BY CacheInvariance, CacheInvImplies, PTL

----------------------------------------------------------------------------
(* The trie cache: the cache and its gate.                                  *)

GateProofs == INSTANCE BuildGateProofs WITH
    Estimate <- {Estimate[k] : k \in Key}, Policy <- {}, DefaultPolicy <- GatePolicy,
    pc <- gatePc, answer <- gateAnswer

(* A step of the trie cache is a step of the cache, or leaves it alone.      *)
LEMMA TrieStepOfCache ==
    [Next]_vars => [CacheNext]_cacheVars
<1>. SUFFICES ASSUME [Next]_vars PROVE [CacheNext]_cacheVars
  OBVIOUS
<1>1. ASSUME NEW t \in Thread, NEW fp \in Key, GetOrBuild(t, fp) PROVE CacheNext
  BY <1>1 DEF GetOrBuild, CacheNext
<1>2. ASSUME NEW t \in Thread, Lookup(t) \/ AwaitSlot(t) \/ PublishAndRetire(t) \/ SlotGuardDrop(t)
      PROVE  CacheNext
  BY <1>2 DEF Lookup, AwaitSlot, PublishAndRetire, SlotGuardDrop, CacheNext, CallStep
<1>3. ASSUME NEW t \in Thread, AcquirePermit(t) \/ BuildTrie(t) \/ DropPermit(t)
      PROVE  UNCHANGED cacheVars
  BY <1>3 DEF AcquirePermit, BuildTrie, DropPermit
<1>4. ASSUME NEW t \in Thread, LeaveClosure(t) PROVE CacheNext
  BY <1>4 DEF LeaveClosure, CacheNext, BuildStep
<1>5. CASE ClearTries
  BY <1>5 DEF ClearTries, CacheNext
<1>6. CASE UNCHANGED vars
  BY <1>6 DEF vars, cacheVars
<1>. QED BY <1>1, <1>2, <1>3, <1>4, <1>5, <1>6 DEF Next

(* Every behaviour of the trie cache is one of the single-flight cache: the *)
(* gate only delays a builder, or makes its build an error.                 *)
THEOREM TrieImplementsCache ==
    Spec => CacheSpec
<1>1. Init => CacheInit
  BY DEF Init
<1>. QED BY <1>1, TrieStepOfCache, PTL DEF Spec, CacheSpec

(* So each vocabulary has one builder at a time ...                         *)
THEOREM TrieSingleFlight ==
    Spec => []SingleFlight
  BY TrieImplementsCache, CacheSingleFlight, PTL

(* ... and every waiter is served, although builders wait for the gate.     *)
THEOREM TrieWaiterIsServed ==
    Spec => []WaiterIsServed
  BY TrieImplementsCache, CacheWaiterIsServed, PTL

----------------------------------------------------------------------------
(* The gate inside the build closure.                                       *)

(* A caller deals with the gate only while it builds, and the gate charges  *)
(* the estimate of the vocabulary being built.                              *)
ClosureInv ==
    \A t \in Thread :
        /\ gatePc[t] # "idle" => pc[t] = "building"
        /\ gatePc[t] \in {"waiting", "woken", "holding"} => charge[t] = Estimate[key[t]]

TrieInv == CallerTypes /\ GateProofs!GateInv /\ ClosureInv

(* The gate's assumptions on its constants hold of the ones it is given.    *)
LEMMA GateAssumptions ==
    /\ GateProofs!IsFiniteSet(Thread)
    /\ {Estimate[k] : k \in Key} \subseteq Nat
    /\ {} \subseteq [conc : Nat, budget : Nat]
    /\ GatePolicy \in GateProofs!Limits
    /\ MaxRejected \in Nat
<1>1. GateProofs!IsFiniteSet(Thread)
  BY ThreadAssumption DEF IsFiniteSet, GateProofs!IsFiniteSet
<1>. QED
  BY <1>1, EstimateAssumption, GateAssumption DEF GateProofs!Limits

(* The two instances of the gate mean the same.                             *)
LEMMA SameWeight ==
    ASSUME NEW f, NEW S
    PROVE  /\ GateProofs!Cardinality(S) = Cardinality(S) /\ Gate!Cardinality(S) = Cardinality(S)
           /\ GateProofs!Weight(f, S) = Weight(f, S) /\ Gate!Weight(f, S) = Weight(f, S)
<1>1. \A T : GateProofs!Cardinality(T) = Cardinality(T) /\ Gate!Cardinality(T) = Cardinality(T)
  BY DEF GateProofs!Cardinality, Gate!Cardinality, Cardinality
<1>2. GateProofs!Units(f, S) = Units(f, S) /\ Gate!Units(f, S) = Units(f, S)
  BY DEF GateProofs!Units, Gate!Units, Units
<1>. QED BY <1>1, <1>2 DEF GateProofs!Weight, Gate!Weight, Weight

LEMMA TrieInitInv ==
    Init => GateProofs!GateInv /\ ClosureInv
<1>. SUFFICES ASSUME Init PROVE GateProofs!GateInv /\ ClosureInv
  OBVIOUS
<1>1. policy \in GateProofs!Limits
  BY GateAssumption DEF Init, Gate!Clamped, Gate!AtLeastOne, GateProofs!Limits
<1>2. GateProofs!Holder = {}
  BY DEF Init, GateProofs!Holder
<1>3. Cardinality(GateProofs!Holder) = 0 /\ Weight(charge, GateProofs!Holder) = 0
  BY <1>2, FS_EmptySet, WeightEmpty
<1>4. GateProofs!Conservation /\ GateProofs!WithinPolicy
  BY <1>1, <1>3, SameWeight
     DEF Init, GateProofs!Conservation, GateProofs!WithinPolicy, Gate!FreshInner, GateProofs!Limits
<1>5. GateProofs!TypeOK
  BY <1>1 DEF Init, GateProofs!TypeOK, Gate!FreshInner, GateProofs!Limits
<1>6. GateProofs!RequestsFit /\ GateProofs!NoLostWakeup
  BY <1>1 DEF Init, GateProofs!RequestsFit, GateProofs!NoLostWakeup, GateProofs!Unset,
              GateProofs!Limits
<1>7. ClosureInv
  BY DEF Init, ClosureInv
<1>. QED BY <1>4, <1>5, <1>6, <1>7 DEF GateProofs!GateInv

(* A step that leaves the gate alone.                                       *)
LEMMA GateUnchanged ==
    ASSUME GateProofs!GateInv, UNCHANGED gateVars
    PROVE  GateProofs!GateInv'
  BY DEF gateVars, GateProofs!GateInv, GateProofs!TypeOK, GateProofs!RequestsFit,
         GateProofs!Conservation, GateProofs!WithinPolicy, GateProofs!NoLostWakeup,
         GateProofs!Holder, GateProofs!Fits

(* Every way to deal with the gate keeps its invariant.                     *)
LEMMA GateStepKeeps ==
    ASSUME GateProofs!GateInv, NEW t \in Thread, key[t] \in Key,
           GateStep(t) \/ Gate!Release(t) \/ Gate!NotifyAll(t)
    PROVE  GateProofs!GateInv'
<1>1. CASE Gate!Acquire(t, Estimate[key[t]])
  <2>1. Estimate[key[t]] \in Nat
    BY EstimateAssumption
  <2>2. GateProofs!Acquire(t, Estimate[key[t]])
    BY <1>1 DEF Gate!Acquire, GateProofs!Acquire, Gate!Request, GateProofs!Request, Gate!Reject,
                GateProofs!Reject, Gate!Fits, GateProofs!Fits, Gate!Admit, GateProofs!Admit,
                Gate!Admitted, GateProofs!Admitted, Gate!Maximum, GateProofs!Maximum,
                Gate!Sleep, GateProofs!Sleep, Gate!Unset, GateProofs!Unset
  <2>. QED BY <2>1, <2>2, GateAssumptions, GateProofs!AcquireInv
<1>2. CASE Gate!Recheck(t) \/ Gate!TimedOut(t)
  <2>1. GateProofs!Recheck(t) \/ GateProofs!TimedOut(t)
    BY <1>2 DEF Gate!Recheck, GateProofs!Recheck, Gate!TimedOut, GateProofs!TimedOut, Gate!Reject,
                GateProofs!Reject, Gate!Fits, GateProofs!Fits, Gate!Admit, GateProofs!Admit,
                Gate!Admitted, GateProofs!Admitted, Gate!Maximum, GateProofs!Maximum,
                Gate!Sleep, GateProofs!Sleep
  <2>. QED BY <2>1, GateAssumptions, GateProofs!RetryInv
<1>3. CASE Gate!NotifyAll(t) \/ Gate!SpuriousWake(t) \/ Gate!Expire(t)
  <2>1. GateProofs!NotifyAll(t) \/ GateProofs!SpuriousWake(t) \/ GateProofs!Expire(t)
    BY <1>3 DEF Gate!NotifyAll, GateProofs!NotifyAll, Gate!SpuriousWake, GateProofs!SpuriousWake,
                Gate!Expire, GateProofs!Expire
  <2>. QED BY <2>1, GateAssumptions, GateProofs!WakeInv
<1>4. CASE Gate!Release(t)
  <2>1. GateProofs!Release(t)
    BY <1>4 DEF Gate!Release, GateProofs!Release
  <2>. QED BY <2>1, GateAssumptions, GateProofs!ReleaseInv
<1>. QED BY <1>1, <1>2, <1>3, <1>4 DEF GateStep

(* A cache step moves no caller that deals with the gate.                   *)
LEMMA CacheStepKeeps ==
    ASSUME TrieInv, UNCHANGED gateVars,
           \A t \in Thread : pc[t] = "building" /\ gatePc[t] # "idle"
                                => pc'[t] = pc[t] /\ key'[t] = key[t]
    PROVE  GateProofs!GateInv' /\ ClosureInv'
<1>1. GateProofs!GateInv'
  BY GateUnchanged DEF TrieInv
<1>2. ClosureInv'
  BY DEF TrieInv, ClosureInv, gateVars
<1>. QED BY <1>1, <1>2

(* What a step of the gate does to the other callers and to its own charge. *)
LEMMA GateStepCharges ==
    ASSUME TrieInv, NEW t \in Thread, pc[t] = "building",
           GateStep(t) \/ Gate!Release(t) \/ Gate!NotifyAll(t), UNCHANGED <<pc, key>>
    PROVE  ClosureInv'
<1>1. gatePc \in [Thread -> {"idle", "waiting", "woken", "holding", "notifying"}]
      /\ DOMAIN charge = Thread
  BY DEF TrieInv, GateProofs!GateInv, GateProofs!TypeOK
<1>2. ASSUME NEW u \in Thread, u # t
      PROVE  /\ charge'[u] = charge[u]
             /\ \/ gatePc'[u] = gatePc[u]
                \/ gatePc[u] = "waiting" /\ gatePc'[u] = "woken"
  BY <1>1, <1>2 DEF GateStep, Gate!Acquire, Gate!Recheck, Gate!TimedOut, Gate!SpuriousWake, Gate!Expire,
        Gate!Release, Gate!NotifyAll, Gate!Admit, Gate!Reject, Gate!Sleep
<1>3. gatePc'[t] \in {"waiting", "woken", "holding"} => charge'[t] = Estimate[key[t]]
  BY <1>1 DEF TrieInv, ClosureInv, GateStep, Gate!Acquire, Gate!Recheck, Gate!TimedOut,
        Gate!SpuriousWake, Gate!Expire, Gate!Release, Gate!NotifyAll, Gate!Admit, Gate!Reject,
        Gate!Sleep
<1>. QED BY <1>2, <1>3 DEF TrieInv, ClosureInv

LEMMA TrieStep ==
    TrieInv /\ [Next]_vars => GateProofs!GateInv' /\ ClosureInv'
<1>. SUFFICES ASSUME TrieInv, [Next]_vars PROVE GateProofs!GateInv' /\ ClosureInv'
  OBVIOUS
<1>1. CallerTypes
  BY DEF TrieInv
<1>2. ASSUME NEW t \in Thread, NEW fp \in Key, GetOrBuild(t, fp)
      PROVE  GateProofs!GateInv' /\ ClosureInv'
  BY <1>1, <1>2, CacheStepKeeps DEF GetOrBuild, Call, CallerTypes
<1>3. ASSUME NEW t \in Thread, Lookup(t) \/ AwaitSlot(t) \/ PublishAndRetire(t) \/ SlotGuardDrop(t)
      PROVE  GateProofs!GateInv' /\ ClosureInv'
  <2>1. /\ pc[t] # "building" /\ UNCHANGED gateVars
        /\ \A u \in Thread \ {t} : pc'[u] = pc[u] /\ key'[u] = key[u]
    BY <1>1, <1>3
       DEF Lookup, AwaitSlot, PublishAndRetire, SlotGuardDrop, Hit, Join, Claim, Collect, Publish,
           RetireOk, RetireErr, UnwindPublish, UnwindRemove, Return, Goto, CallerTypes
  <2>. QED BY <2>1, CacheStepKeeps
<1>4. ASSUME NEW t \in Thread, AcquirePermit(t)
      PROVE  GateProofs!GateInv' /\ ClosureInv'
  <2>1. pc[t] = "building" /\ GateStep(t) /\ UNCHANGED <<pc, key>> /\ key[t] \in Key
    BY <1>1, <1>4 DEF AcquirePermit, InClosure, cacheVars, CallerTypes
  <2>. QED BY <2>1, GateStepKeeps, GateStepCharges DEF TrieInv
<1>5. ASSUME NEW t \in Thread, BuildTrie(t)
      PROVE  GateProofs!GateInv' /\ ClosureInv'
  BY <1>5, CacheStepKeeps DEF BuildTrie, cacheVars
<1>6. ASSUME NEW t \in Thread, DropPermit(t)
      PROVE  GateProofs!GateInv' /\ ClosureInv'
  <2>1. (Gate!Release(t) \/ Gate!NotifyAll(t)) /\ gatePc[t] # "idle" /\ UNCHANGED <<pc, key>>
    BY <1>6 DEF DropPermit, Gate!Release, Gate!NotifyAll, cacheVars
  <2>2. pc[t] = "building" /\ key[t] \in Key
    BY <1>1, <2>1 DEF TrieInv, ClosureInv, CallerTypes
  <2>. QED BY <2>1, <2>2, GateStepKeeps, GateStepCharges DEF TrieInv
<1>7. ASSUME NEW t \in Thread, LeaveClosure(t)
      PROVE  GateProofs!GateInv' /\ ClosureInv'
  <2>1. /\ gatePc[t] = "idle" /\ UNCHANGED <<gateVars, key>>
        /\ \A u \in Thread \ {t} : pc'[u] = pc[u]
    BY <1>1, <1>7 DEF LeaveClosure, BuildOk, BuildErr, BuildPanic, Goto, CallerTypes
  <2>. QED BY <2>1, CacheStepKeeps
<1>8. CASE ClearTries
  BY <1>8, CacheStepKeeps DEF ClearTries, Clear
<1>9. CASE UNCHANGED vars
  BY <1>9, CacheStepKeeps DEF vars, cacheVars
<1>. QED BY <1>2, <1>3, <1>4, <1>5, <1>6, <1>7, <1>8, <1>9 DEF Next

(* The bytes of the estimates are the bytes the gate charges.               *)
LEMMA TrieInvImplies ==
    TrieInv => BuildsWithinGate
<1>. SUFFICES ASSUME TrieInv PROVE BuildsWithinGate
  OBVIOUS
<1>. DEFINE building == {t \in Thread : gatePc[t] = "holding"}
<1>1. Gate!Holder = building /\ GateProofs!Holder = building
  BY DEF Gate!Holder, GateProofs!Holder
<1>2. GateProofs!Conservation /\ GateProofs!WithinPolicy /\ GateProofs!TypeOK
  BY DEF TrieInv, GateProofs!GateInv
<1>3. Gate!Conservation /\ Gate!WithinPolicy
  BY <1>1, <1>2, SameWeight DEF Gate!Conservation, Gate!WithinPolicy, GateProofs!Conservation,
                                GateProofs!WithinPolicy
<1>4. Weight([t \in building |-> Estimate[key[t]]], building) = Weight(charge, building)
  <2>1. \A t \in building : [u \in building |-> Estimate[key[u]]][t] = charge[t]
    BY DEF TrieInv, ClosureInv
  <2>. QED BY <2>1, WeightCong
<1>5. Weight(charge, building) <= policy.budget
  <2>1. /\ Weight(charge, building) <= inner.peakBytes /\ inner.peakBytes <= policy.budget
    BY <1>1, <1>2, SameWeight DEF GateProofs!WithinPolicy
  <2>2. Weight(charge, building) \in Nat
    <3>1. IsFiniteSet(building)
      BY ThreadAssumption, FS_Subset
    <3>2. \A t \in building : charge[t] \in Nat
      BY <1>2 DEF GateProofs!TypeOK
    <3>. QED BY <3>1, <3>2, UnitsFinite
  <2>3. inner.peakBytes \in Nat /\ policy.budget \in Nat
    BY <1>2 DEF GateProofs!TypeOK, GateProofs!Limits, GateProofs!Unset
  <2>. QED BY <2>1, <2>2, <2>3
<1>. QED BY <1>3, <1>4, <1>5 DEF BuildsWithinGate

(* The tries being built together are as many, and in the estimates of      *)
(* their vocabularies as large, as the gate allows; its counters are exact. *)
THEOREM TrieBuildsWithinGate ==
    Spec => []BuildsWithinGate
<1>1. CacheInv => CallerTypes
  BY DEF CacheInv, CallersInv
<1>2. TrieInv <=> CallerTypes /\ (GateProofs!GateInv /\ ClosureInv)
  BY DEF TrieInv
<1>. QED BY <1>1, <1>2, TrieInitInv, TrieStep, TrieInvImplies, TrieImplementsCache, CacheInvariance,
            PTL DEF Spec
=============================================================================
