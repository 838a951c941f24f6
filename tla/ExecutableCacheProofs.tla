----------------------- MODULE ExecutableCacheProofs -----------------------
(***************************************************************************)
(* Proofs about the executable cache, for any callers, inputs, IRs,        *)
(* digests, charges and budget: its counters are exact and within the      *)
(* budget, what it hands out for a key was compiled from that key's IR, a  *)
(* clear fences off the builds it interrupts, and every wait ends at a     *)
(* builder that does not wait.                                             *)
(***************************************************************************)
EXTENDS ExecutableCache, WeightsProofs, SequenceTheorems

----------------------------------------------------------------------------
(* Entries, counters and the touch log.                                     *)

Entry == [key : Key, exec : Exec, stamp : Nat]
Record == {Digest[k] : k \in Key} \X Nat

StateShape(st) ==
    st \in [ready : SUBSET Entry, log : Seq(Record), bytes : Int, entries : Int, tick : Nat,
            generation : Nat]

Covers(st) ==
    \A e \in st.ready : \E i \in 1 .. Len(st.log) : st.log[i] = <<Digest[e.key], e.stamp>>

(* The counters are exact, no entry is younger than the clock, and the log  *)
(* lets eviction reach every entry.                                         *)
Exact(st) ==
    /\ StateShape(st)
    /\ IsFiniteSet(st.ready)
    /\ st.bytes = Bytes(st.ready)
    /\ st.entries = Cardinality(st.ready)
    /\ \A e \in st.ready : e.stamp <= st.tick
    /\ Covers(st)

StateInv(st) == Exact(st) /\ st.bytes <= Budget

(* A finite set of entries has a byte total.                                *)
LEMMA BytesType ==
    ASSUME NEW E, E \subseteq Entry, IsFiniteSet(E)
    PROVE  Bytes(E) \in Nat
<1>1. \A e \in E : [d \in E |-> Size[d.key]][e] \in Nat
  BY SizeAssumption DEF Entry
<1>. QED BY <1>1, UnitsFinite DEF Bytes

(* Disjoint sets of entries add up.                                         *)
LEMMA BytesUnion ==
    ASSUME NEW E, NEW D, E \subseteq Entry, D \subseteq Entry, IsFiniteSet(E), IsFiniteSet(D),
           E \cap D = {}
    PROVE  Bytes(E \cup D) = Bytes(E) + Bytes(D)
<1>. DEFINE f == [e \in E \cup D |-> Size[e.key]]
            fe == [e \in E |-> Size[e.key]]
            fd == [e \in D |-> Size[e.key]]
<1>1. \A e \in E \cup D : f[e] \in Nat
  BY SizeAssumption DEF Entry
<1>2. Weight(f, E \cup D) = Weight(f, E) + Weight(f, D)
  BY <1>1, WeightUnion
<1>3. \A e \in E : f[e] = fe[e]
  OBVIOUS
<1>4. \A e \in D : f[e] = fd[e]
  OBVIOUS
<1>. HIDE DEF f, fe, fd
<1>5. Weight(f, E) = Weight(fe, E) /\ Weight(f, D) = Weight(fd, D)
  BY <1>3, <1>4, WeightCong
<1>. QED BY <1>2, <1>5 DEF Bytes, f, fe, fd

LEMMA BytesOne ==
    ASSUME NEW e \in Entry
    PROVE  Bytes({e}) = Size[e.key] /\ Size[e.key] \in Nat
<1>. DEFINE f == [d \in {e} |-> Size[d.key]]
<1>1. f[e] = Size[e.key] /\ Size[e.key] \in Nat
  BY SizeAssumption DEF Entry
<1>. HIDE DEF f
<1>. QED BY <1>1, WeightOne DEF Bytes, f

(* Taking entries out of a set.                                             *)
LEMMA BytesWithout ==
    ASSUME NEW E, E \subseteq Entry, IsFiniteSet(E), NEW V, V \subseteq E
    PROVE  /\ IsFiniteSet(V) /\ IsFiniteSet(E \ V)
           /\ Bytes(E \ V) = Bytes(E) - Bytes(V)
           /\ Cardinality(E \ V) = Cardinality(E) - Cardinality(V)
           /\ Bytes(E \ V) \in Nat /\ Bytes(E \ V) <= Bytes(E)
<1>1. IsFiniteSet(V) /\ IsFiniteSet(E \ V) /\ V \cap (E \ V) = {} /\ V \cup (E \ V) = E
  BY FS_Subset
<1>2. Bytes(V \cup (E \ V)) = Bytes(V) + Bytes(E \ V)
  BY <1>1, BytesUnion
<1>3. Bytes(E) = Bytes(V) + Bytes(E \ V)
  BY <1>1, <1>2
<1>4. Bytes(V) \in Nat /\ Bytes(E \ V) \in Nat
  BY <1>1, BytesType
<1>5. Cardinality(E \ V) = Cardinality(E) - Cardinality(V)
  <2>1. Cardinality(E \ V) = Cardinality(E) - Cardinality(E \cap V)
    BY <1>1, FS_Difference
  <2>2. E \cap V = V
    OBVIOUS
  <2>3. Cardinality(E \cap V) = Cardinality(V)
    BY <2>2, Zenon
  <2>. QED BY <2>1, <2>3
<1>6. Cardinality(E) \in Nat /\ Cardinality(V) \in Nat
  BY <1>1, FS_CardinalityType
<1>. QED BY <1>1, <1>3, <1>4, <1>5, <1>6

(* Adding one.                                                              *)
LEMMA BytesWith ==
    ASSUME NEW E, E \subseteq Entry, IsFiniteSet(E), NEW e \in Entry, e \notin E
    PROVE  /\ IsFiniteSet(E \cup {e})
           /\ Bytes(E \cup {e}) = Bytes(E) + Size[e.key]
           /\ Cardinality(E \cup {e}) = Cardinality(E) + 1
<1>1. IsFiniteSet({e}) /\ E \cap {e} = {} /\ {e} \subseteq Entry
  BY FS_Singleton
<1>2. Bytes(E \cup {e}) = Bytes(E) + Bytes({e})
  BY <1>1, BytesUnion
<1>3. Bytes({e}) = Size[e.key]
  BY BytesOne
<1>. QED BY <1>2, <1>3, FS_AddElement

----------------------------------------------------------------------------
(* The updates of the state that its operations are made of.                *)

Pushed(st, c, g) == [st EXCEPT !.tick = c, !.log = g]
Swapped(st, r) == [st EXCEPT !.ready = r]
Cut(st, r, b, n) == [st EXCEPT !.ready = r, !.bytes = b, !.entries = n]
CutLog(st, r, b, n, g) == [st EXCEPT !.ready = r, !.bytes = b, !.entries = n, !.log = g]

(* A state of the given parts.                                              *)
HasParts(st, r, g, b, n, c, v) ==
    /\ StateShape(st)
    /\ st.ready = r /\ st.log = g /\ st.bytes = b /\ st.entries = n /\ st.tick = c
    /\ st.generation = v

LEMMA PushedParts ==
    ASSUME NEW st, StateShape(st), NEW c \in Nat, NEW g \in Seq(Record)
    PROVE  HasParts(Pushed(st, c, g), st.ready, g, st.bytes, st.entries, c, st.generation)
  BY DEF StateShape, Pushed, HasParts

LEMMA SwappedParts ==
    ASSUME NEW st, StateShape(st), NEW r \in SUBSET Entry
    PROVE  HasParts(Swapped(st, r), r, st.log, st.bytes, st.entries, st.tick, st.generation)
  BY DEF StateShape, Swapped, HasParts

LEMMA CutParts ==
    ASSUME NEW st, StateShape(st), NEW r \in SUBSET Entry, NEW b \in Int, NEW n \in Int
    PROVE  HasParts(Cut(st, r, b, n), r, st.log, b, n, st.tick, st.generation)
  BY DEF StateShape, Cut, HasParts

LEMMA CutLogParts ==
    ASSUME NEW st, StateShape(st), NEW r \in SUBSET Entry, NEW b \in Int, NEW n \in Int,
           NEW g \in Seq(Record)
    PROVE  HasParts(CutLog(st, r, b, n, g), r, g, b, n, st.tick, st.generation)
  BY DEF StateShape, CutLog, HasParts

(* A record is appended to the log under a new tick.                        *)
LEMMA LoggedParts ==
    ASSUME NEW st, StateShape(st), NEW k \in Key, NEW c \in Nat
    PROVE  /\ HasParts(Logged(st, k, c), st.ready, Append(st.log, <<Digest[k], c>>), st.bytes,
                       st.entries, c, st.generation)
           /\ Len(Append(st.log, <<Digest[k], c>>)) = Len(st.log) + 1 /\ Len(st.log) \in Nat
           /\ \A i \in 1 .. Len(st.log) : Append(st.log, <<Digest[k], c>>)[i] = st.log[i]
           /\ Append(st.log, <<Digest[k], c>>)[Len(st.log) + 1] = <<Digest[k], c>>
<1>. DEFINE rec == <<Digest[k], c>>
            g == Append(st.log, rec)
<1>1. rec \in Record
  BY DEF Record
<1>2. st.log \in Seq(Record)
  BY DEF StateShape
<1>3. Logged(st, k, c) = Pushed(st, c, g)
  BY DEF Logged, Pushed
<1>. HIDE DEF rec, Record
<1>4. /\ g \in Seq(Record) /\ Len(g) = Len(st.log) + 1 /\ Len(st.log) \in Nat
      /\ \A i \in 1 .. Len(st.log) : g[i] = st.log[i]
      /\ g[Len(st.log) + 1] = rec
  BY <1>1, <1>2, AppendProperties, LenProperties
<1>. HIDE DEF g
<1>5. HasParts(Logged(st, k, c), st.ready, g, st.bytes, st.entries, c, st.generation)
  BY <1>3, <1>4, PushedParts
<1>. QED BY <1>4, <1>5 DEF g, rec

(* Appending the record of the entry that is stamped, put in or put back    *)
(* keeps the log covering.                                                  *)
LEMMA StampCovers ==
    ASSUME NEW st, Exact(st), NEW old, old \subseteq st.ready, NEW e \in Entry,
           e.stamp = st.tick + 1, NEW new, StateShape(new),
           new.ready = (st.ready \ old) \cup {e},
           new.log = Append(st.log, <<Digest[e.key], e.stamp>>), new.tick = e.stamp
    PROVE  /\ Covers(new)
           /\ \A d \in new.ready : d.stamp <= new.tick
           /\ e \notin st.ready
<1>1. StateShape(st) /\ Covers(st) /\ \A d \in st.ready : d.stamp <= st.tick /\ d \in Entry
  BY DEF Exact, StateShape
<1>2. e.key \in Key /\ e.stamp \in Nat /\ st.tick \in Nat /\ \A d \in st.ready : d.stamp \in Nat
  BY <1>1 DEF Entry, StateShape
<1>3. /\ Len(new.log) = Len(st.log) + 1 /\ Len(st.log) \in Nat
      /\ \A i \in 1 .. Len(st.log) : new.log[i] = st.log[i]
      /\ new.log[Len(st.log) + 1] = <<Digest[e.key], e.stamp>>
  BY <1>1, <1>2, LoggedParts
<1>4. Covers(new)
  <2>. SUFFICES ASSUME NEW d \in new.ready
                PROVE  \E i \in 1 .. Len(new.log) : new.log[i] = <<Digest[d.key], d.stamp>>
    BY DEF Covers
  <2>1. CASE d = e
    BY <1>3, <2>1
  <2>2. CASE d # e
    <3>1. PICK i \in 1 .. Len(st.log) : st.log[i] = <<Digest[d.key], d.stamp>>
      BY <1>1, <2>2 DEF Covers
    <3>2. i \in 1 .. Len(new.log) /\ new.log[i] = st.log[i]
      BY <1>3
    <3>. QED BY <3>1, <3>2
  <2>. QED BY <2>1, <2>2
<1>5. \A d \in new.ready : d.stamp <= new.tick
  BY <1>1, <1>2
<1>6. e \notin st.ready
  BY <1>1, <1>2
<1>. QED BY <1>4, <1>5, <1>6

(* A hit restamps its entry.                                                *)
LEMMA RestampedInv ==
    ASSUME NEW st, StateInv(st), NEW e \in st.ready
    PROVE  /\ StateInv(Restamped(st, e))
           /\ Restamped(st, e).generation = st.generation
           /\ \A d \in Restamped(st, e).ready :
                 \E c \in st.ready : d.key = c.key /\ d.exec = c.exec
<1>. DEFINE now == st.tick + 1
            mid == Logged(st, e.key, now)
            fresh == [e EXCEPT !.stamp = now]
            r == (st.ready \ {e}) \cup {fresh}
            new == Restamped(st, e)
<1>1. Exact(st) /\ StateShape(st) /\ st.tick \in Nat /\ now \in Nat /\ st.ready \subseteq Entry
  BY DEF StateInv, Exact, StateShape
<1>2. /\ e \in Entry /\ e.key \in Key /\ fresh \in Entry /\ fresh.key = e.key
      /\ fresh.exec = e.exec /\ fresh.stamp = now
  BY <1>1 DEF Entry
<1>3. HasParts(mid, st.ready, Append(st.log, <<Digest[e.key], now>>), st.bytes, st.entries, now,
               st.generation)
  BY <1>1, <1>2, LoggedParts
<1>4. new = Swapped(mid, r)
  BY <1>3 DEF Restamped, Swapped, HasParts
<1>5. r \in SUBSET Entry
  BY <1>1, <1>2
<1>. HIDE DEF now, mid, fresh, r, new
<1>6. HasParts(new, r, Append(st.log, <<Digest[e.key], now>>), st.bytes, st.entries, now,
               st.generation)
  BY <1>3, <1>4, <1>5, SwappedParts DEF HasParts
<1>7. /\ Covers(new) /\ \A d \in new.ready : d.stamp <= new.tick
      /\ fresh \notin st.ready
  <2>1. /\ StateShape(new) /\ new.ready = (st.ready \ {e}) \cup {fresh}
        /\ new.log = Append(st.log, <<Digest[fresh.key], fresh.stamp>>)
        /\ new.tick = fresh.stamp /\ fresh.stamp = st.tick + 1 /\ {e} \subseteq st.ready
    BY <1>2, <1>6 DEF HasParts, r, now
  <2>. QED BY <1>1, <1>2, <2>1, StampCovers
<1>8. /\ IsFiniteSet(r) /\ Bytes(r) = Bytes(st.ready) /\ Cardinality(r) = Cardinality(st.ready)
  <2>. DEFINE rest == st.ready \ {e}
  <2>1. IsFiniteSet(st.ready)
    BY <1>1 DEF Exact
  <2>2. /\ IsFiniteSet(rest) /\ Bytes(rest) = Bytes(st.ready) - Bytes({e})
        /\ Cardinality(rest) = Cardinality(st.ready) - Cardinality({e})
    BY <1>1, <2>1, BytesWithout
  <2>3. Bytes({e}) = Size[e.key] /\ Size[e.key] \in Nat /\ Cardinality({e}) = 1
    BY <1>2, BytesOne, FS_Singleton
  <2>4. rest \subseteq Entry /\ fresh \notin rest
    BY <1>1, <1>7
  <2>5. /\ IsFiniteSet(rest \cup {fresh}) /\ Bytes(rest \cup {fresh}) = Bytes(rest) + Size[fresh.key]
        /\ Cardinality(rest \cup {fresh}) = Cardinality(rest) + 1
    BY <1>2, <2>2, <2>4, BytesWith
  <2>6. Bytes(st.ready) \in Nat /\ Cardinality(st.ready) \in Nat
    BY <1>1, <2>1, BytesType, FS_CardinalityType
  <2>. QED BY <1>2, <2>2, <2>3, <2>5, <2>6 DEF r
<1>9. StateInv(new)
  BY <1>6, <1>7, <1>8 DEF HasParts, StateInv, Exact
<1>10. \A d \in r : \E c \in st.ready : d.key = c.key /\ d.exec = c.exec
  BY <1>2 DEF r
<1>. QED BY <1>6, <1>9, <1>10 DEF HasParts, new

(* The lookup of a key drops entries and their charges.                     *)
LEMMA SweptInv ==
    ASSUME NEW st, StateInv(st), NEW k
    PROVE  /\ StateInv(Swept(st, k))
           /\ Swept(st, k).generation = st.generation
           /\ Swept(st, k).ready \subseteq st.ready
<1>. DEFINE dead == {e \in EntriesOf(st, k) : ~Alive(e.exec)}
            new == Swept(st, k)
<1>1. /\ Exact(st) /\ StateShape(st) /\ st.ready \subseteq Entry /\ IsFiniteSet(st.ready)
      /\ dead \subseteq st.ready /\ st.bytes = Bytes(st.ready)
      /\ st.entries = Cardinality(st.ready) /\ st.bytes <= Budget
  BY DEF StateInv, Exact, StateShape, EntriesOf
<1>2. new = Cut(st, st.ready \ dead, st.bytes - Bytes(dead), st.entries - Cardinality(dead))
  BY DEF Swept, Cut
<1>. HIDE DEF dead, new
<1>3. /\ IsFiniteSet(dead) /\ IsFiniteSet(st.ready \ dead)
      /\ Bytes(st.ready \ dead) = Bytes(st.ready) - Bytes(dead)
      /\ Cardinality(st.ready \ dead) = Cardinality(st.ready) - Cardinality(dead)
      /\ Bytes(st.ready \ dead) \in Nat /\ Bytes(st.ready \ dead) <= Bytes(st.ready)
  BY <1>1, BytesWithout
<1>4. Cardinality(st.ready \ dead) \in Nat /\ Bytes(st.ready) \in Nat
  BY <1>1, <1>3, FS_CardinalityType, BytesType
<1>5. new = Cut(st, st.ready \ dead, Bytes(st.ready \ dead), Cardinality(st.ready \ dead))
  BY <1>1, <1>2, <1>3
<1>6. HasParts(new, st.ready \ dead, st.log, Bytes(st.ready \ dead), Cardinality(st.ready \ dead),
               st.tick, st.generation)
  <2>1. st.ready \ dead \in SUBSET Entry
    BY <1>1
  <2>. QED BY <1>1, <1>3, <1>4, <1>5, <2>1, CutParts
<1>7. Covers(new) /\ \A e \in new.ready : e.stamp <= new.tick
  BY <1>1, <1>6 DEF HasParts, Covers, Exact
<1>8. new.bytes <= Budget
  BY <1>1, <1>3, <1>4, <1>6, SizeAssumption DEF HasParts
<1>9. StateInv(new)
  BY <1>3, <1>6, <1>7, <1>8 DEF HasParts, StateInv, Exact
<1>. QED BY <1>6, <1>9 DEF HasParts, new

(* The eviction loop ends, and either made room or emptied the log.         *)
LEMMA PoppedStops ==
    ASSUME NEW st, Exact(st), NEW need \in Nat
    PROVE  /\ Popped(st, need) \in 0 .. Len(st.log)
           /\ \/ BytesAfter(st, Popped(st, need)) + need <= Budget
              \/ Popped(st, need) = Len(st.log)
<1>. DEFINE Stop(n) == BytesAfter(st, n) + need <= Budget \/ n = Len(st.log)
            T == {n \in 0 .. Len(st.log) : Stop(n)}
<1>1. Len(st.log) \in Nat
  BY LenProperties DEF Exact, StateShape
<1>2. ASSUME NEW n \in Nat PROVE BytesAfter(st, n) \in Int
  <2>1. Victims(st, n) \subseteq st.ready /\ st.ready \subseteq Entry /\ IsFiniteSet(st.ready)
    BY DEF Victims, Exact, StateShape
  <2>2. Bytes(Victims(st, n)) \in Nat
    BY <2>1, FS_Subset, BytesType
  <2>. QED BY <2>2 DEF BytesAfter, Exact, StateShape
<1>3. T \in SUBSET Nat /\ Len(st.log) \in T
  BY <1>1
<1>4. PICK n \in T : \A m \in T : n <= m
  BY <1>3, LeastNatural
<1>5. \A m \in 0 .. n - 1 : BytesAfter(st, m) + need > Budget
  <2>. SUFFICES ASSUME NEW m \in 0 .. n - 1 PROVE BytesAfter(st, m) + need > Budget
    OBVIOUS
  <2>1. m \in 0 .. Len(st.log) /\ m \notin T
    BY <1>1, <1>4
  <2>2. ~ Stop(m) /\ m \in Nat
    BY <2>1
  <2>. QED BY <1>2, <2>2, SizeAssumption
<1>6. \E x \in 0 .. Len(st.log) : Stop(x) /\ \A m \in 0 .. x - 1 : BytesAfter(st, m) + need > Budget
  BY <1>4, <1>5
<1>. QED BY <1>6 DEF Popped

(* Eviction makes the room it is asked for.                                 *)
LEMMA EvictInv ==
    ASSUME NEW st, Exact(st), NEW need \in Nat, need <= Budget
    PROVE  /\ Exact(EvictUntilFits(st, need))
           /\ EvictUntilFits(st, need).generation = st.generation
           /\ EvictUntilFits(st, need).tick = st.tick
           /\ EvictUntilFits(st, need).ready \subseteq st.ready
           /\ EvictUntilFits(st, need).bytes + need <= Budget
<1>. DEFINE n == Popped(st, need)
            V == Victims(st, n)
            g == SubSeq(st.log, n + 1, Len(st.log))
            new == EvictUntilFits(st, need)
<1>1. /\ StateShape(st) /\ st.ready \subseteq Entry /\ IsFiniteSet(st.ready)
      /\ V \subseteq st.ready /\ st.bytes = Bytes(st.ready) /\ st.log \in Seq(Record)
      /\ st.entries = Cardinality(st.ready) /\ Len(st.log) \in Nat
  BY LenProperties DEF Exact, StateShape, Victims
<1>2. n \in 0 .. Len(st.log) /\ (BytesAfter(st, n) + need <= Budget \/ n = Len(st.log))
  BY PoppedStops
<1>3. new = CutLog(st, st.ready \ V, BytesAfter(st, n), st.entries - Cardinality(V), g)
  BY DEF EvictUntilFits, CutLog
<1>. HIDE DEF n
<1>4. /\ g \in Seq(Record) /\ Len(g) = Len(st.log) - n
      /\ \A i \in 1 .. Len(st.log) - n : g[i] = st.log[n + i]
  BY <1>1, <1>2, SubSeqProperties
<1>. HIDE DEF V, new, g
<1>5. /\ IsFiniteSet(V) /\ IsFiniteSet(st.ready \ V)
      /\ Bytes(st.ready \ V) = Bytes(st.ready) - Bytes(V)
      /\ Cardinality(st.ready \ V) = Cardinality(st.ready) - Cardinality(V)
      /\ Bytes(st.ready \ V) \in Nat
  BY <1>1, BytesWithout
<1>6. BytesAfter(st, n) = Bytes(st.ready \ V)
  BY <1>1, <1>5 DEF BytesAfter, V
<1>7. HasParts(new, st.ready \ V, g, Bytes(st.ready \ V), Cardinality(st.ready \ V), st.tick,
               st.generation)
  <2>1. st.ready \ V \in SUBSET Entry /\ Cardinality(st.ready \ V) \in Nat
    BY <1>1, <1>5, FS_CardinalityType
  <2>2. new = CutLog(st, st.ready \ V, Bytes(st.ready \ V), Cardinality(st.ready \ V), g)
    BY <1>1, <1>3, <1>5, <1>6
  <2>. QED BY <1>1, <1>4, <1>5, <2>1, <2>2, CutLogParts
<1>8. Covers(new)
  <2>. SUFFICES ASSUME NEW e \in new.ready
                PROVE  \E i \in 1 .. Len(new.log) : new.log[i] = <<Digest[e.key], e.stamp>>
    BY DEF Covers
  <2>1. e \in st.ready /\ e \notin V
    BY <1>7 DEF HasParts
  <2>2. PICK i \in 1 .. Len(st.log) : st.log[i] = <<Digest[e.key], e.stamp>>
    BY <2>1 DEF Exact, Covers
  <2>3. ~ (i \in 1 .. n)
    BY <2>1, <2>2 DEF Victims, V
  <2>4. i - n \in 1 .. Len(st.log) - n /\ n + (i - n) = i
    BY <1>1, <1>2, <2>2, <2>3
  <2>5. g[i - n] = st.log[i]
    BY <1>4, <2>4
  <2>. QED BY <1>4, <1>7, <2>2, <2>4, <2>5 DEF HasParts
<1>9. new.bytes + need <= Budget
  <2>1. CASE n = Len(st.log)
    <3>1. st.ready \ V = {}
      BY <2>1 DEF Exact, Covers, Victims, V
    <3>2. Bytes(st.ready \ V) = 0
      BY <3>1, WeightEmpty DEF Bytes
    <3>. QED BY <1>7, <3>2 DEF HasParts
  <2>. QED BY <1>2, <1>6, <1>7, <2>1 DEF HasParts
<1>10. \A e \in new.ready : e.stamp <= new.tick
  BY <1>7 DEF HasParts, Exact
<1>11. Exact(new)
  BY <1>5, <1>7, <1>8, <1>10 DEF HasParts, Exact
<1>. QED BY <1>7, <1>9, <1>11 DEF HasParts, new

(* Retaining a build: evict, log, insert.                                   *)
LEMMA RetainedInv ==
    ASSUME NEW st, StateInv(st), NEW k \in Key, NEW x \in Exec, NEW gen
    PROVE  /\ StateInv(Retained(st, k, x, gen))
           /\ Retained(st, k, x, gen).generation = st.generation
           /\ \A e \in Retained(st, k, x, gen).ready :
                 \/ e \in st.ready
                 \/ e.key = k /\ e.exec = x /\ gen = st.generation
<1>1. CASE gen # st.generation \/ Size[k] > Budget
  BY <1>1 DEF Retained
<1>2. CASE ~ (gen # st.generation \/ Size[k] > Budget)
  <2>. DEFINE room == EvictUntilFits(st, Size[k])
              now == room.tick + 1
              mid == Logged(room, k, now)
              fresh == [key |-> k, exec |-> x, stamp |-> now]
              new == Retained(st, k, x, gen)
  <2>1. Size[k] \in Nat /\ Size[k] <= Budget /\ gen = st.generation
    BY <1>2, SizeAssumption
  <2>2. /\ Exact(room) /\ room.generation = st.generation /\ room.tick = st.tick
        /\ room.ready \subseteq st.ready /\ room.bytes + Size[k] <= Budget
    BY <2>1, EvictInv DEF StateInv
  <2>3. new = [mid EXCEPT !.ready = @ \cup {fresh}, !.bytes = @ + Size[k], !.entries = @ + 1]
    BY <1>2 DEF Retained
  <2>. HIDE DEF room, new
  <2>4. /\ StateShape(room) /\ room.tick \in Nat /\ now \in Nat /\ room.ready \subseteq Entry
        /\ room.bytes \in Int /\ room.entries \in Int /\ IsFiniteSet(room.ready)
    BY <2>2 DEF Exact, StateShape
  <2>5. HasParts(mid, room.ready, Append(room.log, <<Digest[k], now>>), room.bytes, room.entries, now,
                 room.generation)
    BY <2>4, LoggedParts
  <2>. HIDE DEF mid
  <2>6. fresh \in Entry /\ fresh.key = k /\ fresh.exec = x /\ fresh.stamp = now
    BY <2>4 DEF Entry
  <2>. HIDE DEF fresh
  <2>7. new = Cut(mid, room.ready \cup {fresh}, room.bytes + Size[k], room.entries + 1)
    BY <2>3, <2>5 DEF HasParts, Cut
  <2>8. HasParts(new, room.ready \cup {fresh}, Append(room.log, <<Digest[k], now>>),
                 room.bytes + Size[k], room.entries + 1, now, room.generation)
    <3>. DEFINE r == room.ready \cup {fresh}
                b == room.bytes + Size[k]
                n == room.entries + 1
                g == Append(room.log, <<Digest[k], now>>)
    <3>1. r \in SUBSET Entry /\ b \in Int /\ n \in Int
      BY <2>1, <2>4, <2>6
    <3>2. StateShape(mid) /\ mid.log = g /\ mid.tick = now /\ mid.generation = room.generation
      BY <2>5 DEF HasParts
    <3>. HIDE DEF r, b, n, g, now
    <3>3. HasParts(Cut(mid, r, b, n), r, mid.log, b, n, mid.tick, mid.generation)
      BY <3>1, <3>2, CutParts
    <3>. QED BY <2>7, <3>2, <3>3 DEF r, b, n, g
  <2>9. Covers(new) /\ (\A d \in new.ready : d.stamp <= new.tick) /\ fresh \notin room.ready
    <3>1. /\ StateShape(new) /\ new.ready = (room.ready \ {}) \cup {fresh}
          /\ new.log = Append(room.log, <<Digest[fresh.key], fresh.stamp>>)
          /\ new.tick = fresh.stamp /\ fresh.stamp = room.tick + 1 /\ {} \subseteq room.ready
      BY <2>6, <2>8 DEF HasParts
    <3>2. Exact(room) /\ fresh \in Entry
      BY <2>2, <2>6
    <3>. HIDE DEF now
    <3>3. \A old : old \subseteq room.ready /\ new.ready = (room.ready \ old) \cup {fresh} =>
             Covers(new) /\ (\A d \in new.ready : d.stamp <= new.tick) /\ fresh \notin room.ready
      BY <3>1, <3>2, StampCovers
    <3>. QED BY <3>1, <3>3
  <2>10. /\ IsFiniteSet(room.ready \cup {fresh})
         /\ Bytes(room.ready \cup {fresh}) = Bytes(room.ready) + Size[k]
         /\ Cardinality(room.ready \cup {fresh}) = Cardinality(room.ready) + 1
    BY <2>4, <2>6, <2>9, BytesWith
  <2>11. StateInv(new)
    BY <2>2, <2>8, <2>9, <2>10 DEF HasParts, StateInv, Exact
  <2>. QED BY <2>1, <2>2, <2>6, <2>8, <2>11 DEF HasParts, new
<1>. QED BY <1>1, <1>2

----------------------------------------------------------------------------
(* Activations.  A position (t, i) with i \in 1 .. Len(stack[t]) names one. *)

Closing == {"building", "publish", "unwind"}   \* still to fill its slot

FrameT == [key : Key, pc : {"lookup", "waiting"} \cup BuilderPc, slot : Slot \cup {NoSlot},
           gen : Nat, out : Outcome]

Stacks ==
    /\ stack \in [Thread -> Seq(FrameT)]
    /\ \A t \in Thread : Len(stack[t]) \in 0 .. 2

(* Only the closure of an alias nests an activation, and the nested one     *)
(* looks up the IR the alias lowers to.                                     *)
Nesting ==
    \A t \in Thread : Len(stack[t]) = 2 =>
        /\ stack[t][1].key \in Input
        /\ stack[t][1].pc = "building"
        /\ stack[t][2].key = Lower[stack[t][1].key]

(* What an activation f may rely on when the in-flight map is q and the     *)
(* slots hold r: its mark stays until it removes it, its slot is empty      *)
(* until it fills it, and what it has or is offered is of its own key.      *)
FrameInv(f, q, r) ==
    /\ f.slot \in Slot <=> f.pc # "lookup"
    /\ f.out # Pending <=> f.pc \in {"publish", "retire"}
    /\ f.pc \in BuilderPc => q[f.key] = f.slot
    /\ f.pc \in Closing => r[f.slot] = Pending
    /\ f.pc \in {"retire", "unwindRemove"} => r[f.slot] # Pending
    /\ \A x \in Exec : f.out = Ok(x) => x.ir = IrOf(f.key) /\ (f.key \in Ir => x.gen = f.gen)
    /\ f.slot \in Slot => \A x \in Exec : r[f.slot] = Ok(x) => x.ir = IrOf(f.key)

FramesInv == \A t \in Thread : \A i \in 1 .. Len(stack[t]) : FrameInv(stack[t][i], inFlight, result)

(* A slot belongs to one key.                                               *)
SlotKey ==
    \A t, u \in Thread : \A i \in 1 .. Len(stack[t]), j \in 1 .. Len(stack[u]) :
        stack[t][i].slot = stack[u][j].slot /\ stack[t][i].slot \in Slot =>
            stack[t][i].key = stack[u][j].key

(* A key is built by one activation ...                                     *)
OneBuilder ==
    \A t, u \in Thread : \A i \in 1 .. Len(stack[t]), j \in 1 .. Len(stack[u]) :
        /\ stack[t][i].pc \in BuilderPc /\ stack[u][j].pc \in BuilderPc
        /\ stack[t][i].key = stack[u][j].key
        => t = u /\ i = j

(* ... and by some activation while it is marked in flight.                 *)
MarkedIsBuilt ==
    \A k \in Key : inFlight[k] # NoSlot =>
        \E t \in Thread : \E i \in 1 .. Len(stack[t]) :
            stack[t][i].pc \in BuilderPc /\ stack[t][i].key = k

(* An empty slot that is waited for has a builder that will fill it.        *)
WaitedIsBuilt ==
    \A t \in Thread : \A i \in 1 .. Len(stack[t]) :
        stack[t][i].pc = "waiting" /\ result[stack[t][i].slot] = Pending =>
            \E u \in Thread : \E j \in 1 .. Len(stack[u]) :
                stack[u][j].pc \in Closing /\ stack[u][j].slot = stack[t][i].slot

ControlInv ==
    /\ inFlight \in [Key -> Slot \cup {NoSlot}]
    /\ result \in [Slot -> Outcome]
    /\ Stacks /\ Nesting /\ FramesInv /\ SlotKey /\ OneBuilder /\ MarkedIsBuilt /\ WaitedIsBuilt

(* What is retained was compiled from the IR of its key, and what is owned, *)
(* since the last clear.                                                    *)
Provenance(E, g) ==
    \A e \in E : e.exec.ir = IrOf(e.key) /\ (IsStrong(e.key) => e.exec.gen = g)

CacheInv == StateInv(state) /\ Provenance(state.ready, state.generation) /\ ControlInv

----------------------------------------------------------------------------
(* How a step changes the stack of its caller: the activation at depth n is *)
(* f now, those below are as they were, and n is the new depth.             *)

Becomes(t, n, f) ==
    /\ stack' \in [Thread -> Seq(FrameT)]
    /\ Len(stack'[t]) = n
    /\ n > 0 => stack'[t][n] = f
    /\ \A i \in 1 .. n - 1 : i \in 1 .. Len(stack[t]) /\ stack'[t][i] = stack[t][i]
    /\ \A u \in Thread : u # t => stack'[u] = stack[u]

(* The activation that runs.                                                *)
LEMMA RunningTop ==
    ASSUME Stacks, NEW t \in Thread, NEW l, Running(t, l)
    PROVE  /\ Len(stack[t]) \in 1 .. 2
           /\ Top(t) = stack[t][Len(stack[t])]
           /\ Top(t) \in FrameT
           /\ Top(t).pc = l
           /\ Len(stack[t]) # 1 => Len(stack[t]) = 2
<1>. HIDE DEF FrameT
<1>1. stack[t] \in Seq(FrameT) /\ stack[t] # <<>> /\ Len(stack[t]) \in 0 .. 2
  BY DEF Stacks, Running
<1>2. Len(stack[t]) \in 1 .. 2
  BY <1>1, EmptySeq
<1>3. stack[t][Len(stack[t])] \in FrameT
  BY <1>1, <1>2, ElementOfSeq
<1>. QED BY <1>2, <1>3 DEF Top, Running

(* Every activation has its type.                                           *)
LEMMA FrameTyped ==
    ASSUME Stacks, NEW t \in Thread, NEW i \in 1 .. Len(stack[t])
    PROVE  stack[t][i] \in FrameT /\ stack[t][i].key \in Key
<1>1. stack[t] \in Seq(FrameT)
  BY DEF Stacks
<1>2. stack[t][i] \in FrameT
  BY <1>1, ElementOfSeq
<1>. QED BY <1>2 DEF FrameT

LEMMA SetTopBecomes ==
    ASSUME Stacks, NEW t \in Thread, Len(stack[t]) \in 1 .. 2, NEW f \in FrameT, SetTop(t, f)
    PROVE  Becomes(t, Len(stack[t]), f)
<1>. HIDE DEF FrameT
<1>. DEFINE s == stack[t]
            n == Len(stack[t])
            new == [s EXCEPT ![n] = f]
<1>1. s \in Seq(FrameT) /\ n \in 1 .. Len(s) /\ stack \in [Thread -> Seq(FrameT)]
  BY DEF Stacks
<1>2. stack' = [stack EXCEPT ![t] = new]
  BY DEF SetTop
<1>. HIDE DEF n
<1>3. /\ new \in Seq(FrameT) /\ Len(new) = Len(s)
      /\ \A j \in 1 .. Len(s) : new[j] = IF j = n THEN f ELSE s[j]
  BY <1>1, ExceptSeq
<1>. HIDE DEF new, s
<1>4. stack'[t] = new /\ stack' \in [Thread -> Seq(FrameT)] /\ \A u \in Thread : u # t => stack'[u] = stack[u]
  BY <1>1, <1>2, <1>3
<1>. QED BY <1>1, <1>3, <1>4 DEF Becomes, n, s

(* A stack of one activation, or none.                                      *)
LEMMA OneBecomes ==
    ASSUME Stacks, NEW t \in Thread, NEW f \in FrameT, stack' = [stack EXCEPT ![t] = <<f>>]
    PROVE  Becomes(t, 1, f)
<1>. HIDE DEF FrameT
<1>1. <<f>> \in Seq(FrameT) /\ Len(<<f>>) = 1 /\ <<f>>[1] = f
  OBVIOUS
<1>2. stack \in [Thread -> Seq(FrameT)]
  BY DEF Stacks
<1>. QED BY <1>1, <1>2 DEF Becomes

LEMMA NoneBecomes ==
    ASSUME Stacks, NEW t \in Thread, NEW f, stack' = [stack EXCEPT ![t] = <<>>]
    PROVE  Becomes(t, 0, f)
<1>. HIDE DEF FrameT
<1>1. <<>> \in Seq(FrameT) /\ Len(<<>>) = 0
  OBVIOUS
<1>2. stack \in [Thread -> Seq(FrameT)]
  BY DEF Stacks
<1>. QED BY <1>1, <1>2 DEF Becomes

LEMMA PushBecomes ==
    ASSUME Stacks, NEW t \in Thread, NEW f \in FrameT,
           stack' = [stack EXCEPT ![t] = Append(stack[t], f)]
    PROVE  Becomes(t, Len(stack[t]) + 1, f)
<1>. HIDE DEF FrameT
<1>. DEFINE s == stack[t]
            new == Append(s, f)
<1>1. s \in Seq(FrameT) /\ Len(s) \in Nat /\ stack \in [Thread -> Seq(FrameT)]
  BY LenProperties DEF Stacks
<1>2. /\ new \in Seq(FrameT) /\ Len(new) = Len(s) + 1
      /\ (\A i \in 1 .. Len(s) : new[i] = s[i]) /\ new[Len(s) + 1] = f
  BY <1>1, AppendProperties
<1>. HIDE DEF new
<1>3. stack'[t] = new /\ stack' \in [Thread -> Seq(FrameT)] /\ \A u \in Thread : u # t => stack'[u] = stack[u]
  BY <1>1, <1>2 DEF new
<1>. QED BY <1>1, <1>2, <1>3 DEF Becomes

(* What is where after such a step, from either side of it.                 *)
Moved(t, n, f) ==
    /\ \A u \in Thread : \A i \in 1 .. Len(stack'[u]) :
          \/ u = t /\ i = n /\ stack'[u][i] = f
          \/ (u # t \/ i < n) /\ i \in 1 .. Len(stack[u]) /\ stack'[u][i] = stack[u][i]
    /\ \A u \in Thread : \A i \in 1 .. Len(stack[u]) :
          u # t \/ i < n => i \in 1 .. Len(stack'[u]) /\ stack'[u][i] = stack[u][i]
    /\ n > 0 => n \in 1 .. Len(stack'[t]) /\ stack'[t][n] = f

LEMMA BecomesFrames ==
    ASSUME Stacks, NEW t \in Thread, NEW n \in 0 .. 2, NEW f, Becomes(t, n, f)
    PROVE  Stacks' /\ Moved(t, n, f)
<1>1. \A u \in Thread : Len(stack[u]) \in 0 .. 2
  BY DEF Stacks
<1>2. \A u \in Thread : u # t => stack'[u] = stack[u]
  BY DEF Becomes
<1>3. Len(stack'[t]) = n
  BY DEF Becomes
<1>4. Stacks'
  BY <1>1, <1>2, <1>3 DEF Stacks, Becomes
<1>5. \A i \in 1 .. n - 1 : i \in 1 .. Len(stack[t]) /\ stack'[t][i] = stack[t][i]
  BY DEF Becomes
<1>6. n > 0 => stack'[t][n] = f
  BY DEF Becomes
<1>7. ASSUME NEW u \in Thread, NEW i \in 1 .. Len(stack'[u])
      PROVE  \/ u = t /\ i = n /\ stack'[u][i] = f
             \/ /\ u # t \/ i < n
                /\ i \in 1 .. Len(stack[u]) /\ stack'[u][i] = stack[u][i]
  BY <1>2, <1>3, <1>5, <1>6
<1>8. ASSUME NEW u \in Thread, NEW i \in 1 .. Len(stack[u]), u # t \/ i < n
      PROVE  i \in 1 .. Len(stack'[u]) /\ stack'[u][i] = stack[u][i]
  BY <1>1, <1>2, <1>3, <1>5, <1>8
<1>. QED BY <1>3, <1>4, <1>6, <1>7, <1>8 DEF Moved

----------------------------------------------------------------------------
(* The control invariant, by the kind of step.                              *)

(* An activation whose mark and slot a step leaves alone keeps its promises.*)
LEMMA FrameKept ==
    ASSUME NEW f, NEW q, NEW r, NEW q2, NEW r2, FrameInv(f, q, r),
           f.pc \in BuilderPc => q2[f.key] = q[f.key],
           f.slot \in Slot => r2[f.slot] = r[f.slot]
    PROVE  FrameInv(f, q2, r2)
<1>1. f.pc \in Closing \cup {"retire", "unwindRemove"} => f.slot \in Slot
  BY DEF FrameInv, Closing
<1>. QED BY <1>1 DEF FrameInv

(* f, at depth n, is the activation of t that runs.                         *)
IsTop(t, n, f) == n \in 1 .. 2 /\ Len(stack[t]) = n /\ stack[t][n] = f

(* A slot keeps its key when the activations keep theirs.                   *)
LEMMA SlotKeyStays ==
    ASSUME SlotKey,
           \A u \in Thread : \A i \in 1 .. Len(stack'[u]) :
               /\ i \in 1 .. Len(stack[u])
               /\ stack'[u][i].key = stack[u][i].key /\ stack'[u][i].slot = stack[u][i].slot
    PROVE  SlotKey'
<1>. SUFFICES ASSUME NEW u \in Thread, NEW v \in Thread, NEW i \in 1 .. Len(stack'[u]),
                     NEW j \in 1 .. Len(stack'[v]), stack'[u][i].slot = stack'[v][j].slot,
                     stack'[u][i].slot \in Slot
              PROVE  stack'[u][i].key = stack'[v][j].key
  BY DEF SlotKey
<1>1. /\ i \in 1 .. Len(stack[u]) /\ j \in 1 .. Len(stack[v])
      /\ stack'[u][i].key = stack[u][i].key /\ stack'[u][i].slot = stack[u][i].slot
      /\ stack'[v][j].key = stack[v][j].key /\ stack'[v][j].slot = stack[v][j].slot
  OBVIOUS
<1>2. stack[u][i].slot = stack[v][j].slot /\ stack[u][i].slot \in Slot
  BY <1>1
<1>3. stack[u][i].key = stack[v][j].key
  BY <1>1, <1>2, Zenon DEF SlotKey
<1>. QED BY <1>1, <1>3

(* A builder goes on: it stays in its closure phase, or fills its slot.     *)
LEMMA BuilderStep ==
    ASSUME ControlInv, NEW t \in Thread, NEW n, NEW f, IsTop(t, n, f), f.pc \in Closing, NEW g \in FrameT,
           g.key = f.key, g.slot = f.slot, g.pc \in BuilderPc, Becomes(t, n, g),
           inFlight' = inFlight, result' \in [Slot -> Outcome],
           \A s \in Slot : s # f.slot => result'[s] = result[s],
           FrameInv(g, inFlight, result'),
           \/ g.pc \in Closing
           \/ result'[f.slot] # Pending
    PROVE  ControlInv'
<1>. USE DEF ControlInv
<1>1. /\ Stacks' /\ Moved(t, n, g) /\ n > 0
      /\ n \in 1 .. Len(stack[t]) /\ stack[t][n] = f /\ Len(stack[t]) = n
  <2>1. n \in 0 .. 2 /\ n > 0 /\ n \in 1 .. Len(stack[t]) /\ stack[t][n] = f /\ Len(stack[t]) = n
    BY DEF IsTop
  <2>2. Stacks' /\ Moved(t, n, g)
    BY <2>1, BecomesFrames
  <2>. QED BY <2>1, <2>2
<1>2. f.pc \in BuilderPc /\ f.slot \in Slot /\ inFlight[f.key] = f.slot /\ f.pc # "waiting"
      /\ result[f.slot] = Pending
  BY <1>1 DEF FramesInv, FrameInv, Closing, BuilderPc
<1>3. Nesting'
  <2>. SUFFICES ASSUME NEW u \in Thread, Len(stack'[u]) = 2
                PROVE  /\ stack'[u][1].key \in Input
                       /\ stack'[u][1].pc = "building"
                       /\ stack'[u][2].key = Lower[stack'[u][1].key]
    BY DEF Nesting
  <2>1. Nesting
    OBVIOUS
  <2>. HIDE DEF ControlInv
  <2>2. CASE u # t
    BY <2>1, <2>2 DEF Nesting, Becomes
  <2>3. CASE u = t
    <3>0. Len(stack'[t]) = n
      BY DEF Becomes
    <3>1. n = 2
      BY <2>3, <3>0, Zenon
    <3>2. stack'[t][2] = g /\ stack'[t][1] = stack[t][1]
      <4>1. 2 > 0 /\ 1 \in 1 .. 2 - 1
        OBVIOUS
      <4>. QED BY <3>1, <4>1 DEF Becomes
    <3>. QED BY <1>1, <2>1, <2>3, <3>1, <3>2 DEF Nesting
  <2>. QED BY <2>2, <2>3
<1>9. \A u \in Thread : \A i \in 1 .. Len(stack'[u]) :
         /\ i \in 1 .. Len(stack[u])
         /\ stack'[u][i].key = stack[u][i].key /\ stack'[u][i].slot = stack[u][i].slot
         /\ stack'[u][i].pc \in BuilderPc <=> stack[u][i].pc \in BuilderPc
  <2>1. ASSUME NEW u \in Thread, NEW i \in 1 .. Len(stack'[u])
        PROVE  \/ u = t /\ i = n /\ stack'[u][i] = g
               \/ i \in 1 .. Len(stack[u]) /\ stack'[u][i] = stack[u][i]
    BY <1>1 DEF Moved
  <2>. HIDE DEF ControlInv
  <2>. QED BY <1>1, <1>2, <2>1
<1>4. SlotKey'
  BY <1>9, SlotKeyStays
<1>5. OneBuilder'
  BY <1>9 DEF OneBuilder
<1>6. MarkedIsBuilt'
  <2>. SUFFICES ASSUME NEW k \in Key, inFlight[k] # NoSlot
                PROVE  \E u \in Thread : \E i \in 1 .. Len(stack'[u]) :
                          stack'[u][i].pc \in BuilderPc /\ stack'[u][i].key = k
    BY DEF MarkedIsBuilt
  <2>1a. PICK u \in Thread : \E i \in 1 .. Len(stack[u]) : stack[u][i].pc \in BuilderPc /\ stack[u][i].key = k
    BY DEF MarkedIsBuilt
  <2>1. PICK i \in 1 .. Len(stack[u]) : stack[u][i].pc \in BuilderPc /\ stack[u][i].key = k
    BY <2>1a
  <2>2. CASE u = t /\ i = n
    BY <1>1, <2>1, <2>2 DEF Moved
  <2>3. CASE u # t \/ i < n
    BY <1>1, <2>1, <2>3 DEF Moved
  <2>. QED BY <1>1, <2>1, <2>2, <2>3
<1>7. FramesInv'
  <2>. SUFFICES ASSUME NEW u \in Thread, NEW i \in 1 .. Len(stack'[u])
                PROVE  FrameInv(stack'[u][i], inFlight, result')
    BY DEF FramesInv
  <2>. DEFINE h == stack'[u][i]
  <2>1. CASE u = t /\ i = n
    BY <1>1, <2>1 DEF Moved
  <2>2. CASE u # t \/ i < n
    <3>1. i \in 1 .. Len(stack[u]) /\ h = stack[u][i] /\ FrameInv(h, inFlight, result)
      BY <1>1, <2>2 DEF FramesInv, Moved
    <3>2. CASE h.slot # f.slot
      <4>1. h.slot \in Slot => result'[h.slot] = result[h.slot]
        BY <3>2
      <4>. QED BY <3>1, <4>1, FrameKept
    <3>3. CASE h.slot = f.slot
      <4>1. h.key = f.key
        BY <1>1, <1>2, <3>1, <3>3 DEF SlotKey, Moved
      <4>2. h.pc \notin BuilderPc
        BY <1>1, <1>2, <2>2, <3>1, <4>1 DEF OneBuilder, Moved
      <4>3. \A x \in Exec : result'[h.slot] = Ok(x) => x.ir = IrOf(h.key)
        BY <1>2, <3>3, <4>1 DEF FrameInv
      <4>4. h.pc \notin Closing /\ h.pc \notin {"retire", "unwindRemove"}
        BY <4>2 DEF BuilderPc, Closing
      <4>. HIDE DEF h
      <4>5. FrameInv(h, inFlight, result')
        BY <3>1, <4>2, <4>3, <4>4 DEF FrameInv
      <4>. QED BY <4>5 DEF h
    <3>. QED BY <3>2, <3>3
  <2>. QED BY <1>1, <2>1, <2>2 DEF Moved
<1>8. WaitedIsBuilt'
  <2>. SUFFICES ASSUME NEW u \in Thread, NEW i \in 1 .. Len(stack'[u]),
                       stack'[u][i].pc = "waiting", result'[stack'[u][i].slot] = Pending
                PROVE  \E v \in Thread : \E j \in 1 .. Len(stack'[v]) :
                          stack'[v][j].pc \in Closing /\ stack'[v][j].slot = stack'[u][i].slot
    BY DEF WaitedIsBuilt
  <2>. DEFINE s == stack'[u][i].slot
  <2>1. CASE s = f.slot
    BY <1>1, <2>1 DEF Moved
  <2>2. CASE s # f.slot
    <3>1. ~ (u = t /\ i = n)
      BY <1>1, <2>2 DEF Moved
    <3>2. i \in 1 .. Len(stack[u]) /\ stack'[u][i] = stack[u][i]
      BY <1>1, <3>1 DEF Moved
    <3>3. s \in Slot
      BY <3>2 DEF FramesInv, FrameInv
    <3>4. result[s] = Pending
      BY <2>2, <3>3
    <3>5a. PICK v \in Thread : \E j \in 1 .. Len(stack[v]) : stack[v][j].pc \in Closing /\ stack[v][j].slot = s
      BY <3>2, <3>4 DEF WaitedIsBuilt
    <3>5. PICK j \in 1 .. Len(stack[v]) : stack[v][j].pc \in Closing /\ stack[v][j].slot = s
      BY <3>5a
    <3>6. v # t \/ j < n
      BY <1>1, <2>2, <3>5 DEF Stacks, Moved
    <3>7. j \in 1 .. Len(stack'[v]) /\ stack'[v][j] = stack[v][j]
      BY <1>1, <3>6 DEF Moved
    <3>. QED
      <4>. HIDE DEF ControlInv
      <4>. QED BY <3>5, <3>7
  <2>. QED BY <2>1, <2>2
<1>. QED BY <1>1, <1>3, <1>4, <1>5, <1>6, <1>7, <1>8 DEF Moved

(* The closure of the alias below has ended, and g is its builder now.      *)
Resumed(t, g) ==
    /\ g \in FrameT /\ g.key = stack[t][1].key /\ g.slot = stack[t][1].slot
    /\ g.pc \in {"publish", "unwind"}
    /\ g.out # Pending <=> g.pc = "publish"
    /\ \A x \in Exec : g.out = Ok(x) => x.ir = IrOf(g.key)

(* An activation that owes its slot nothing returns: its mark, if it has    *)
(* one, goes with it, and the closure it ran for ends.                      *)
LEMMA PopStep ==
    ASSUME ControlInv, NEW t \in Thread, NEW n, NEW f, IsTop(t, n, f), f.pc \notin Closing, NEW g,
           Becomes(t, n - 1, g),
           n = 2 => Resumed(t, g),
           f.pc \in BuilderPc => inFlight' = [inFlight EXCEPT ![f.key] = NoSlot],
           f.pc \notin BuilderPc => inFlight' = inFlight,
           result' \in [Slot -> Outcome],
           \A u \in Thread : \A i \in 1 .. Len(stack'[u]) :
               stack'[u][i].slot \in Slot => result'[stack'[u][i].slot] = result[stack'[u][i].slot]
    PROVE  ControlInv'
<1>1. /\ Stacks /\ Nesting /\ FramesInv /\ SlotKey /\ OneBuilder /\ MarkedIsBuilt /\ WaitedIsBuilt
      /\ inFlight \in [Key -> Slot \cup {NoSlot}]
  BY DEF ControlInv
<1>2. /\ n \in 1 .. 2 /\ n - 1 \in 0 .. 2 /\ n \in 1 .. Len(stack[t]) /\ Len(stack[t]) = n
      /\ stack[t][n] = f
  BY DEF IsTop
<1>3. Stacks' /\ Moved(t, n - 1, g)
  BY <1>1, <1>2, BecomesFrames
<1>4. FrameInv(f, inFlight, result)
  BY <1>1, <1>2 DEF FramesInv
<1>5. ASSUME n = 2
      PROVE  /\ stack[t][1].pc = "building" /\ stack[t][1].key \in Input
             /\ f.key \in Ir /\ 1 \in 1 .. Len(stack[t])
             /\ FrameInv(stack[t][1], inFlight, result)
  BY <1>1, <1>2, <1>5, LowerAssumption DEF Nesting, FramesInv
<1>6. /\ \A u \in Thread : \A i \in 1 .. Len(stack'[u]) :
            /\ i \in 1 .. Len(stack[u]) /\ ~ (u = t /\ i = n)
            /\ stack'[u][i].key = stack[u][i].key /\ stack'[u][i].slot = stack[u][i].slot
            /\ stack'[u][i].pc \in BuilderPc <=> stack[u][i].pc \in BuilderPc
            /\ stack'[u][i].pc = "waiting" => stack[u][i].pc = "waiting"
      /\ \A u \in Thread : \A i \in 1 .. Len(stack[u]) : ~ (u = t /\ i = n) =>
            /\ i \in 1 .. Len(stack'[u])
            /\ stack'[u][i].key = stack[u][i].key /\ stack'[u][i].slot = stack[u][i].slot
            /\ stack[u][i].pc \in BuilderPc => stack'[u][i].pc \in BuilderPc
            /\ stack[u][i].pc \in Closing => stack'[u][i].pc \in Closing
  <2>1. n = 2 => /\ g.pc \in BuilderPc /\ g.pc \in Closing /\ g.pc # "waiting"
                 /\ stack[t][1].pc \in BuilderPc /\ stack[t][1].pc \in Closing
                 /\ g.key = stack[t][1].key /\ g.slot = stack[t][1].slot
    BY <1>5 DEF BuilderPc, Closing, Resumed
  <2>2. ASSUME NEW u \in Thread, NEW i \in 1 .. Len(stack'[u])
        PROVE  /\ i \in 1 .. Len(stack[u]) /\ ~ (u = t /\ i = n)
               /\ stack'[u][i].key = stack[u][i].key /\ stack'[u][i].slot = stack[u][i].slot
               /\ stack'[u][i].pc \in BuilderPc <=> stack[u][i].pc \in BuilderPc
               /\ stack'[u][i].pc = "waiting" => stack[u][i].pc = "waiting"
    <3>1. CASE u = t /\ i = n - 1 /\ stack'[u][i] = g
      <4>1. n = 2 /\ i = 1
        BY <1>2, <2>2, <3>1
      <4>. QED BY <1>2, <2>1, <3>1, <4>1
    <3>2. CASE (u # t \/ i < n - 1) /\ i \in 1 .. Len(stack[u]) /\ stack'[u][i] = stack[u][i]
      BY <1>2, <3>2
    <3>. QED BY <1>3, <3>1, <3>2 DEF Moved
  <2>3. ASSUME NEW u \in Thread, NEW i \in 1 .. Len(stack[u]), ~ (u = t /\ i = n)
        PROVE  /\ i \in 1 .. Len(stack'[u])
               /\ stack'[u][i].key = stack[u][i].key /\ stack'[u][i].slot = stack[u][i].slot
               /\ stack[u][i].pc \in BuilderPc => stack'[u][i].pc \in BuilderPc
               /\ stack[u][i].pc \in Closing => stack'[u][i].pc \in Closing
    <3>1. CASE u = t
      <4>1. n = 2 /\ i = 1
        BY <1>2, <2>3, <3>1
      <4>2. n - 1 = 1 /\ n - 1 > 0
        BY <4>1
      <4>. QED BY <1>3, <2>1, <3>1, <4>1, <4>2 DEF Moved
    <3>2. CASE u # t
      BY <1>3, <3>2 DEF Moved
    <3>. QED BY <3>1, <3>2
  <2>. QED BY <2>2, <2>3
<1>7. Nesting'
  <2>1. Len(stack'[t]) # 2
    BY <1>2 DEF Becomes
  <2>. QED BY <1>1, <2>1 DEF Nesting, Becomes
<1>8. SlotKey'
  BY <1>1, <1>6, SlotKeyStays
<1>9. OneBuilder'
  BY <1>1, <1>6 DEF OneBuilder
<1>10. f.key \in Key
  BY <1>1, <1>2, FrameTyped
<1>11. \A k \in Key : /\ inFlight'[k] # NoSlot => inFlight[k] # NoSlot
                      /\ f.pc \in BuilderPc /\ inFlight'[k] # NoSlot => k # f.key
                      /\ ~ (f.pc \in BuilderPc /\ k = f.key) => inFlight'[k] = inFlight[k]
  BY <1>1, <1>10
<1>12. MarkedIsBuilt'
  <2>. SUFFICES ASSUME NEW k \in Key, inFlight'[k] # NoSlot
                PROVE  \E u \in Thread : \E i \in 1 .. Len(stack'[u]) :
                          stack'[u][i].pc \in BuilderPc /\ stack'[u][i].key = k
    BY DEF MarkedIsBuilt
  <2>1. PICK u \in Thread : \E i \in 1 .. Len(stack[u]) :
                stack[u][i].pc \in BuilderPc /\ stack[u][i].key = k
    BY <1>1, <1>11 DEF MarkedIsBuilt
  <2>2. PICK i \in 1 .. Len(stack[u]) : stack[u][i].pc \in BuilderPc /\ stack[u][i].key = k
    BY <2>1
  <2>3. ~ (u = t /\ i = n)
    BY <1>2, <1>11, <2>2
  <2>. QED BY <1>6, <2>2, <2>3
<1>13. FramesInv'
  <2>. SUFFICES ASSUME NEW u \in Thread, NEW i \in 1 .. Len(stack'[u])
                PROVE  FrameInv(stack'[u][i], inFlight', result')
    BY DEF FramesInv
  <2>. DEFINE h == stack[u][i]
  <2>1. /\ i \in 1 .. Len(stack[u]) /\ ~ (u = t /\ i = n) /\ FrameInv(h, inFlight, result)
        /\ stack'[u][i].slot = h.slot
    BY <1>1, <1>6 DEF FramesInv
  <2>2. h.slot \in Slot => result'[h.slot] = result[h.slot]
    BY <2>1
  <2>3. h.key \in Key
    BY <1>1, <2>1, FrameTyped
  <2>4. h.pc \in BuilderPc => inFlight'[h.key] = inFlight[h.key]
    BY <1>1, <1>2, <1>11, <2>1, <2>3 DEF OneBuilder
  <2>5. FrameInv(h, inFlight', result')
    BY <2>1, <2>2, <2>4, FrameKept
  <2>6. CASE stack'[u][i] = h
    BY <2>5, <2>6
  <2>7. CASE u = t /\ i = n - 1 /\ stack'[u][i] = g
    <3>1. n = 2 /\ i = 1
      BY <1>2, <2>7
    <3>2. /\ h.pc = "building" /\ g.slot = h.slot /\ g.key = h.key /\ g.key \in Input
          /\ g.pc \in {"publish", "unwind"} /\ (g.out # Pending <=> g.pc = "publish")
          /\ \A x \in Exec : g.out = Ok(x) => x.ir = IrOf(g.key)
      BY <1>5, <2>7, <3>1 DEF Resumed
    <3>3. h.slot \in Slot /\ inFlight'[h.key] = h.slot /\ result'[h.slot] = Pending
      BY <2>5, <3>2 DEF FrameInv, BuilderPc, Closing
    <3>4. \A x \in Exec : result'[h.slot] # Ok(x)
      BY <3>3 DEF Pending, Ok
    <3>5. g.key \notin Ir
      BY <3>2, LowerAssumption
    <3>6. FrameInv(g, inFlight', result')
      BY <3>2, <3>3, <3>4, <3>5 DEF FrameInv, BuilderPc, Closing
    <3>. QED BY <2>7, <3>6
  <2>. QED BY <1>3, <2>6, <2>7 DEF Moved
<1>14. WaitedIsBuilt'
  <2>. SUFFICES ASSUME NEW u \in Thread, NEW i \in 1 .. Len(stack'[u]),
                       stack'[u][i].pc = "waiting", result'[stack'[u][i].slot] = Pending
                PROVE  \E v \in Thread : \E j \in 1 .. Len(stack'[v]) :
                          stack'[v][j].pc \in Closing /\ stack'[v][j].slot = stack'[u][i].slot
    BY DEF WaitedIsBuilt
  <2>. DEFINE s == stack'[u][i].slot
  <2>1. i \in 1 .. Len(stack[u]) /\ stack[u][i].pc = "waiting" /\ stack[u][i].slot = s
    BY <1>6
  <2>2. s \in Slot
    BY <1>1, <2>1 DEF FramesInv, FrameInv
  <2>3. result[stack[u][i].slot] = Pending
    BY <2>1, <2>2
  <2>7. \E v \in Thread : \E j \in 1 .. Len(stack[v]) :
           stack[v][j].pc \in Closing /\ stack[v][j].slot = stack[u][i].slot
    BY <1>1, <2>1, <2>3, Zenon DEF WaitedIsBuilt
  <2>4. PICK v \in Thread : \E j \in 1 .. Len(stack[v]) :
                stack[v][j].pc \in Closing /\ stack[v][j].slot = s
    BY <2>1, <2>7
  <2>5. PICK j \in 1 .. Len(stack[v]) : stack[v][j].pc \in Closing /\ stack[v][j].slot = s
    BY <2>4
  <2>6. ~ (v = t /\ j = n)
    BY <1>2, <2>5
  <2>. QED BY <1>6, <2>5, <2>6
<1>15. inFlight' \in [Key -> Slot \cup {NoSlot}]
  BY <1>1, <1>10
<1>. QED BY <1>3, <1>7, <1>8, <1>9, <1>12, <1>13, <1>14, <1>15 DEF ControlInv

(* One activation, g, is new or changed, and every other is as it was.      *)
Replaced(t, n, g) ==
    /\ \A u \in Thread : \A i \in 1 .. Len(stack'[u]) :
          \/ u = t /\ i = n /\ stack'[u][i] = g
          \/ ~ (u = t /\ i = n) /\ i \in 1 .. Len(stack[u]) /\ stack'[u][i] = stack[u][i]
    /\ \A u \in Thread : \A i \in 1 .. Len(stack[u]) : ~ (u = t /\ i = n) =>
          i \in 1 .. Len(stack'[u]) /\ stack'[u][i] = stack[u][i]
    /\ n \in 1 .. Len(stack'[t]) /\ stack'[t][n] = g

LEMMA ReplacedSlots ==
    ASSUME SlotKey, NEW t \in Thread, NEW n, NEW g, Replaced(t, n, g),
           \A u \in Thread : \A i \in 1 .. Len(stack[u]) :
               stack[u][i].slot = g.slot /\ g.slot \in Slot => stack[u][i].key = g.key
    PROVE  SlotKey'
<1>. SUFFICES ASSUME NEW u \in Thread, NEW v \in Thread, NEW i \in 1 .. Len(stack'[u]),
                     NEW j \in 1 .. Len(stack'[v]), stack'[u][i].slot = stack'[v][j].slot,
                     stack'[u][i].slot \in Slot
              PROVE  stack'[u][i].key = stack'[v][j].key
  BY DEF SlotKey
<1>1. stack'[u][i] = g \/ (i \in 1 .. Len(stack[u]) /\ stack'[u][i] = stack[u][i])
  BY DEF Replaced
<1>2. stack'[v][j] = g \/ (j \in 1 .. Len(stack[v]) /\ stack'[v][j] = stack[v][j])
  BY DEF Replaced
<1>3. CASE stack'[u][i] = g
  BY <1>2, <1>3
<1>4. CASE stack'[v][j] = g
  BY <1>1, <1>4
<1>5. CASE /\ i \in 1 .. Len(stack[u]) /\ stack'[u][i] = stack[u][i]
           /\ j \in 1 .. Len(stack[v]) /\ stack'[v][j] = stack[v][j]
  <2>1. stack[u][i].slot = stack[v][j].slot /\ stack[u][i].slot \in Slot
    BY <1>5
  <2>2. stack[u][i].key = stack[v][j].key
    BY <1>5, <2>1, Zenon DEF SlotKey
  <2>. QED BY <1>5, <2>2
<1>. QED BY <1>1, <1>2, <1>3, <1>4, <1>5

LEMMA ReplacedBuilders ==
    ASSUME OneBuilder, NEW t \in Thread, NEW n, NEW g, Replaced(t, n, g),
           g.pc \in BuilderPc => \A u \in Thread : \A i \in 1 .. Len(stack[u]) :
               stack[u][i].pc \in BuilderPc => stack[u][i].key # g.key
    PROVE  OneBuilder'
<1>. SUFFICES ASSUME NEW u \in Thread, NEW v \in Thread, NEW i \in 1 .. Len(stack'[u]),
                     NEW j \in 1 .. Len(stack'[v]), stack'[u][i].key = stack'[v][j].key,
                     stack'[u][i].pc \in BuilderPc, stack'[v][j].pc \in BuilderPc
              PROVE  u = v /\ i = j
  BY DEF OneBuilder
<1>1. \/ u = t /\ i = n /\ stack'[u][i] = g
      \/ i \in 1 .. Len(stack[u]) /\ stack'[u][i] = stack[u][i]
  BY DEF Replaced
<1>2. \/ v = t /\ j = n /\ stack'[v][j] = g
      \/ j \in 1 .. Len(stack[v]) /\ stack'[v][j] = stack[v][j]
  BY DEF Replaced
<1>3. CASE u = t /\ i = n /\ stack'[u][i] = g
  BY <1>2, <1>3
<1>4. CASE v = t /\ j = n /\ stack'[v][j] = g
  BY <1>1, <1>4
<1>5. CASE /\ i \in 1 .. Len(stack[u]) /\ stack'[u][i] = stack[u][i]
           /\ j \in 1 .. Len(stack[v]) /\ stack'[v][j] = stack[v][j]
  <2>1. /\ stack[u][i].pc \in BuilderPc /\ stack[v][j].pc \in BuilderPc
        /\ stack[u][i].key = stack[v][j].key
    BY <1>5
  <2>. QED BY <1>5, <2>1 DEF OneBuilder
<1>. QED BY <1>1, <1>2, <1>3, <1>4, <1>5

(* r is what the slots hold after the step.                                 *)
LEMMA ReplacedWaits ==
    ASSUME WaitedIsBuilt, NEW t \in Thread, NEW n, NEW g, Replaced(t, n, g), NEW r, result' = r,
           n \in 1 .. Len(stack[t]) => stack[t][n].pc \notin Closing,
           g.pc = "waiting" /\ r[g.slot] = Pending =>
               \E u \in Thread : \E i \in 1 .. Len(stack[u]) :
                   stack[u][i].pc \in Closing /\ stack[u][i].slot = g.slot,
           \A u \in Thread : \A i \in 1 .. Len(stack[u]) :
               stack[u][i].pc = "waiting" => r[stack[u][i].slot] = result[stack[u][i].slot]
    PROVE  WaitedIsBuilt'
<1>. SUFFICES ASSUME NEW u \in Thread, NEW i \in 1 .. Len(stack'[u]),
                     stack'[u][i].pc = "waiting", r[stack'[u][i].slot] = Pending
              PROVE  \E v \in Thread : \E j \in 1 .. Len(stack'[v]) :
                        stack'[v][j].pc \in Closing /\ stack'[v][j].slot = stack'[u][i].slot
  BY DEF WaitedIsBuilt
<1>. DEFINE s == stack'[u][i].slot
<1>1. \E v \in Thread : \E j \in 1 .. Len(stack[v]) :
         stack[v][j].pc \in Closing /\ stack[v][j].slot = s
  <2>1. CASE stack'[u][i] = g
    BY <2>1
  <2>2. CASE i \in 1 .. Len(stack[u]) /\ stack'[u][i] = stack[u][i]
    <3>1. stack[u][i].pc = "waiting" /\ result[stack[u][i].slot] = Pending
      BY <2>2
    <3>2. \E v \in Thread : \E j \in 1 .. Len(stack[v]) :
             stack[v][j].pc \in Closing /\ stack[v][j].slot = stack[u][i].slot
      BY <2>2, <3>1, Zenon DEF WaitedIsBuilt
    <3>. QED BY <2>2, <3>2
  <2>. QED BY <2>1, <2>2 DEF Replaced
<1>2. PICK v \in Thread : \E j \in 1 .. Len(stack[v]) :
              stack[v][j].pc \in Closing /\ stack[v][j].slot = s
  BY <1>1
<1>3. PICK j \in 1 .. Len(stack[v]) : stack[v][j].pc \in Closing /\ stack[v][j].slot = s
  BY <1>2
<1>4. ~ (v = t /\ j = n)
  BY <1>3
<1>5. j \in 1 .. Len(stack'[v]) /\ stack'[v][j] = stack[v][j]
  BY <1>4 DEF Replaced
<1>. QED BY <1>3, <1>5

(* A call begins, or the closure of an alias looks up its IR.               *)
LEMMA PushStep ==
    ASSUME ControlInv, NEW t \in Thread, NEW n, n \in 1 .. 2, Len(stack[t]) = n - 1,
           NEW k \in Key, Becomes(t, n, Frame(k)),
           n = 2 => /\ stack[t][1].key \in Input /\ stack[t][1].pc = "building"
                    /\ k = Lower[stack[t][1].key],
           inFlight' = inFlight, result' = result
    PROVE  ControlInv'
<1>. DEFINE g == Frame(k)
<1>1. /\ Stacks /\ Nesting /\ FramesInv /\ SlotKey /\ OneBuilder /\ MarkedIsBuilt /\ WaitedIsBuilt
      /\ inFlight \in [Key -> Slot \cup {NoSlot}] /\ result \in [Slot -> Outcome]
  BY DEF ControlInv
<1>2. n \in 0 .. 2 /\ n > 0
  OBVIOUS
<1>3. Stacks' /\ Moved(t, n, g)
  BY <1>1, <1>2, BecomesFrames
<1>4. g.pc = "lookup" /\ g.slot = NoSlot /\ g.out = Pending /\ g.key = k
  BY DEF Frame
<1>5. g.slot \notin Slot /\ g.pc \notin BuilderPc /\ g.pc \notin Closing /\ g.pc # "waiting"
  BY <1>4, NullAssumption DEF BuilderPc, Closing
<1>6. FrameInv(g, inFlight, result)
  BY <1>4, <1>5 DEF FrameInv, Pending, Ok
<1>. HIDE DEF g
<1>7. Replaced(t, n, g)
  <2>1. \A i \in 1 .. Len(stack[t]) : i < n
    OBVIOUS
  <2>2. \A u \in Thread, i \in Nat : u # t \/ i < n => ~ (u = t /\ i = n)
    OBVIOUS
  <2>. QED BY <1>2, <1>3, <2>1, <2>2 DEF Moved, Replaced
<1>8. Nesting'
  <2>1. Len(stack'[t]) = n /\ \A u \in Thread : u # t => stack'[u] = stack[u]
    BY DEF Becomes
  <2>2. ASSUME n = 2 PROVE stack'[t][1] = stack[t][1] /\ stack'[t][2] = g
    <3>1. 1 \in 1 .. Len(stack[t]) /\ 1 # n
      BY <2>2
    <3>. QED BY <1>7, <2>2, <3>1 DEF Replaced
  <2>. QED BY <1>1, <1>4, <2>1, <2>2 DEF Nesting
<1>9. SlotKey'
  BY <1>1, <1>5, <1>7, ReplacedSlots
<1>10. OneBuilder'
  BY <1>1, <1>5, <1>7, ReplacedBuilders
<1>11. FramesInv'
  BY <1>1, <1>6, <1>7 DEF FramesInv, Replaced
<1>14. n \notin 1 .. Len(stack[t])
  OBVIOUS
<1>12. MarkedIsBuilt'
  BY <1>1, <1>7, <1>14 DEF MarkedIsBuilt, Replaced
<1>13. WaitedIsBuilt'
  BY <1>1, <1>5, <1>7, <1>14, ReplacedWaits
<1>. QED BY <1>1, <1>3, <1>8, <1>9, <1>10, <1>11, <1>12, <1>13 DEF ControlInv

(* A lookup that has not found an entry takes the slot s for its key: the   *)
(* slot of the builder it will wait for, or a slot of its own.              *)
LEMMA TakeSlotStep ==
    ASSUME ControlInv, NEW t \in Thread, NEW n, NEW f, IsTop(t, n, f), f.pc = "lookup",
           NEW s \in Slot, NEW g \in FrameT, Becomes(t, n, g),
           g.key = f.key, g.slot = s, g.out = Pending,
           \/ /\ g.pc = "waiting" /\ inFlight[f.key] = s
              /\ inFlight' = inFlight /\ result' = result
           \/ /\ g.pc = "building" /\ inFlight[f.key] = NoSlot /\ s \notin LiveSlot
              /\ inFlight' = [inFlight EXCEPT ![f.key] = s]
              /\ result' = [result EXCEPT ![s] = Pending]
    PROVE  ControlInv'
<1>1. /\ Stacks /\ Nesting /\ FramesInv /\ SlotKey /\ OneBuilder /\ MarkedIsBuilt /\ WaitedIsBuilt
      /\ inFlight \in [Key -> Slot \cup {NoSlot}] /\ result \in [Slot -> Outcome]
  BY DEF ControlInv
<1>2. n \in 0 .. 2 /\ n > 0 /\ n \in 1 .. Len(stack[t]) /\ Len(stack[t]) = n /\ stack[t][n] = f
  BY DEF IsTop
<1>3. Stacks' /\ Moved(t, n, g)
  BY <1>1, <1>2, BecomesFrames
<1>4. f.key \in Key /\ f.pc \notin BuilderPc /\ f.pc \notin Closing /\ f.slot \notin Slot
  BY <1>1, <1>2, FrameTyped DEF BuilderPc, Closing, FramesInv, FrameInv
<1>5. Replaced(t, n, g)
  <2>1. \A i \in 1 .. Len(stack[t]) : i # n => i < n
    BY <1>2
  <2>. QED BY <1>2, <1>3, <2>1 DEF Moved, Replaced
<1>6. Nesting'
  <2>1. ASSUME n = 2 PROVE stack'[t][1] = stack[t][1] /\ stack'[t][2].key = stack[t][2].key
    <3>1. 1 \in 1 .. Len(stack[t]) /\ ~ (1 = n)
      BY <1>2, <2>1
    <3>. QED BY <1>2, <1>5, <2>1, <3>1 DEF Replaced
  <2>2. Len(stack'[t]) = n /\ \A u \in Thread : u # t => stack'[u] = stack[u]
    BY DEF Becomes
  <2>. QED BY <1>1, <1>2, <2>1, <2>2 DEF Nesting
<1>7. CASE g.pc = "waiting" /\ inFlight[f.key] = s /\ inFlight' = inFlight /\ result' = result
  <2>1. inFlight[f.key] # NoSlot
    BY <1>7, NullAssumption
  <2>2. PICK v \in Thread : \E j \in 1 .. Len(stack[v]) :
                stack[v][j].pc \in BuilderPc /\ stack[v][j].key = f.key
    BY <1>1, <1>4, <2>1 DEF MarkedIsBuilt
  <2>3. PICK j \in 1 .. Len(stack[v]) : stack[v][j].pc \in BuilderPc /\ stack[v][j].key = f.key
    BY <2>2
  <2>. DEFINE o == stack[v][j]
  <2>4. o.slot = s /\ FrameInv(o, inFlight, result)
    BY <1>1, <1>7, <2>3 DEF FramesInv, FrameInv
  <2>5. ~ (v = t /\ j = n)
    BY <1>2, <1>4, <2>3
  <2>6. ASSUME NEW u \in Thread, NEW i \in 1 .. Len(stack[u]), stack[u][i].slot = s
        PROVE  stack[u][i].key = f.key
    BY <1>1, <2>3, <2>4, <2>6 DEF SlotKey
  <2>7. SlotKey'
    BY <1>1, <1>5, <2>6, ReplacedSlots
  <2>8. g.pc \notin BuilderPc /\ g.pc \notin Closing
    BY <1>7 DEF BuilderPc, Closing
  <2>9. OneBuilder'
    BY <1>1, <1>5, <2>8, ReplacedBuilders
  <2>10. FrameInv(g, inFlight, result)
    <3>1. \A x \in Exec : result[s] = Ok(x) => x.ir = IrOf(f.key)
      BY <2>3, <2>4 DEF FrameInv
    <3>2. \A x \in Exec : g.out # Ok(x)
      BY DEF Pending, Ok
    <3>. QED BY <1>7, <2>8, <3>1, <3>2 DEF FrameInv, BuilderPc, Closing
  <2>11. FramesInv'
    BY <1>1, <1>5, <1>7, <2>10 DEF FramesInv, Replaced
  <2>12. MarkedIsBuilt'
    BY <1>1, <1>2, <1>4, <1>5, <1>7 DEF MarkedIsBuilt, Replaced
  <2>13. result[s] = Pending => o.pc \in Closing
    BY <2>3, <2>4 DEF FrameInv, BuilderPc, Closing
  <2>14. WaitedIsBuilt'
    <3>1. result[s] = Pending => \E u \in Thread : \E i \in 1 .. Len(stack[u]) :
                                    stack[u][i].pc \in Closing /\ stack[u][i].slot = g.slot
      BY <2>4, <2>13
    <3>. QED BY <1>1, <1>2, <1>4, <1>5, <1>7, <3>1, ReplacedWaits
  <2>. QED BY <1>1, <1>3, <1>6, <1>7, <2>7, <2>9, <2>11, <2>12, <2>14 DEF ControlInv
<1>8. CASE /\ g.pc = "building" /\ inFlight[f.key] = NoSlot /\ s \notin LiveSlot
           /\ inFlight' = [inFlight EXCEPT ![f.key] = s] /\ result' = [result EXCEPT ![s] = Pending]
  <2>1. /\ \A u \in Thread : \A i \in 1 .. Len(stack[u]) : stack[u][i].slot # s
        /\ \A k \in Key : inFlight[k] # s
    <3>1. \A u \in Thread : \A i \in 1 .. Len(stack[u]) : stack[u][i] \in Frames
      BY DEF Frames
    <3>. QED BY <1>8, <3>1 DEF LiveSlot
  <2>2. /\ g.pc \in BuilderPc /\ g.pc \in Closing /\ g.pc # "waiting"
        /\ inFlight' \in [Key -> Slot \cup {NoSlot}] /\ result' \in [Slot -> Outcome]
        /\ inFlight'[f.key] = s /\ result'[s] = Pending
        /\ \A k \in Key : k # f.key => inFlight'[k] = inFlight[k]
        /\ \A r \in Slot : r # s => result'[r] = result[r]
    BY <1>1, <1>4, <1>8 DEF BuilderPc, Closing, Outcome
  <2>3. ASSUME NEW u \in Thread, NEW i \in 1 .. Len(stack[u]), stack[u][i].pc \in BuilderPc
        PROVE  stack[u][i].key # f.key
    BY <1>1, <1>8, <2>3, NullAssumption DEF FramesInv, FrameInv, BuilderPc
  <2>4. SlotKey'
    BY <1>1, <1>5, <2>1, ReplacedSlots
  <2>5. OneBuilder'
    BY <1>1, <1>5, <2>3, ReplacedBuilders
  <2>6. FrameInv(g, inFlight', result')
    <3>1. \A x \in Exec : g.out # Ok(x) /\ result'[s] # Ok(x)
      BY <2>2 DEF Pending, Ok
    <3>. QED BY <1>8, <2>2, <3>1 DEF FrameInv, BuilderPc, Closing
  <2>7. FramesInv'
    <3>. SUFFICES ASSUME NEW u \in Thread, NEW i \in 1 .. Len(stack'[u])
                  PROVE  FrameInv(stack'[u][i], inFlight', result')
      BY DEF FramesInv
    <3>. DEFINE h == stack[u][i]
    <3>1. CASE u = t /\ i = n
      BY <1>5, <2>6, <3>1 DEF Replaced
    <3>2. CASE ~ (u = t /\ i = n)
      <4>1. i \in 1 .. Len(stack[u]) /\ stack'[u][i] = h /\ FrameInv(h, inFlight, result)
        BY <1>1, <1>5, <3>2 DEF FramesInv, Replaced
      <4>2. h.pc \in BuilderPc => inFlight'[h.key] = inFlight[h.key]
        BY <1>1, <2>2, <2>3, <4>1, FrameTyped
      <4>3. h.slot \in Slot => result'[h.slot] = result[h.slot]
        BY <2>1, <2>2, <4>1
      <4>. QED BY <4>1, <4>2, <4>3, FrameKept
    <3>. QED BY <3>1, <3>2
  <2>8. MarkedIsBuilt'
    <3>. SUFFICES ASSUME NEW k \in Key, inFlight'[k] # NoSlot
                  PROVE  \E u \in Thread : \E i \in 1 .. Len(stack'[u]) :
                            stack'[u][i].pc \in BuilderPc /\ stack'[u][i].key = k
      BY DEF MarkedIsBuilt
    <3>1. CASE k = f.key
      BY <1>5, <2>2, <3>1 DEF Replaced
    <3>2. CASE k # f.key
      <4>1. PICK u \in Thread : \E i \in 1 .. Len(stack[u]) :
                    stack[u][i].pc \in BuilderPc /\ stack[u][i].key = k
        BY <1>1, <2>2, <3>2 DEF MarkedIsBuilt
      <4>. QED BY <1>2, <1>4, <1>5, <4>1 DEF Replaced
    <3>. QED BY <3>1, <3>2
  <2>9. WaitedIsBuilt'
    <3>1. \A u \in Thread : \A i \in 1 .. Len(stack[u]) :
             stack[u][i].pc = "waiting" => result'[stack[u][i].slot] = result[stack[u][i].slot]
      BY <1>1, <2>1, <2>2 DEF FramesInv, FrameInv
    <3>. QED BY <1>1, <1>2, <1>4, <1>5, <2>2, <3>1, ReplacedWaits
  <2>. QED BY <1>3, <1>6, <2>2, <2>4, <2>5, <2>7, <2>8, <2>9 DEF ControlInv
<1>. QED BY <1>7, <1>8

----------------------------------------------------------------------------
(* The actions.                                                             *)

LEMMA RunningIsTop ==
    ASSUME ControlInv, NEW t \in Thread, NEW l, Running(t, l)
    PROVE  /\ IsTop(t, Len(stack[t]), Top(t))
           /\ Top(t) \in FrameT /\ Top(t).pc = l
           /\ FrameInv(Top(t), inFlight, result)
<1>1. Stacks /\ FramesInv
  BY DEF ControlInv
<1>2. Len(stack[t]) \in 1 .. 2 /\ Top(t) = stack[t][Len(stack[t])] /\ Top(t) \in FrameT /\ Top(t).pc = l
  BY <1>1, RunningTop
<1>3. Len(stack[t]) \in 1 .. Len(stack[t])
  BY <1>2
<1>4. FrameInv(Top(t), inFlight, result)
  BY <1>1, <1>2, <1>3 DEF FramesInv
<1>. QED BY <1>2, <1>4 DEF IsTop

(* An activation returns r: its caller's stack is shorter by one.           *)
LEMMA ReturnPops ==
    ASSUME ControlInv, NEW t \in Thread, NEW n, NEW f, IsTop(t, n, f), NEW r \in Outcome,
           r # Pending, \A x \in Exec : r = Ok(x) => x.ir = IrOf(f.key), ReturnFrame(t, r)
    PROVE  \E g : Becomes(t, n - 1, g) /\ (n = 2 => Resumed(t, g))
<1>1. /\ n \in 1 .. 2 /\ Len(stack[t]) = n /\ stack[t][n] = f /\ Stacks /\ Nesting
  BY DEF IsTop, ControlInv
<1>2. CASE n = 1
  <2>1. stack' = [stack EXCEPT ![t] = <<>>]
    BY <1>1, <1>2 DEF ReturnFrame
  <2>2. Becomes(t, 0, f)
    BY <1>1, <2>1, NoneBecomes
  <2>. QED BY <1>2, <2>2
<1>3. CASE n = 2
  <2>. DEFINE b == stack[t][1]
              g == [b EXCEPT !.pc = "publish", !.out = r]
  <2>1. /\ 1 \in 1 .. Len(stack[t]) /\ b \in FrameT /\ b.key \in Input
        /\ f.key = Lower[b.key] /\ b.pc = "building"
    BY <1>1, <1>3, FrameTyped DEF Nesting
  <2>2. stack' = [stack EXCEPT ![t] = <<g>>]
    BY <1>1, <1>3 DEF ReturnFrame
  <2>3. g \in FrameT /\ g.key = b.key /\ g.slot = b.slot /\ g.pc = "publish" /\ g.out = r
    BY <2>1 DEF FrameT, BuilderPc
  <2>4. IrOf(f.key) = IrOf(b.key)
    BY <2>1, LowerAssumption DEF IrOf
  <2>. HIDE DEF g
  <2>5. Becomes(t, 1, g)
    BY <1>1, <2>2, <2>3, OneBecomes
  <2>6. Resumed(t, g)
    BY <2>3, <2>4 DEF Resumed
  <2>. QED BY <1>3, <2>5, <2>6
<1>. QED BY <1>1, <1>2, <1>3

(* Freeing unreferenced slots changes no slot an activation refers to.      *)
LEMMA DropKeeps ==
    ASSUME result \in [Slot -> Outcome], DropSlots
    PROVE  /\ result' \in [Slot -> Outcome]
           /\ \A u \in Thread : \A i \in 1 .. Len(stack'[u]) :
                 stack'[u][i].slot \in Slot =>
                     result'[stack'[u][i].slot] = result[stack'[u][i].slot]
<1>1. result' = [s \in Slot |-> IF s \in LiveSlot' THEN result[s] ELSE Pending]
  BY DEF DropSlots
<1>2. result' \in [Slot -> Outcome]
  BY <1>1 DEF Outcome
<1>3. ASSUME NEW u \in Thread, NEW i \in 1 .. Len(stack'[u]), stack'[u][i].slot \in Slot
      PROVE  result'[stack'[u][i].slot] = result[stack'[u][i].slot]
  <2>1. stack'[u][i] \in Frames'
    BY DEF Frames
  <2>2. stack'[u][i].slot \in LiveSlot'
    BY <1>3, <2>1 DEF LiveSlot
  <2>. QED BY <1>1, <1>3, <2>2
<1>. QED BY <1>2, <1>3

LEMMA CacheInvInit == Init => CacheInv
<1>. SUFFICES ASSUME Init PROVE CacheInv
  OBVIOUS
<1>1. StateShape(state) /\ state.ready = {} /\ state.bytes = 0 /\ state.entries = 0
  BY DEF Init, StateShape
<1>2. IsFiniteSet({}) /\ Cardinality({}) = 0 /\ Bytes({}) = 0
  BY FS_EmptySet, WeightEmpty DEF Bytes
<1>3. StateInv(state) /\ Provenance(state.ready, state.generation)
  BY <1>1, <1>2, SizeAssumption DEF StateInv, Exact, Covers, Provenance
<1>4. \A t \in Thread : stack[t] = <<>> /\ Len(stack[t]) = 0
  BY DEF Init
<1>5. Stacks
  <2>. HIDE DEF FrameT
  <2>. QED BY <1>4 DEF Init, Stacks
<1>6. FramesInv /\ SlotKey /\ OneBuilder /\ WaitedIsBuilt /\ Nesting
  BY <1>4 DEF FramesInv, SlotKey, OneBuilder, WaitedIsBuilt, Nesting
<1>7. inFlight \in [Key -> Slot \cup {NoSlot}] /\ MarkedIsBuilt /\ result \in [Slot -> Outcome]
  BY DEF Init, MarkedIsBuilt, Outcome
<1>. QED BY <1>3, <1>5, <1>6, <1>7 DEF CacheInv, ControlInv

(* A hit, a sweep and a retained build keep the provenance of the entries.  *)
LEMMA ProvenanceKept ==
    ASSUME NEW E, NEW D, NEW g, Provenance(E, g),
           \A d \in D : \E e \in E : d.key = e.key /\ d.exec = e.exec
    PROVE  Provenance(D, g)
  BY DEF Provenance

LEMMA CallInv ==
    ASSUME CacheInv, NEW t \in Thread, NEW k \in Called, Call(t, k)
    PROVE  CacheInv'
<1>1. /\ stack[t] = <<>> /\ stack' = [stack EXCEPT ![t] = <<Frame(k)>>]
      /\ inFlight' = inFlight /\ result' = result /\ state' = state
  BY DEF Call
<1>2. k \in Key /\ Frame(k) \in FrameT
  BY CalledAssumption DEF Frame, FrameT, Outcome
<1>3. Becomes(t, 1, Frame(k))
  BY <1>1, <1>2, OneBecomes DEF CacheInv, ControlInv
<1>5. ControlInv'
  <2>. DEFINE n == 1
  <2>1. n \in 1 .. 2 /\ Len(stack[t]) = n - 1 /\ n # 2 /\ Becomes(t, n, Frame(k)) /\ ControlInv
    BY <1>1, <1>3 DEF CacheInv
  <2>. HIDE DEF n
  <2>. QED BY <1>1, <1>2, <2>1, PushStep
<1>. QED BY <1>1, <1>5 DEF CacheInv

LEMMA LowerInv ==
    ASSUME CacheInv, NEW t \in Thread, LowerInput(t)
    PROVE  CacheInv'
<1>. DEFINE n == Len(stack[t])
            f == Top(t)
            g == Frame(Lower[f.key])
<1>1. /\ Running(t, "building") /\ f.key \in Input /\ stack' = [stack EXCEPT ![t] = Append(stack[t], g)]
      /\ inFlight' = inFlight /\ result' = result /\ state' = state
  BY DEF LowerInput
<1>2. ControlInv /\ Stacks /\ Nesting
  BY DEF CacheInv, ControlInv
<1>3. IsTop(t, n, f) /\ f.pc = "building"
  BY <1>1, <1>2, RunningIsTop
<1>. HIDE DEF n, f
<1>4. n \in 1 .. 2 /\ Len(stack[t]) = n /\ stack[t][n] = f
  BY <1>3 DEF IsTop
<1>5. n = 1
  <2>1. ASSUME n = 2 PROVE FALSE
    <3>1. stack[t][1].key \in Input /\ f.key = Lower[stack[t][1].key]
      BY <1>2, <1>4, <2>1 DEF Nesting
    <3>. QED BY <1>1, <3>1, LowerAssumption
  <2>. QED BY <1>4, <2>1
<1>6. Lower[f.key] \in Key /\ g \in FrameT
  BY <1>1, LowerAssumption DEF Frame, FrameT, Outcome, Key
<1>7. Becomes(t, n + 1, g)
  <2>. HIDE DEF g
  <2>. QED BY <1>1, <1>2, <1>4, <1>6, PushBecomes
<1>9. ControlInv'
  <2>. DEFINE m == n + 1
              k == Lower[f.key]
  <2>1. /\ m \in 1 .. 2 /\ Len(stack[t]) = m - 1 /\ stack[t][1] = f /\ Becomes(t, m, Frame(k))
        /\ k \in Key
    BY <1>4, <1>5, <1>6, <1>7
  <2>2. stack[t][1].key \in Input /\ stack[t][1].pc = "building" /\ k = Lower[stack[t][1].key]
    BY <1>1, <1>3, <2>1
  <2>. HIDE DEF m, k
  <2>. QED BY <1>1, <1>2, <2>1, <2>2, PushStep
<1>. QED BY <1>1, <1>9 DEF CacheInv

LEMMA HitInv ==
    ASSUME CacheInv, NEW t \in Thread, Hit(t)
    PROVE  CacheInv'
<1>. DEFINE n == Len(stack[t])
            f == Top(t)
<1>1. PICK e \in LiveEntries(f.key) : state' = Restamped(state, e) /\ ReturnFrame(t, Ok(e.exec))
  BY DEF Hit
<1>2. Running(t, "lookup") /\ inFlight' = inFlight /\ result' = result
  BY DEF Hit
<1>3. ControlInv /\ StateInv(state) /\ Provenance(state.ready, state.generation)
  BY DEF CacheInv
<1>4. IsTop(t, n, f) /\ f.pc = "lookup"
  BY <1>2, <1>3, RunningIsTop
<1>5. e \in state.ready /\ e.key = f.key
  BY DEF LiveEntries, EntriesOf
<1>6. e.exec \in Exec
  BY <1>3, <1>5 DEF StateInv, Exact, StateShape, Entry
<1>7. /\ Ok(e.exec) \in Outcome /\ Ok(e.exec) # Pending
      /\ \A x \in Exec : Ok(e.exec) = Ok(x) => x.ir = IrOf(f.key)
  <2>1. e.exec.ir = IrOf(e.key)
    BY <1>3, <1>5 DEF Provenance
  <2>2. \A x : Ok(e.exec) = Ok(x) => e.exec = x
    BY DEF Ok
  <2>3. Ok(e.exec) # Pending
    BY DEF Ok, Pending
  <2>. QED BY <1>5, <1>6, <2>1, <2>2, <2>3 DEF Outcome
<1>. HIDE DEF n, f
<1>8. PICK g : Becomes(t, n - 1, g) /\ (n = 2 => Resumed(t, g))
  BY <1>1, <1>3, <1>4, <1>7, ReturnPops
<1>9. ControlInv'
  <2>1. f.pc \notin Closing /\ f.pc \notin BuilderPc /\ result' \in [Slot -> Outcome]
    BY <1>2, <1>3, <1>4 DEF Closing, BuilderPc, ControlInv
  <2>. QED BY <1>2, <1>3, <1>4, <1>8, <2>1, PopStep
<1>10. /\ StateInv(state') /\ state'.generation = state.generation
       /\ \A d \in state'.ready : \E c \in state.ready : d.key = c.key /\ d.exec = c.exec
  BY <1>1, <1>3, <1>5, RestampedInv
<1>11. Provenance(state'.ready, state'.generation)
  BY <1>3, <1>10, ProvenanceKept
<1>. QED BY <1>9, <1>10, <1>11 DEF CacheInv

(* Sweeping a key's dead aliases.                                           *)
LEMMA SweepKeeps ==
    ASSUME StateInv(state), Provenance(state.ready, state.generation), NEW k, state' = Swept(state, k)
    PROVE  StateInv(state') /\ Provenance(state'.ready, state'.generation)
<1>1. StateInv(state') /\ state'.generation = state.generation /\ state'.ready \subseteq state.ready
  BY SweptInv
<1>. QED BY <1>1 DEF Provenance

LEMMA JoinInv ==
    ASSUME CacheInv, NEW t \in Thread, Join(t)
    PROVE  CacheInv'
<1>. DEFINE n == Len(stack[t])
            f == Top(t)
            s == inFlight[f.key]
            g == [f EXCEPT !.pc = "waiting", !.slot = s]
<1>1. /\ Running(t, "lookup") /\ s # NoSlot /\ state' = Swept(state, f.key) /\ SetTop(t, g)
      /\ inFlight' = inFlight /\ result' = result
  BY DEF Join
<1>2. ControlInv /\ Stacks /\ inFlight \in [Key -> Slot \cup {NoSlot}]
  BY DEF CacheInv, ControlInv
<1>3. IsTop(t, n, f) /\ f \in FrameT /\ f.pc = "lookup" /\ FrameInv(f, inFlight, result)
  BY <1>1, <1>2, RunningIsTop
<1>4. s \in Slot /\ f.out = Pending
  BY <1>1, <1>2, <1>3 DEF FrameT, FrameInv
<1>. HIDE DEF f, s
<1>5. g \in FrameT /\ g.key = f.key /\ g.slot = s /\ g.out = Pending /\ g.pc = "waiting"
  BY <1>3, <1>4 DEF FrameT
<1>. HIDE DEF g
<1>6. n \in 1 .. 2
  BY <1>3 DEF IsTop
<1>7. Becomes(t, n, g)
  BY <1>1, <1>2, <1>5, <1>6, SetTopBecomes
<1>8. ControlInv'
  <2>. HIDE DEF n
  <2>1. inFlight[f.key] = s
    BY DEF s
  <2>. QED BY <1>1, <1>2, <1>3, <1>4, <1>5, <1>7, <2>1, TakeSlotStep
<1>. QED BY <1>1, <1>8, SweepKeeps DEF CacheInv

LEMMA ClaimInv ==
    ASSUME CacheInv, NEW t \in Thread, Claim(t)
    PROVE  CacheInv'
<1>. DEFINE n == Len(stack[t])
            f == Top(t)
            s == Fresh(Slot \ LiveSlot)
            g == [f EXCEPT !.pc = "building", !.slot = s, !.gen = state.generation]
<1>1. /\ Running(t, "lookup") /\ inFlight[f.key] = NoSlot /\ state' = Swept(state, f.key)
      /\ SetTop(t, g) /\ s \in Slot \ LiveSlot /\ inFlight' = [inFlight EXCEPT ![f.key] = s]
      /\ result' = [result EXCEPT ![s] = Pending]
  BY DEF Claim
<1>2. ControlInv /\ Stacks /\ state.generation \in Nat
  BY DEF CacheInv, ControlInv, StateInv, Exact, StateShape
<1>3. IsTop(t, n, f) /\ f \in FrameT /\ f.pc = "lookup" /\ FrameInv(f, inFlight, result)
  BY <1>1, <1>2, RunningIsTop
<1>4. f.out = Pending
  BY <1>3 DEF FrameInv
<1>. HIDE DEF f, s
<1>5. g \in FrameT /\ g.key = f.key /\ g.slot = s /\ g.out = Pending /\ g.pc = "building"
  BY <1>1, <1>2, <1>3, <1>4 DEF FrameT, BuilderPc
<1>. HIDE DEF g
<1>6. n \in 1 .. 2
  BY <1>3 DEF IsTop
<1>7. Becomes(t, n, g)
  BY <1>1, <1>2, <1>5, <1>6, SetTopBecomes
<1>8. ControlInv'
  <2>. HIDE DEF n
  <2>1. s \in Slot /\ s \notin LiveSlot
    BY <1>1
  <2>. QED BY <1>1, <1>2, <1>3, <1>5, <1>7, <2>1, TakeSlotStep
<1>. QED BY <1>1, <1>8, SweepKeeps DEF CacheInv

(* A waiter takes what its slot holds, which is of its own key.             *)
LEMMA CollectInv ==
    ASSUME CacheInv, NEW t \in Thread, Collect(t)
    PROVE  CacheInv'
<1>. DEFINE n == Len(stack[t])
            f == Top(t)
            r == result[f.slot]
<1>1. /\ Running(t, "waiting") /\ r # Pending /\ ReturnFrame(t, r) /\ DropSlots
      /\ inFlight' = inFlight /\ state' = state
  BY DEF Collect
<1>2. ControlInv /\ result \in [Slot -> Outcome]
  BY DEF CacheInv, ControlInv
<1>3. IsTop(t, n, f) /\ f.pc = "waiting" /\ FrameInv(f, inFlight, result)
  BY <1>1, <1>2, RunningIsTop
<1>4. f.slot \in Slot /\ \A x \in Exec : r = Ok(x) => x.ir = IrOf(f.key)
  BY <1>3 DEF FrameInv
<1>5. r \in Outcome
  BY <1>2, <1>4
<1>. HIDE DEF n, f, r
<1>6. PICK g : Becomes(t, n - 1, g) /\ (n = 2 => Resumed(t, g))
  BY <1>1, <1>2, <1>3, <1>4, <1>5, ReturnPops
<1>7. f.pc \notin Closing /\ f.pc \notin BuilderPc
  BY <1>3 DEF Closing, BuilderPc
<1>8. /\ result' \in [Slot -> Outcome]
      /\ \A u \in Thread : \A i \in 1 .. Len(stack'[u]) :
            stack'[u][i].slot \in Slot =>
                result'[stack'[u][i].slot] = result[stack'[u][i].slot]
  BY <1>1, <1>2, DropKeeps
<1>9. ControlInv'
  BY <1>1, <1>2, <1>3, <1>6, <1>7, <1>8, PopStep
<1>. QED BY <1>1, <1>9 DEF CacheInv

(* A closure ends, in an executable of its own generation, in an error or   *)
(* in a panic.                                                              *)
LEMMA ClosureInv ==
    ASSUME CacheInv, NEW t \in Thread, Compile(t) \/ BuildErr(t) \/ BuildPanic(t)
    PROVE  CacheInv'
<1>. DEFINE n == Len(stack[t])
            f == Top(t)
<1>1. Running(t, "building") /\ inFlight' = inFlight /\ result' = result /\ state' = state
  BY DEF Compile, BuildErr, BuildPanic
<1>2. ControlInv /\ Stacks /\ result \in [Slot -> Outcome]
  BY DEF CacheInv, ControlInv
<1>3. IsTop(t, n, f) /\ f \in FrameT /\ f.pc = "building" /\ FrameInv(f, inFlight, result)
  BY <1>1, <1>2, RunningIsTop
<1>4. n \in 1 .. 2
  BY <1>3 DEF IsTop
<1>5. f.pc \in Closing /\ f.slot \in Slot /\ result[f.slot] = Pending /\ inFlight[f.key] = f.slot
  BY <1>3 DEF FrameInv, Closing, BuilderPc
<1>6. ASSUME NEW g \in FrameT, SetTop(t, g), g.key = f.key, g.slot = f.slot,
             g.pc \in {"publish", "unwind"}, g.out # Pending <=> g.pc = "publish",
             \A x \in Exec : g.out = Ok(x) => x.ir = IrOf(f.key) /\ (f.key \in Ir => x.gen = g.gen)
      PROVE  ControlInv'
  <2>. HIDE DEF f
  <2>1. Becomes(t, n, g)
    BY <1>2, <1>4, <1>6, SetTopBecomes
  <2>2. g.pc \in Closing /\ g.pc \in BuilderPc
    BY <1>6 DEF Closing, BuilderPc
  <2>3. FrameInv(g, inFlight, result')
    <3>1. \A x \in Exec : result[f.slot] # Ok(x)
      BY <1>5 DEF Pending, Ok
    <3>. QED BY <1>1, <1>5, <1>6, <3>1 DEF FrameInv, Closing, BuilderPc
  <2>. HIDE DEF n
  <2>. QED BY <1>1, <1>2, <1>3, <1>5, <1>6, <2>1, <2>2, <2>3, BuilderStep
<1>7. CASE Compile(t)
  <2>. DEFINE x == Fresh(FreeExec(f.key, f.gen))
              g == [f EXCEPT !.pc = "publish", !.out = Ok(x)]
  <2>1. FreeExec(f.key, f.gen) # {} /\ SetTop(t, g)
    BY <1>7 DEF Compile
  <2>2. x \in FreeExec(f.key, f.gen)
    BY <2>1 DEF Fresh
  <2>3. x \in Exec /\ x.ir = f.key /\ x.gen = f.gen /\ f.key \in Ir
    BY <1>7, <2>2 DEF FreeExec, Compile
  <2>. HIDE DEF f, x
  <2>4. Ok(x) \in Outcome /\ Ok(x) # Pending /\ \A y : Ok(x) = Ok(y) => y = x
    BY <2>3 DEF Outcome, Ok, Pending
  <2>5. /\ g \in FrameT /\ g.key = f.key /\ g.slot = f.slot /\ g.pc = "publish"
        /\ g.out = Ok(x) /\ g.gen = f.gen
    BY <1>3, <2>4 DEF FrameT, BuilderPc
  <2>6. IrOf(f.key) = f.key
    BY <2>3, LowerAssumption DEF IrOf
  <2>. HIDE DEF g
  <2>7. ControlInv'
    BY <1>6, <2>1, <2>3, <2>4, <2>5, <2>6
  <2>. QED BY <1>1, <2>7 DEF CacheInv
<1>8. CASE BuildErr(t)
  <2>. DEFINE g == [f EXCEPT !.pc = "publish", !.out = Err]
  <2>1. SetTop(t, g)
    BY <1>8 DEF BuildErr
  <2>. HIDE DEF f
  <2>2. Err \in Outcome /\ Err # Pending /\ \A y : Err # Ok(y)
    BY DEF Outcome, Err, Ok, Pending
  <2>3. g \in FrameT /\ g.key = f.key /\ g.slot = f.slot /\ g.pc = "publish" /\ g.out = Err
    BY <1>3, <2>2 DEF FrameT, BuilderPc
  <2>. HIDE DEF g
  <2>4. ControlInv'
    BY <1>6, <2>1, <2>2, <2>3
  <2>. QED BY <1>1, <2>4 DEF CacheInv
<1>9. CASE BuildPanic(t)
  <2>. DEFINE g == [f EXCEPT !.pc = "unwind"]
  <2>1. SetTop(t, g)
    BY <1>9 DEF BuildPanic
  <2>2. f.out = Pending /\ \A y : Pending # Ok(y)
    BY <1>3 DEF FrameInv, Pending, Ok
  <2>. HIDE DEF f
  <2>3. g \in FrameT /\ g.key = f.key /\ g.slot = f.slot /\ g.pc = "unwind" /\ g.out = Pending
    BY <1>3, <2>2 DEF FrameT, BuilderPc
  <2>. HIDE DEF g
  <2>4. ControlInv'
    BY <1>6, <2>1, <2>2, <2>3
  <2>. QED BY <1>1, <2>4 DEF CacheInv
<1>. QED BY <1>7, <1>8, <1>9

(* A builder fills its slot, with its outcome or, unwinding, with an error. *)
LEMMA FillInv ==
    ASSUME CacheInv, NEW t \in Thread, Publish(t) \/ UnwindPublish(t)
    PROVE  CacheInv'
<1>. DEFINE n == Len(stack[t])
            f == Top(t)
<1>1. inFlight' = inFlight /\ state' = state
  BY DEF Publish, UnwindPublish
<1>2. ControlInv /\ Stacks /\ result \in [Slot -> Outcome]
  BY DEF CacheInv, ControlInv
<1>3. ASSUME NEW l, l \in {"publish", "unwind"}, Running(t, l), NEW r \in Outcome, r # Pending,
             result' = [result EXCEPT ![f.slot] = r], NEW m, m \in {"retire", "unwindRemove"},
             SetTop(t, [f EXCEPT !.pc = m]), f.out # Pending <=> m = "retire",
             \A x \in Exec : r = Ok(x) => x.ir = IrOf(f.key)
      PROVE  CacheInv'
  <2>. DEFINE g == [f EXCEPT !.pc = m]
  <2>1. IsTop(t, n, f) /\ f \in FrameT /\ f.pc = l /\ FrameInv(f, inFlight, result)
    BY <1>2, <1>3, RunningIsTop
  <2>2. n \in 1 .. 2
    BY <2>1 DEF IsTop
  <2>3. f.pc \in Closing /\ f.slot \in Slot /\ inFlight[f.key] = f.slot
    BY <1>3, <2>1 DEF FrameInv, Closing, BuilderPc
  <2>. HIDE DEF f
  <2>4. g \in FrameT /\ g.key = f.key /\ g.slot = f.slot /\ g.pc = m /\ g.out = f.out /\ g.gen = f.gen
    BY <1>3, <2>1 DEF FrameT, BuilderPc
  <2>5. SetTop(t, g)
    BY <1>3
  <2>. HIDE DEF g
  <2>6. Becomes(t, n, g)
    BY <1>2, <2>2, <2>4, <2>5, SetTopBecomes
  <2>7. /\ result' \in [Slot -> Outcome] /\ result'[f.slot] = r
        /\ \A s \in Slot : s # f.slot => result'[s] = result[s]
    BY <1>2, <1>3, <2>3
  <2>8. g.pc \in BuilderPc /\ g.pc \notin Closing
    BY <1>3, <2>4 DEF BuilderPc, Closing
  <2>9. FrameInv(g, inFlight, result')
    <3>1. g.pc # "lookup" /\ g.pc # "publish" /\ (g.pc \in {"publish", "retire"} <=> m = "retire")
      BY <1>3, <2>4
    <3>2. \A x \in Exec : g.out = Ok(x) => x.ir = IrOf(g.key) /\ (g.key \in Ir => x.gen = g.gen)
      BY <2>1, <2>4 DEF FrameInv
    <3>. QED BY <1>3, <2>3, <2>4, <2>7, <2>8, <3>1, <3>2 DEF FrameInv
  <2>. HIDE DEF n
  <2>10. ControlInv'
    BY <1>1, <1>2, <1>3, <2>1, <2>3, <2>4, <2>6, <2>7, <2>8, <2>9, BuilderStep
  <2>. QED BY <1>1, <2>10 DEF CacheInv
<1>4. CASE Publish(t)
  <2>1. /\ Running(t, "publish") /\ result' = [result EXCEPT ![f.slot] = f.out]
        /\ SetTop(t, [f EXCEPT !.pc = "retire"])
    BY <1>4 DEF Publish
  <2>2. f \in FrameT /\ f.pc = "publish" /\ FrameInv(f, inFlight, result)
    BY <1>2, <2>1, RunningIsTop
  <2>3. f.out \in Outcome /\ f.out # Pending /\ \A x \in Exec : f.out = Ok(x) => x.ir = IrOf(f.key)
    BY <2>2 DEF FrameT, FrameInv
  <2>. HIDE DEF f
  <2>. QED BY <1>3, <2>1, <2>3
<1>5. CASE UnwindPublish(t)
  <2>1. /\ Running(t, "unwind") /\ SetTop(t, [f EXCEPT !.pc = "unwindRemove"])
        /\ result' = [result EXCEPT ![f.slot] = IF result[f.slot] = Pending THEN Err ELSE result[f.slot]]
    BY <1>5 DEF UnwindPublish
  <2>2. f \in FrameT /\ f.pc = "unwind" /\ FrameInv(f, inFlight, result)
    BY <1>2, <2>1, RunningIsTop
  <2>3. result[f.slot] = Pending /\ f.out = Pending
    BY <2>2 DEF FrameInv, Closing
  <2>4. Err \in Outcome /\ Err # Pending /\ \A x : Err # Ok(x)
    BY DEF Outcome, Err, Pending, Ok
  <2>. HIDE DEF f
  <2>5. result' = [result EXCEPT ![f.slot] = Err]
    BY <2>1, <2>3
  <2>. QED BY <1>3, <2>1, <2>3, <2>4, <2>5
<1>. QED BY <1>4, <1>5

(* A builder retires: its mark goes, its executable is retained unless it   *)
(* is too large or a clear came between, and it returns.                    *)
LEMMA RetireInv ==
    ASSUME CacheInv, NEW t \in Thread, Retire(t)
    PROVE  CacheInv'
<1>. DEFINE n == Len(stack[t])
            f == Top(t)
<1>1. /\ Running(t, "retire") /\ inFlight' = [inFlight EXCEPT ![f.key] = NoSlot]
      /\ state' = (IF f.out = Err THEN state ELSE Retained(state, f.key, f.out[2], f.gen))
      /\ ReturnFrame(t, f.out) /\ DropSlots
  BY DEF Retire
<1>2. /\ ControlInv /\ result \in [Slot -> Outcome] /\ StateInv(state)
      /\ Provenance(state.ready, state.generation)
  BY DEF CacheInv, ControlInv
<1>3. IsTop(t, n, f) /\ f \in FrameT /\ f.pc = "retire" /\ FrameInv(f, inFlight, result)
  BY <1>1, <1>2, RunningIsTop
<1>4. /\ f.out \in Outcome /\ f.out # Pending /\ f.key \in Key
      /\ \A x \in Exec : f.out = Ok(x) => x.ir = IrOf(f.key) /\ (f.key \in Ir => x.gen = f.gen)
  BY <1>3 DEF FrameT, FrameInv
<1>5. f.pc \notin Closing /\ f.pc \in BuilderPc
  BY <1>3 DEF Closing, BuilderPc
<1>. HIDE DEF n, f
<1>6. PICK g : Becomes(t, n - 1, g) /\ (n = 2 => Resumed(t, g))
  BY <1>1, <1>2, <1>3, <1>4, ReturnPops
<1>7. /\ result' \in [Slot -> Outcome]
      /\ \A u \in Thread : \A i \in 1 .. Len(stack'[u]) :
            stack'[u][i].slot \in Slot =>
                result'[stack'[u][i].slot] = result[stack'[u][i].slot]
  BY <1>1, <1>2, DropKeeps
<1>8. ControlInv'
  BY <1>1, <1>2, <1>3, <1>5, <1>6, <1>7, PopStep
<1>9. StateInv(state') /\ Provenance(state'.ready, state'.generation)
  <2>1. CASE f.out = Err
    BY <1>1, <1>2, <2>1
  <2>2. CASE f.out # Err
    <3>1. PICK x \in Exec : f.out = Ok(x)
      BY <1>4, <2>2 DEF Outcome
    <3>2. f.out[2] = x
      BY <3>1 DEF Ok
    <3>3. state' = Retained(state, f.key, x, f.gen)
      BY <1>1, <2>2, <3>2
    <3>4. /\ StateInv(state') /\ state'.generation = state.generation
          /\ \A e \in state'.ready :
                \/ e \in state.ready
                \/ e.key = f.key /\ e.exec = x /\ f.gen = state.generation
      BY <1>2, <1>4, <3>3, RetainedInv
    <3>5. x.ir = IrOf(f.key) /\ (f.key \in Ir => x.gen = f.gen)
      BY <1>4, <3>1
    <3>6. Provenance(state'.ready, state'.generation)
      BY <1>2, <3>4, <3>5 DEF Provenance, IsStrong
    <3>. QED BY <3>4, <3>6
  <2>. QED BY <2>1, <2>2
<1>. QED BY <1>8, <1>9 DEF CacheInv

(* A builder that panicked has unwound, and what it was nested in unwinds.  *)
LEMMA UnwindInv ==
    ASSUME CacheInv, NEW t \in Thread, UnwindRemove(t)
    PROVE  CacheInv'
<1>. DEFINE n == Len(stack[t])
            f == Top(t)
<1>1. /\ Running(t, "unwindRemove") /\ inFlight' = [inFlight EXCEPT ![f.key] = NoSlot]
      /\ stack' = [stack EXCEPT ![t] = IF Len(stack[t]) = 1 THEN <<>>
                                       ELSE <<[stack[t][1] EXCEPT !.pc = "unwind"]>>]
      /\ state' = state /\ DropSlots
  BY DEF UnwindRemove
<1>2. ControlInv /\ result \in [Slot -> Outcome] /\ Stacks /\ Nesting /\ FramesInv
  BY DEF CacheInv, ControlInv
<1>3. IsTop(t, n, f) /\ f.pc = "unwindRemove"
  BY <1>1, <1>2, RunningIsTop
<1>4. n \in 1 .. 2 /\ Len(stack[t]) = n
  BY <1>3 DEF IsTop
<1>5. f.pc \notin Closing /\ f.pc \in BuilderPc
  BY <1>3 DEF Closing, BuilderPc
<1>6. \E g : Becomes(t, n - 1, g) /\ (n = 2 => Resumed(t, g))
  <2>1. CASE n = 1
    <3>1. stack' = [stack EXCEPT ![t] = <<>>]
      BY <1>1, <2>1
    <3>2. Becomes(t, 0, f)
      BY <1>2, <3>1, NoneBecomes
    <3>. QED BY <2>1, <3>2
  <2>2. CASE n = 2
    <3>. DEFINE b == stack[t][1]
                g == [b EXCEPT !.pc = "unwind"]
    <3>1. 1 \in 1 .. Len(stack[t]) /\ b \in FrameT /\ b.pc = "building"
      BY <1>2, <1>4, <2>2, FrameTyped DEF Nesting
    <3>2. b.out = Pending
      BY <1>2, <3>1 DEF FramesInv, FrameInv
    <3>3. stack' = [stack EXCEPT ![t] = <<g>>]
      BY <1>1, <2>2
    <3>4. g \in FrameT /\ g.key = b.key /\ g.slot = b.slot /\ g.pc = "unwind" /\ g.out = Pending
      BY <3>1, <3>2 DEF FrameT, BuilderPc
    <3>. HIDE DEF g
    <3>5. Becomes(t, 1, g)
      BY <1>2, <3>3, <3>4, OneBecomes
    <3>6. \A x : g.out # Ok(x)
      BY <3>4 DEF Pending, Ok
    <3>7. Resumed(t, g)
      BY <3>4, <3>6 DEF Resumed
    <3>. QED BY <2>2, <3>5, <3>7
  <2>. QED BY <1>4, <2>1, <2>2
<1>7. PICK g : Becomes(t, n - 1, g) /\ (n = 2 => Resumed(t, g))
  BY <1>6
<1>8. /\ result' \in [Slot -> Outcome]
      /\ \A u \in Thread : \A i \in 1 .. Len(stack'[u]) :
            stack'[u][i].slot \in Slot =>
                result'[stack'[u][i].slot] = result[stack'[u][i].slot]
  BY <1>1, <1>2, DropKeeps
<1>. HIDE DEF n, f
<1>9. ControlInv'
  BY <1>1, <1>2, <1>3, <1>5, <1>7, <1>8, PopStep
<1>. QED BY <1>1, <1>9 DEF CacheInv

(* A step that leaves the activations, the marks and the slots alone.       *)
LEMMA ControlKept ==
    ASSUME ControlInv, stack' = stack, inFlight' = inFlight, result' = result
    PROVE  ControlInv'
  BY DEF ControlInv, Stacks, Nesting, FramesInv, SlotKey, OneBuilder, MarkedIsBuilt, WaitedIsBuilt

(* The state after a clear.                                                 *)
Emptied(st, v) ==
    [st EXCEPT !.ready = {}, !.log = <<>>, !.bytes = 0, !.entries = 0, !.generation = v]

LEMMA EmptiedParts ==
    ASSUME NEW st, StateShape(st), NEW v \in Nat
    PROVE  HasParts(Emptied(st, v), {}, <<>>, 0, 0, st.tick, v)
<1>. DEFINE mid == CutLog(st, {}, 0, 0, <<>>)
<1>1. Emptied(st, v) = [mid EXCEPT !.generation = v]
  BY DEF Emptied, CutLog, StateShape
<1>2. HasParts(mid, {}, <<>>, 0, 0, st.tick, st.generation)
  <2>1. {} \in SUBSET Entry /\ 0 \in Int /\ <<>> \in Seq(Record)
    OBVIOUS
  <2>. QED BY <2>1, CutLogParts
<1>. HIDE DEF mid
<1>. QED BY <1>1, <1>2 DEF HasParts, StateShape

LEMMA ClearInv ==
    ASSUME CacheInv, Clear
    PROVE  CacheInv'
<1>1. /\ StateShape(state) /\ StateInv(state) /\ state.generation + 1 \in Nat
      /\ state' = Emptied(state, state.generation + 1)
  BY DEF CacheInv, StateInv, Exact, StateShape, Clear, Emptied
<1>2. /\ StateShape(state') /\ state'.ready = {} /\ state'.bytes = 0 /\ state'.entries = 0
  BY <1>1, EmptiedParts DEF HasParts
<1>3. IsFiniteSet({}) /\ Cardinality({}) = 0 /\ Bytes({}) = 0
  BY FS_EmptySet, WeightEmpty DEF Bytes
<1>4. StateInv(state') /\ Provenance(state'.ready, state'.generation)
  BY <1>2, <1>3, SizeAssumption DEF StateInv, Exact, Covers, Provenance
<1>5. ControlInv'
  BY ControlKept DEF Clear, CacheInv
<1>. QED BY <1>4, <1>5 DEF CacheInv

LEMMA CacheInvStep == CacheInv /\ [Next]_vars => CacheInv'
<1>. SUFFICES ASSUME CacheInv, [Next]_vars PROVE CacheInv'
  OBVIOUS
<1>1. ASSUME NEW t \in Thread, NEW k \in Called, Call(t, k) PROVE CacheInv'
  BY <1>1, CallInv
<1>2. ASSUME NEW t \in Thread, CallStep(t) PROVE CacheInv'
  BY <1>2, HitInv, JoinInv, ClaimInv, CollectInv, LowerInv, ClosureInv, FillInv, RetireInv, UnwindInv
     DEF CallStep
<1>3. ASSUME NEW t \in Thread, DropHandle(t) PROVE CacheInv'
  BY <1>3, ControlKept DEF DropHandle, CacheInv
<1>4. CASE Clear
  BY <1>4, ClearInv
<1>5. CASE UNCHANGED vars
  BY <1>5, ControlKept DEF vars, CacheInv
<1>. QED BY <1>1, <1>2, <1>3, <1>4, <1>5 DEF Next, Quiescent

LEMMA CacheInvariance == Spec => []CacheInv
  BY CacheInvInit, CacheInvStep, PTL DEF Spec

----------------------------------------------------------------------------
(* The byte and entry counters equal what the buckets hold, and the bytes   *)
(* stay within the budget, whatever hits, dead aliases, evictions, panics   *)
(* and clears race with builds (executable_cache.rs, State).                *)
THEOREM ExecutableAccounting == Spec => []Accounting
<1>1. CacheInv => Accounting
  BY DEF CacheInv, StateInv, Exact, Accounting
<1>. QED BY <1>1, CacheInvariance, PTL

(* Whatever an entry, a slot or an activation offers for a key was compiled *)
(* from the IR of that key, digest collisions and shared IRs included.      *)
THEOREM ExecutableIsRight == Spec => []RightExecutable
<1>1. ASSUME CacheInv PROVE RightExecutable
  <2>1. \A e \in state.ready : e.exec.ir = IrOf(e.key)
    BY <1>1 DEF CacheInv, Provenance
  <2>2. ASSUME NEW f \in Frames, NEW x \in Exec,
               f.out = Ok(x) \/ (f.pc = "waiting" /\ result[f.slot] = Ok(x))
        PROVE  x.ir = IrOf(f.key)
    <3>1. PICK t \in Thread : f \in {stack[t][i] : i \in 1 .. Len(stack[t])}
      BY DEF Frames
    <3>2. PICK i \in 1 .. Len(stack[t]) : f = stack[t][i]
      BY <3>1
    <3>3. FrameInv(f, inFlight, result)
      BY <1>1, <3>2 DEF CacheInv, ControlInv, FramesInv
    <3>. QED BY <2>2, <3>3 DEF FrameInv
  <2>. QED BY <2>1, <2>2 DEF RightExecutable
<1>. QED BY <1>1, CacheInvariance, PTL

(* After a clear the cache owns no executable whose build was claimed       *)
(* before it: Retire compares the generation of the claim.                  *)
THEOREM ExecutableClearFence == Spec => []ClearFence
<1>1. CacheInv => ClearFence
  BY DEF CacheInv, Provenance, ClearFence
<1>. QED BY <1>1, CacheInvariance, PTL

(* Every wait ends at a builder that does not wait: the slot a call waits   *)
(* for is owned by another call, and if that call waits too it is an alias  *)
(* waiting for its IR, whose builder is a third call that runs.  There is   *)
(* no cycle of waits and no orphaned slot (PublishGuard).                   *)
THEOREM ExecutableWaitsEnd == Spec => []WaitsEndAtBuilder
<1>1. ASSUME CacheInv, NEW t \in Thread, Blocked(t)
      PROVE  \E u \in Thread \ {t} :
                /\ Owns(u, Top(t).slot)
                /\ Blocked(u) => \E v \in Thread \ {t, u} : Owns(v, Top(u).slot) /\ ~Blocked(v)
  <2>1. /\ ControlInv /\ Stacks /\ Nesting /\ FramesInv /\ SlotKey /\ OneBuilder /\ WaitedIsBuilt
    BY <1>1 DEF CacheInv, ControlInv
  <2>2. ASSUME NEW w \in Thread, Blocked(w)
        PROVE  \E u \in Thread : \E j \in 1 .. Len(stack[u]) :
                  /\ stack[u][j].pc \in Closing /\ stack[u][j].slot = Top(w).slot
                  /\ stack[u][j].key = Top(w).key
    <3>. DEFINE n == Len(stack[w])
    <3>1. Running(w, "waiting") /\ result[Top(w).slot] = Pending
      BY <2>2 DEF Blocked
    <3>2. n \in 1 .. n /\ Top(w) = stack[w][n] /\ Top(w).pc = "waiting" /\ n \in 1 .. 2
      <4>1. n \in 1 .. 2 /\ Top(w) = stack[w][n] /\ Top(w).pc = "waiting"
        BY <2>1, <3>1, RunningTop
      <4>. QED BY <4>1
    <3>3. Top(w).slot \in Slot
      <4>1. FrameInv(stack[w][n], inFlight, result)
        BY <2>1, <3>2 DEF FramesInv
      <4>. QED BY <3>2, <4>1 DEF FrameInv
    <3>. HIDE DEF n
    <3>4. PICK u \in Thread : \E j \in 1 .. Len(stack[u]) :
                  stack[u][j].pc \in Closing /\ stack[u][j].slot = stack[w][n].slot
      BY <2>1, <3>1, <3>2 DEF WaitedIsBuilt, n
    <3>5. PICK j \in 1 .. Len(stack[u]) :
                  stack[u][j].pc \in Closing /\ stack[u][j].slot = stack[w][n].slot
      BY <3>4
    <3>6. stack[u][j].key = stack[w][n].key
      BY <2>1, <3>2, <3>3, <3>5 DEF SlotKey, n
    <3>. QED BY <3>2, <3>5, <3>6
  \* The builder that a blocked call waits for is another call's.
  <2>3. ASSUME NEW w \in Thread, Blocked(w), NEW j \in 1 .. Len(stack[w]),
               stack[w][j].pc \in Closing
        PROVE  /\ j = 1 /\ Len(stack[w]) = 2 /\ stack[w][1].key \in Input
               /\ Top(w).key \in Ir
    <3>. DEFINE n == Len(stack[w])
    <3>1. n \in 1 .. 2 /\ Top(w) = stack[w][n] /\ Top(w).pc = "waiting"
      BY <2>1, <2>3, RunningTop DEF Blocked
    <3>2. j # n
      BY <2>3, <3>1 DEF Closing
    <3>3. j = 1 /\ n = 2
      BY <3>1, <3>2
    <3>4. stack[w][1].key \in Input /\ stack[w][2].key = Lower[stack[w][1].key]
      BY <2>1, <3>3 DEF Nesting
    <3>. QED BY <3>1, <3>3, <3>4, LowerAssumption
  <2>4. PICK u \in Thread : \E j \in 1 .. Len(stack[u]) :
                /\ stack[u][j].pc \in Closing /\ stack[u][j].slot = Top(t).slot
                /\ stack[u][j].key = Top(t).key
    BY <1>1, <2>2
  <2>5. PICK j \in 1 .. Len(stack[u]) :
                /\ stack[u][j].pc \in Closing /\ stack[u][j].slot = Top(t).slot
                /\ stack[u][j].key = Top(t).key
    BY <2>4
  <2>6. \A w \in Thread : \A i \in 1 .. Len(stack[w]) :
           stack[w][i].pc \in Closing => Owns(w, stack[w][i].slot)
    <3>1. \A w \in Thread : DOMAIN stack[w] = 1 .. Len(stack[w])
      BY <2>1, LenProperties DEF Stacks
    <3>2. \A p : p \in Closing => p \in BuilderPc
      BY DEF Closing, BuilderPc
    <3>. QED BY <3>1, <3>2 DEF Owns
  <2>7. u # t
    <3>1. ASSUME u = t PROVE FALSE
      <4>1. stack[t][1].key \in Input /\ j = 1 /\ Top(t).key \in Ir
        BY <1>1, <2>3, <2>5, <3>1
      <4>. QED BY <2>5, <3>1, <4>1, LowerAssumption
    <3>. QED BY <3>1
  <2>8. ASSUME Blocked(u)
        PROVE  \E v \in Thread \ {t, u} : Owns(v, Top(u).slot) /\ ~Blocked(v)
    <3>1. stack[u][1].key \in Input /\ j = 1 /\ Top(u).key \in Ir
      BY <2>3, <2>5, <2>8
    <3>2. PICK v \in Thread : \E i \in 1 .. Len(stack[v]) :
                  /\ stack[v][i].pc \in Closing /\ stack[v][i].slot = Top(u).slot
                  /\ stack[v][i].key = Top(u).key
      BY <2>2, <2>8
    <3>3. PICK i \in 1 .. Len(stack[v]) :
                  /\ stack[v][i].pc \in Closing /\ stack[v][i].slot = Top(u).slot
                  /\ stack[v][i].key = Top(u).key
      BY <3>2
    <3>4. ~ Blocked(v)
      <4>1. ASSUME Blocked(v) PROVE FALSE
        <5>1. i = 1 /\ stack[v][1].key \in Input
          BY <2>3, <3>3, <4>1
        <5>. QED BY <3>1, <3>3, <5>1, LowerAssumption
      <4>. QED BY <4>1
    <3>5. v # t /\ v # u
      BY <1>1, <2>8, <3>4
    <3>. QED BY <2>6, <3>3, <3>4, <3>5
  <2>. QED BY <2>5, <2>6, <2>7, <2>8
<1>2. CacheInv => WaitsEndAtBuilder
  BY <1>1 DEF WaitsEndAtBuilder
<1>. QED BY <1>2, CacheInvariance, PTL

=============================================================================
