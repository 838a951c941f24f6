--------------------------- MODULE LazyRowsProofs ---------------------------
(***************************************************************************)
(* Proofs about the lazy mask rows, for any number of queries, states,     *)
(* masks and any budget: the atomic counter of retained bytes is exact and *)
(* within its budget, a cached row is the mask of its state, and a row is  *)
(* decided once.                                                           *)
(***************************************************************************)
EXTENDS LazyRows, FiniteSetTheorems, TLAPS

(* What a walk of state s may end with.                                     *)
AnswerOf(s) == {Ok(MaskOf[s])} \cup Failure

Place == {"idle", "get", "reserve", "walk", "drop", "settle", "publish", "read", "reply"}

RowTypes ==
    /\ rows \in [State -> Result \cup {Empty, Uncached}]
    /\ runner \in [State -> Thread \cup {NoThread}]
    /\ retained \in Int
    /\ qpc \in [Thread -> Place]
    /\ qstate \in [Thread -> State]
    /\ outcome \in [Thread -> Result \cup {None}]

(* The thread inside an initialiser asks for that state, whose row is still *)
(* undecided.                                                               *)
RunnerInv ==
    \A s \in State : runner[s] \in Thread =>
        /\ qstate[runner[s]] = s
        /\ qpc[runner[s]] \in {"reserve", "walk", "drop", "settle", "publish"}
        /\ rows[s] = Empty

(* What a query has in hand at each place.                                  *)
QueryInv ==
    \A t \in Thread :
        /\ qpc[t] \in {"reserve", "settle", "publish"} => Initialising(t)
        /\ qpc[t] \in {"idle", "get", "reserve", "walk"} => outcome[t] = None
        /\ qpc[t] \in {"drop", "settle", "reply"} => outcome[t] \in AnswerOf(qstate[t])
        /\ qpc[t] = "publish" => outcome[t] \in AnswerOf(qstate[t]) \cup {None}
        /\ qpc[t] = "read" => /\ rows[qstate[t]] # Empty
                              /\ outcome[t] = None \/ outcome[t] = rows[qstate[t]]

RowsRight == \A s \in State : rows[s] \in {Empty, Uncached} \cup AnswerOf(s)

Counted(n, kept, reserved) ==
    /\ IsFiniteSet(reserved)
    /\ n = EntryBytes * (Cardinality(kept) + Cardinality(reserved))
    /\ n <= Budget

RowsInv == RowTypes /\ RunnerInv /\ QueryInv /\ RowsRight /\ Counted(retained, Kept, Reserved)

----------------------------------------------------------------------------
(* The tags of results and row contents tell them apart.                    *)
LEMMA Distinct ==
    /\ Empty # Uncached /\ None \notin Failure
    /\ Empty \notin Failure /\ Uncached \notin Failure
    /\ \A m : Ok(m) \notin Failure /\ Ok(m) # None /\ Ok(m) # Empty /\ Ok(m) # Uncached
    /\ None \notin Result /\ Uncached \notin Result /\ Empty \notin Result
  BY DEF Empty, Uncached, None, Failure, Err, Ok, Result

LEMMA AnswerIsResult ==
    \A s \in State : AnswerOf(s) \subseteq Result
  BY DEF AnswerOf, Result

(* One more entry, or one fewer.                                            *)
LEMMA OneEntry ==
    ASSUME NEW n \in Int
    PROVE  /\ EntryBytes * (n + 1) = EntryBytes * n + EntryBytes
           /\ EntryBytes * (n - 1) = EntryBytes * n - EntryBytes
           /\ EntryBytes \in Int
  BY RowsAssumption

LEMMA KeptFinite == IsFiniteSet(Kept) /\ Cardinality(Kept) \in Nat
<1>1. IsFiniteSet(Kept)
  BY RowsAssumption, FS_Subset DEF Kept
<1>. QED BY <1>1, FS_CardinalityType

LEMMA RowsInvInit == Init => RowsInv
<1>. SUFFICES ASSUME Init PROVE RowsInv
  OBVIOUS
<1>1. AnyState \in State
  BY RowsAssumption DEF AnyState
<1>2. RowTypes
  BY <1>1 DEF Init, RowTypes, Place
<1>3. RunnerInv /\ QueryInv /\ RowsRight
  BY <1>1, RowsAssumption DEF Init, RunnerInv, QueryInv, RowsRight
<1>4. Kept = {} /\ Reserved = {}
  BY <1>1, RowsAssumption DEF Init, Kept, Reserved, Initialising
<1>5. IsFiniteSet({}) /\ Cardinality({}) = 0
  BY FS_EmptySet
<1>6. Cardinality(Kept) = 0 /\ Cardinality(Reserved) = 0 /\ IsFiniteSet(Reserved)
  BY <1>4, <1>5
<1>7. Counted(retained, Kept, Reserved)
  BY <1>6, RowsAssumption DEF Init, Counted
<1>. QED BY <1>2, <1>3, <1>7 DEF RowsInv

(* A step that leaves the accounted sets and the counter alone.             *)
LEMMA CountedKept ==
    ASSUME Counted(retained, Kept, Reserved), retained' = retained, Kept' = Kept,
           Reserved' = Reserved
    PROVE  Counted(retained', Kept', Reserved')
  BY DEF Counted

LEMMA AskInv ==
    ASSUME RowsInv, NEW t \in Thread, NEW s \in State, Ask(t, s)
    PROVE  RowsInv'
<1>. USE DEF RowsInv, Ask, At, Goto, rowVars
<1>1. RowTypes'
  BY DEF RowTypes, Place
<1>2. RunnerInv'
  BY DEF RunnerInv, RowTypes
<1>3. QueryInv'
  BY DEF QueryInv, RowTypes, Initialising
<1>4. RowsRight'
  BY DEF RowsRight
<1>5. Kept' = Kept /\ Reserved' = Reserved
  BY DEF Kept, Reserved, RowTypes, Initialising
<1>. QED BY <1>1, <1>2, <1>3, <1>4, <1>5, CountedKept

LEMMA GetInv ==
    ASSUME RowsInv, NEW t \in Thread, Get(t)
    PROVE  RowsInv'
<1>. USE DEF RowsInv, Get, At, Goto
<1>1. RowTypes'
  BY DEF RowTypes, Place
<1>2. RunnerInv'
  BY DEF RunnerInv, RowTypes
<1>3. QueryInv'
  BY RowsAssumption DEF QueryInv, RowTypes, Initialising
<1>4. RowsRight'
  BY DEF RowsRight
<1>5. Kept' = Kept /\ Reserved' = Reserved
  BY RowsAssumption DEF Kept, Reserved, RowTypes, Initialising
<1>. QED BY <1>1, <1>2, <1>3, <1>4, <1>5, CountedKept

(* The winner of the OnceLock charges its row, if the budget admits it.     *)
LEMMA ReserveInv ==
    ASSUME RowsInv, NEW t \in Thread, Reserve(t)
    PROVE  RowsInv'
<1>. USE DEF RowsInv, Reserve, At, Goto
<1>1. RowTypes'
  BY RowsAssumption DEF RowTypes, Place
<1>2. RunnerInv'
  BY DEF RunnerInv, RowTypes
<1>3. QueryInv'
  BY DEF QueryInv, RowTypes, Initialising
<1>4. RowsRight'
  BY DEF RowsRight
<1>5. Kept' = Kept
  BY DEF Kept
<1>6. t \notin Reserved /\ Initialising(t) /\ outcome[t] = None
  BY DEF Reserved, QueryInv
<1>7. CASE retained + EntryBytes <= Budget
  <2>1. retained' = retained + EntryBytes /\ Reserved' = Reserved \cup {t}
    BY <1>6, <1>7 DEF Reserved, RowTypes, Initialising
  <2>2. IsFiniteSet(Reserved) /\ Cardinality(Reserved) \in Nat
    BY FS_CardinalityType DEF Counted
  <2>3. IsFiniteSet(Reserved') /\ Cardinality(Reserved') = Cardinality(Reserved) + 1
    BY <1>6, <2>1, <2>2, FS_AddElement
  <2>. DEFINE k == Cardinality(Kept)
              r == Cardinality(Reserved)
  <2>4. k \in Nat /\ r \in Nat /\ Cardinality(Kept') = k /\ Cardinality(Reserved') = r + 1
    BY <1>5, <2>2, <2>3, KeptFinite
  <2>5. retained = EntryBytes * (k + r)
    BY DEF Counted
  <2>. HIDE DEF k, r
  <2>6. EntryBytes * ((k + r) + 1) = EntryBytes * (k + r) + EntryBytes /\ k + (r + 1) = (k + r) + 1
    BY <2>4, OneEntry
  <2>7. retained' = EntryBytes * (k + (r + 1))
    BY <2>1, <2>5, <2>6
  <2>8. Counted(retained', Kept', Reserved')
    BY <1>7, <2>1, <2>3, <2>4, <2>7 DEF Counted
  <2>. QED BY <1>1, <1>2, <1>3, <1>4, <2>8
<1>8. CASE ~ (retained + EntryBytes <= Budget)
  <2>1. retained' = retained /\ Reserved' = Reserved
    BY <1>6, <1>8 DEF Reserved, RowTypes, Initialising
  <2>. QED BY <1>1, <1>2, <1>3, <1>4, <1>5, <2>1, CountedKept
<1>. QED BY <1>7, <1>8

(* The walk: its places, and what it leaves in hand.                        *)
LEMMA WalkInv ==
    ASSUME RowsInv, NEW t \in Thread, rows' = rows, runner' = runner, retained' = retained,
           qstate' = qstate,
           \/ UNCHANGED <<qpc, outcome>>
           \/ /\ At(t, "walk")
              /\ \/ /\ Goto(t, AfterWalk(t))
                    /\ outcome' = [outcome EXCEPT ![t] = Err("budget fully committed")]
                 \/ /\ Goto(t, "drop")
                    /\ \E r \in {Ok(MaskOf[qstate[t]]), Err("allocation failed")} :
                          outcome' = [outcome EXCEPT ![t] = r]
           \/ At(t, "drop") /\ Goto(t, AfterWalk(t)) /\ outcome' = outcome
    PROVE  RowsInv'
<1>. USE DEF RowsInv, At, Goto
<1>1. AfterWalk(t) = (IF Initialising(t) THEN "settle" ELSE "reply")
  BY DEF AfterWalk
<1>2. qpc' \in [Thread -> Place] /\ \A u \in Thread : u # t => qpc'[u] = qpc[u] /\ outcome'[u] = outcome[u]
  BY <1>1 DEF RowTypes, Place
<1>3. \/ qpc'[t] = qpc[t] /\ outcome'[t] = outcome[t]
      \/ /\ qpc[t] = "walk" /\ qpc'[t] = AfterWalk(t)
         /\ outcome'[t] = Err("budget fully committed") /\ DOMAIN outcome' = Thread
      \/ /\ qpc[t] = "walk" /\ qpc'[t] = "drop"
         /\ outcome'[t] \in {Ok(MaskOf[qstate[t]]), Err("allocation failed")}
      \/ qpc[t] = "drop" /\ qpc'[t] = AfterWalk(t) /\ outcome'[t] = outcome[t]
  BY DEF RowTypes
<1>4. qpc[t] = "walk" /\ qpc'[t] # "walk" => outcome'[t] \in AnswerOf(qstate[t])
  BY <1>1, <1>3 DEF AnswerOf, Failure
<1>5. RowTypes'
  <2>1. outcome' \in [Thread -> Result \cup {None}]
    <3>1. Err("budget fully committed") \in Result /\ Err("allocation failed") \in Result
      BY DEF Result, Failure
    <3>2. Ok(MaskOf[qstate[t]]) \in Result
      BY DEF Result, RowTypes
    <3>3. outcome \in [Thread -> Result \cup {None}]
      BY DEF RowTypes
    <3>. HIDE DEF RowsInv, Result
    <3>4. ASSUME NEW r \in Result PROVE [outcome EXCEPT ![t] = r] \in [Thread -> Result \cup {None}]
      BY <3>3
    <3>5. CASE outcome' = outcome
      BY <3>3, <3>5
    <3>. QED BY <3>1, <3>2, <3>4, <3>5
  <2>. QED BY <1>2, <2>1 DEF RowTypes
<1>6. RunnerInv'
  <2>. SUFFICES ASSUME NEW s \in State, runner[s] \in Thread
                PROVE  /\ qstate[runner[s]] = s
                       /\ qpc'[runner[s]] \in {"reserve", "walk", "drop", "settle", "publish"}
                       /\ rows[s] = Empty
    BY DEF RunnerInv
  <2>1. /\ qstate[runner[s]] = s /\ rows[s] = Empty
        /\ qpc[runner[s]] \in {"reserve", "walk", "drop", "settle", "publish"}
    BY DEF RunnerInv
  <2>2. CASE runner[s] # t
    BY <1>2, <2>1, <2>2
  <2>3. CASE runner[s] = t
    <3>1. AfterWalk(t) = "settle"
      BY <1>1, <2>1, <2>3 DEF Initialising
    <3>. QED BY <1>3, <2>1, <2>3, <3>1
  <2>. QED BY <2>2, <2>3
<1>7. QueryInv'
  <2>. SUFFICES ASSUME NEW u \in Thread
                PROVE  /\ qpc'[u] \in {"reserve", "settle", "publish"} => runner[qstate[u]] = u
                       /\ qpc'[u] \in {"idle", "get", "reserve", "walk"} => outcome'[u] = None
                       /\ qpc'[u] \in {"drop", "settle", "reply"} => outcome'[u] \in AnswerOf(qstate[u])
                       /\ qpc'[u] = "publish" => outcome'[u] \in AnswerOf(qstate[u]) \cup {None}
                       /\ qpc'[u] = "read" => /\ rows[qstate[u]] # Empty
                                              /\ outcome'[u] = None \/ outcome'[u] = rows[qstate[u]]
    BY DEF QueryInv, Initialising
  <2>1. CASE u # t
    BY <1>2, <2>1 DEF QueryInv, Initialising
  <2>2. CASE u = t
    BY <1>1, <1>3, <1>4, <2>2 DEF QueryInv, Initialising
  <2>. QED BY <2>1, <2>2
<1>8. RowsRight'
  BY DEF RowsRight
<1>9. Kept' = Kept /\ Reserved' = Reserved
  <2>1. Kept' = Kept
    BY DEF Kept
  <2>2. ASSUME NEW u \in Thread PROVE u \in Reserved' <=> u \in Reserved
    <3>1. CASE u # t
      BY <1>2, <3>1 DEF Reserved, Initialising
    <3>2. CASE u = t
      BY <1>1, <1>3, <3>2 DEF Reserved, Initialising, QueryInv
    <3>. QED BY <3>1, <3>2
  <2>3. Reserved' \subseteq Thread /\ Reserved \subseteq Thread
    BY DEF Reserved
  <2>. QED BY <2>1, <2>2, <2>3
<1>. QED BY <1>5, <1>6, <1>7, <1>8, <1>9, CountedKept

(* A failed walk gives its reservation back.                                *)
LEMMA SettleInv ==
    ASSUME RowsInv, NEW t \in Thread, Settle(t)
    PROVE  RowsInv'
<1>. USE DEF RowsInv, Settle, At, Goto
<1>1. RowTypes'
  BY RowsAssumption DEF RowTypes, Place
<1>2. RunnerInv'
  BY DEF RunnerInv, RowTypes
<1>3. QueryInv'
  BY DEF QueryInv, RowTypes, Initialising
<1>4. RowsRight'
  BY DEF RowsRight
<1>5. Kept' = Kept
  BY DEF Kept
<1>6. t \in Reserved /\ Initialising(t) /\ outcome[t] \in AnswerOf(qstate[t])
  BY DEF Reserved, QueryInv
<1>7. CASE outcome[t] \in Failure
  <2>1. retained' = retained - EntryBytes /\ Reserved' = Reserved \ {t}
    BY <1>6, <1>7 DEF Reserved, RowTypes, Initialising
  <2>2. IsFiniteSet(Reserved) /\ Cardinality(Reserved) \in Nat
    BY FS_CardinalityType DEF Counted
  <2>3. IsFiniteSet(Reserved') /\ Cardinality(Reserved') = Cardinality(Reserved) - 1
    BY <1>6, <2>1, <2>2, FS_RemoveElement
  <2>. DEFINE k == Cardinality(Kept)
              r == Cardinality(Reserved)
  <2>4. k \in Nat /\ r \in Nat /\ Cardinality(Kept') = k /\ Cardinality(Reserved') = r - 1
    BY <1>5, <2>2, <2>3, KeptFinite
  <2>5. retained = EntryBytes * (k + r) /\ retained <= Budget /\ retained \in Int
    BY DEF Counted, RowTypes
  <2>. HIDE DEF k, r
  <2>6. EntryBytes * ((k + r) - 1) = EntryBytes * (k + r) - EntryBytes /\ k + (r - 1) = (k + r) - 1
    BY <2>4, OneEntry
  <2>7. retained' = EntryBytes * (k + (r - 1)) /\ retained' <= Budget
    BY <2>1, <2>5, <2>6, RowsAssumption
  <2>8. Counted(retained', Kept', Reserved')
    BY <2>3, <2>4, <2>7 DEF Counted
  <2>. QED BY <1>1, <1>2, <1>3, <1>4, <2>8
<1>8. CASE outcome[t] \notin Failure
  <2>1. outcome[t] # None
    BY <1>6, <1>8, Distinct DEF AnswerOf
  <2>2. retained' = retained /\ Reserved' = Reserved
    BY <1>6, <1>8, <2>1 DEF Reserved, RowTypes, Initialising
  <2>. QED BY <1>1, <1>2, <1>3, <1>4, <1>5, <2>2, CountedKept
<1>. QED BY <1>7, <1>8

(* The row is decided: a kept mask takes over its initialiser's charge.     *)
LEMMA PublishInv ==
    ASSUME RowsInv, NEW t \in Thread, Publish(t)
    PROVE  RowsInv'
<1>. DEFINE s == qstate[t]
            v == IF outcome[t] = None THEN Uncached ELSE outcome[t]
<1>1. /\ qpc[t] = "publish" /\ rows' = [rows EXCEPT ![s] = v]
      /\ runner' = [runner EXCEPT ![s] = NoThread] /\ qpc' = [qpc EXCEPT ![t] = "read"]
      /\ retained' = retained /\ qstate' = qstate /\ outcome' = outcome
  BY DEF Publish, At, Goto
<1>2. /\ RowTypes /\ RunnerInv /\ QueryInv /\ RowsRight /\ Counted(retained, Kept, Reserved)
      /\ s \in State /\ runner[s] = t /\ rows[s] = Empty
      /\ outcome[t] \in AnswerOf(s) \cup {None}
  BY <1>1 DEF RowsInv, QueryInv, Initialising, RunnerInv, RowTypes
<1>3. v \in {Uncached} \cup AnswerOf(s) /\ v # Empty /\ v \in Result \cup {Uncached}
  BY <1>2, Distinct, AnswerIsResult
<1>4. \A u \in Thread : u # t => ~ (Initialising(u) /\ qstate[u] = s)
  BY <1>2 DEF Initialising
<1>. HIDE DEF v, s
<1>5. RowTypes'
  BY <1>1, <1>2, <1>3 DEF RowTypes, Place
<1>6. RunnerInv'
  BY <1>1, <1>2, RowsAssumption DEF RunnerInv, RowTypes
<1>7. QueryInv'
  <2>. SUFFICES ASSUME NEW u \in Thread
                PROVE  /\ qpc'[u] \in {"reserve", "settle", "publish"} => runner'[qstate[u]] = u
                       /\ qpc'[u] \in {"idle", "get", "reserve", "walk"} => outcome[u] = None
                       /\ qpc'[u] \in {"drop", "settle", "reply"} => outcome[u] \in AnswerOf(qstate[u])
                       /\ qpc'[u] = "publish" => outcome[u] \in AnswerOf(qstate[u]) \cup {None}
                       /\ qpc'[u] = "read" => /\ rows'[qstate[u]] # Empty
                                              /\ outcome[u] = None \/ outcome[u] = rows'[qstate[u]]
    BY <1>1 DEF QueryInv, Initialising
  <2>1. CASE u # t
    <3>1. qstate[u] \in State /\ qpc'[u] = qpc[u]
      BY <1>1, <1>2, <2>1 DEF RowTypes
    <3>2. qpc[u] = "read" => qstate[u] # s
      BY <1>2 DEF QueryInv
    <3>3. Initialising(u) => qstate[u] # s
      BY <1>4, <2>1
    <3>. QED BY <1>1, <1>2, <3>1, <3>2, <3>3 DEF QueryInv, Initialising, RowTypes
  <2>2. CASE u = t
    <3>1. qpc'[u] = "read" /\ rows'[qstate[u]] = v
      BY <1>1, <1>2, <2>2 DEF RowTypes, s
    <3>2. outcome[t] = None \/ outcome[t] = v
      BY DEF v
    <3>. QED BY <1>3, <2>2, <3>1, <3>2
  <2>. QED BY <2>1, <2>2
<1>8. RowsRight'
  BY <1>1, <1>2, <1>3 DEF RowsRight, RowTypes
<1>9. ASSUME NEW u \in Thread PROVE u \in Reserved' <=> u \in Reserved /\ u # t
  <2>1. CASE u # t
    <3>1. qstate[u] \in State /\ qpc'[u] = qpc[u]
      BY <1>1, <1>2, <2>1 DEF RowTypes
    <3>2. Initialising(u)' <=> Initialising(u)
      <4>1. CASE qstate[u] = s
        BY <1>1, <1>2, <2>1, <4>1, RowsAssumption DEF Initialising, RowTypes
      <4>2. CASE qstate[u] # s
        BY <1>1, <1>2, <3>1, <4>2 DEF Initialising, RowTypes
      <4>. QED BY <4>1, <4>2
    <3>. QED BY <1>1, <2>1, <3>1, <3>2 DEF Reserved
  <2>2. CASE u = t
    <3>1. qpc'[t] = "read"
      BY <1>1, <1>2 DEF RowTypes
    <3>. QED BY <2>2, <3>1 DEF Reserved
  <2>. QED BY <2>1, <2>2
<1>10. Reserved' = Reserved \ {t}
  BY <1>9 DEF Reserved
<1>11. s \notin Kept /\ (t \in Reserved <=> v \notin Failure \cup {Uncached})
  <2>1. s \notin Kept
    BY <1>2 DEF Kept
  <2>2. t \in Reserved <=> outcome[t] \notin Failure \cup {None}
    BY <1>1, <1>2 DEF Reserved, Initialising, s
  <2>3. outcome[t] \notin Failure \cup {None} <=> v \notin Failure \cup {Uncached}
    BY <1>2, Distinct, AnswerIsResult DEF v
  <2>. QED BY <2>1, <2>2, <2>3
<1>12. Kept' = IF v \in Failure \cup {Uncached} THEN Kept ELSE Kept \cup {s}
  <2>1. Kept' = {q \in State : rows'[q] \notin Failure \cup {Empty, Uncached}}
    BY DEF Kept
  <2>2. \A q \in State : rows'[q] = IF q = s THEN v ELSE rows[q]
    BY <1>1, <1>2 DEF RowTypes
  <2>. QED BY <1>2, <1>3, <1>11, <2>1, <2>2 DEF Kept
<1>13. Counted(retained', Kept', Reserved')
  <2>1. /\ IsFiniteSet(Reserved) /\ Cardinality(Reserved) \in Nat
        /\ IsFiniteSet(Kept) /\ Cardinality(Kept) \in Nat
    BY <1>2, KeptFinite, FS_CardinalityType DEF Counted
  <2>2. CASE v \in Failure \cup {Uncached}
    <3>1. Kept' = Kept /\ Reserved' = Reserved
      BY <1>10, <1>11, <1>12, <2>2
    <3>. QED BY <1>1, <1>2, <3>1, CountedKept
  <2>3. CASE v \notin Failure \cup {Uncached}
    <3>1. IsFiniteSet(Reserved') /\ Cardinality(Reserved') = Cardinality(Reserved) - 1
      BY <1>10, <1>11, <2>1, <2>3, FS_RemoveElement
    <3>2. Cardinality(Kept') = Cardinality(Kept) + 1
      BY <1>11, <1>12, <2>1, <2>3, FS_AddElement
    <3>3. Cardinality(Kept') + Cardinality(Reserved') = Cardinality(Kept) + Cardinality(Reserved)
      BY <2>1, <3>1, <3>2
    <3>. QED BY <1>1, <1>2, <3>1, <3>3 DEF Counted
  <2>. QED BY <2>2, <2>3
<1>. QED BY <1>5, <1>6, <1>7, <1>8, <1>13 DEF RowsInv

(* A decided row is returned, or walked again without a reservation.        *)
LEMMA ReadInv ==
    ASSUME RowsInv, NEW t \in Thread, Read(t)
    PROVE  RowsInv'
<1>. DEFINE v == rows[qstate[t]]
<1>1. /\ qpc[t] = "read" /\ rows' = rows /\ runner' = runner /\ retained' = retained
      /\ qstate' = qstate
      /\ \/ v = Uncached /\ qpc' = [qpc EXCEPT ![t] = "walk"] /\ outcome' = outcome
         \/ /\ v # Uncached /\ qpc' = [qpc EXCEPT ![t] = "reply"]
            /\ outcome' = [outcome EXCEPT ![t] = v]
  BY DEF Read, At, Goto, rowVars
<1>2. /\ RowTypes /\ RunnerInv /\ QueryInv /\ RowsRight /\ Counted(retained, Kept, Reserved)
      /\ qstate[t] \in State /\ v # Empty /\ (outcome[t] = None \/ outcome[t] = v)
      /\ outcome[t] \in Result \cup {None}
  BY <1>1 DEF RowsInv, QueryInv, RowTypes
<1>3. v # Uncached => v \in AnswerOf(qstate[t]) /\ v \in Result
  BY <1>2, AnswerIsResult DEF RowsRight
<1>4. v = Uncached => outcome[t] = None
  BY <1>2, Distinct
<1>5. ~ Initialising(t)
  BY <1>1, <1>2 DEF Initialising, RunnerInv
<1>. HIDE DEF v
<1>6. RowTypes'
  BY <1>1, <1>2, <1>3 DEF RowTypes, Place
<1>7. RunnerInv'
  BY <1>1, <1>2, <1>5 DEF RunnerInv, RowTypes, Initialising
<1>8. QueryInv'
  BY <1>1, <1>2, <1>3, <1>4 DEF QueryInv, RowTypes, Initialising
<1>9. RowsRight' /\ Kept' = Kept
  BY <1>1, <1>2 DEF RowsRight, Kept
<1>10. Reserved' = Reserved
  BY <1>1, <1>2, <1>5 DEF Reserved, RowTypes, Initialising
<1>. QED BY <1>1, <1>2, <1>6, <1>7, <1>8, <1>9, <1>10, CountedKept DEF RowsInv

LEMMA ReturnInv ==
    ASSUME RowsInv, NEW t \in Thread, Return(t)
    PROVE  RowsInv'
<1>. USE DEF RowsInv, Return, At, Goto, rowVars
<1>0. AnyState \in State
  BY RowsAssumption DEF AnyState
<1>1. RowTypes'
  BY <1>0 DEF RowTypes, Place
<1>2. RunnerInv'
  BY <1>0 DEF RunnerInv, RowTypes
<1>3. QueryInv'
  BY <1>0 DEF QueryInv, RowTypes, Initialising
<1>4. RowsRight' /\ Kept' = Kept
  BY DEF RowsRight, Kept
<1>5. Reserved' = Reserved
  BY DEF Reserved, RowTypes, Initialising
<1>. QED BY <1>1, <1>2, <1>3, <1>4, <1>5, CountedKept

LEMMA RowsInvStep == RowsInv /\ [Next]_vars => RowsInv'
<1>. SUFFICES ASSUME RowsInv, [Next]_vars PROVE RowsInv'
  OBVIOUS
<1>1. ASSUME NEW t \in Thread, Admission(t) \/ Walk(t) \/ DropPermit(t) PROVE RowsInv'
  <2>1. rows' = rows /\ runner' = runner /\ retained' = retained /\ qstate' = qstate
    BY <1>1 DEF Admission, Walk, DropPermit, rowVars
  <2>2. CASE Admission(t)
    BY <2>1, <2>2, WalkInv DEF Admission
  <2>3. CASE Walk(t)
    BY <2>1, <2>3, WalkInv DEF Walk
  <2>4. CASE DropPermit(t)
    BY <2>1, <2>4, WalkInv DEF DropPermit
  <2>. QED BY <1>1, <2>2, <2>3, <2>4
<1>2. ASSUME NEW t \in Thread, QueryStep(t) PROVE RowsInv'
  BY <1>1, <1>2, GetInv, ReserveInv, SettleInv, PublishInv, ReadInv DEF QueryStep
<1>3. ASSUME NEW t \in Thread, NEW s \in State, Ask(t, s) PROVE RowsInv'
  BY <1>3, AskInv
<1>4. ASSUME NEW t \in Thread, Return(t) PROVE RowsInv'
  BY <1>4, ReturnInv
<1>5. CASE UNCHANGED vars
  BY <1>5 DEF vars, rowVars, queryVars, RowsInv, RowTypes, RunnerInv, QueryInv, RowsRight, Kept,
              Reserved, Initialising, Counted
<1>. QED BY <1>2, <1>3, <1>4, <1>5 DEF Next, Rest

LEMMA RowsInvariance == Spec => []RowsInv
  BY RowsInvInit, RowsInvStep, PTL DEF Spec

----------------------------------------------------------------------------
(* The atomic counter is what the kept masks and the running initialisers   *)
(* account for, and stays within the budget, whatever walks fail, whatever  *)
(* rows do not fit and however queries interleave (LazyRows::try_reserve).  *)
THEOREM RowsRetainedExact == Spec => []RetainedExact
<1>1. RowsInv => RetainedExact
  BY DEF RowsInv, Counted, RetainedExact
<1>. QED BY <1>1, RowsInvariance, PTL

(* What a query holds when it returns: the mask of the state it asked for,  *)
(* or a failure.                                                            *)
RepliesRight == \A t \in Thread : qpc[t] = "reply" => outcome[t] \in AnswerOf(qstate[t])

(* No query gets the mask of another state, from its own walk, from the one *)
(* it waited for or from the cache.                                         *)
THEOREM RowsReplyRight == Spec => []RepliesRight
<1>1. RowsInv => RepliesRight
  BY DEF RowsInv, QueryInv, RepliesRight
<1>. QED BY <1>1, RowsInvariance, PTL

(* A row that is decided stays as it is.                                    *)
DecidedOnce == \A s \in State : rows[s] # Empty => rows'[s] = rows[s]

(* OnceLock: whoever comes later, and whatever became of the walk, the slot *)
(* of a state is never written a second time.                               *)
THEOREM RowsDecidedOnce == Spec => [][DecidedOnce]_vars
<1>1. ASSUME RowsInv, [Next]_vars PROVE [DecidedOnce]_vars
  <2>1. ASSUME NEW t \in Thread, Publish(t) PROVE DecidedOnce
    <3>1. RowTypes /\ RunnerInv /\ QueryInv /\ qpc[t] = "publish"
      BY <1>1, <2>1 DEF RowsInv, Publish, At
    <3>2. rows[qstate[t]] = Empty /\ qstate[t] \in State
      BY <3>1 DEF QueryInv, RunnerInv, RowTypes, Initialising
    <3>. QED BY <2>1, <3>1, <3>2 DEF Publish, DecidedOnce, RowTypes
  <2>2. ASSUME NEW t \in Thread, QueryStep(t) PROVE DecidedOnce
    <3>1. CASE ~ Publish(t)
      <4>1. rows' = rows
        BY <2>2, <3>1 DEF QueryStep, Get, Reserve, Admission, Walk, DropPermit, Settle, Read, rowVars
      <4>. QED BY <4>1 DEF DecidedOnce
    <3>. QED BY <2>1, <3>1
  <2>3. ASSUME NEW t \in Thread, (\E s \in State : Ask(t, s)) \/ Return(t) PROVE DecidedOnce
    BY <2>3 DEF Ask, Return, rowVars, DecidedOnce
  <2>. QED BY <1>1, <2>2, <2>3 DEF Next, Rest
<1>. QED BY <1>1, RowsInvariance, PTL DEF Spec

=============================================================================
