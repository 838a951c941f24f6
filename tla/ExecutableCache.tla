-------------------------- MODULE ExecutableCache --------------------------
(***************************************************************************)
(* The process-wide cache of vocabulary-neutral schema executables         *)
(* (runtime/executable_cache.rs).                                          *)
(*                                                                         *)
(* An input key (exact JSON text, schema set or MFIR wire bytes) is an     *)
(* ALIAS: building it lowers the input to canonical IR and then looks up   *)
(* the IR's own key, so one call nests a second single-flight lookup, made *)
(* while the first slot is still open.  Only the IR entry owns the         *)
(* executable; an alias entry keeps a Weak reference that dies with the    *)
(* last owner.  `clear` bumps a generation so that a build that started    *)
(* before it is not retained after it.                                     *)
(*                                                                         *)
(* A call is a stack of at most two frames, one per get_or_build_with_     *)
(* charge activation; the top frame runs.  One action is one critical      *)
(* section, or one step between two of them.  An executable is an element  *)
(* of Exec, owned by whatever holds an Arc to it: IR entries, frames,      *)
(* slots that are still referenced, and the handles clients keep.          *)
(* Traffic counters, which no branch reads, are left out.                  *)
(***************************************************************************)
EXTENDS Integers, Sequences, FiniteSets, Weights

CONSTANTS
    Thread,         \* callers
    Input,          \* exact input keys
    Ir,             \* canonical IR keys
    Lower,          \* Input -> Ir, the IR an input lowers to
    Digest,         \* key -> bucket
    Size,           \* key -> bytes charged for its entry
    Budget,         \* byte budget
    Copy,           \* tells executables of one IR and generation apart
    NoExec,
    Slot, NoSlot,   \* identities of BuildSlots
    Called,         \* the keys clients ask for (the others are only reached by lowering)
    MaxTick,        \* no new call once the LRU clock has reached it
    MaxGeneration   \* bound on the number of clears

Key == Input \cup Ir

(* An executable records the IR it was compiled from and, as history, the   *)
(* generation its build was claimed in.                                     *)
Exec == [ir : Ir, gen : 0 .. MaxGeneration, copy : Copy]

ASSUME LowerAssumption == Lower \in [Input -> Ir] /\ Input \cap Ir = {}
ASSUME SizeAssumption == Size \in [Key -> Nat] /\ Budget \in Nat
ASSUME CalledAssumption == Called \subseteq Key
ASSUME NullAssumption == NoSlot \notin Slot /\ NoExec \notin Exec /\ MaxGeneration \in Nat

VARIABLES
    state,          \* State: ready (buckets), log (lru), bytes, entries, tick, generation
    inFlight,       \* State::in_flight, Key -> Slot or NoSlot
    result,         \* BuildSlot::result of every slot
    stack,          \* the activations of each caller
    handle          \* the executable each client keeps from its calls

vars == <<state, inFlight, result, stack, handle>>

Pending == <<"pending">>
Err == <<"err">>
Ok(x) == <<"ok", x>>
IrOf(k) == IF k \in Input THEN Lower[k] ELSE k
IsStrong(k) == k \in Ir

Frame(k) == [key |-> k, pc |-> "lookup", slot |-> NoSlot, gen |-> 0, out |-> Pending]
Top(t) == stack[t][Len(stack[t])]
Frames == UNION {{stack[t][i] : i \in 1 .. Len(stack[t])} : t \in Thread}
Running(t, l) == stack[t] # <<>> /\ Top(t).pc = l

Init ==
    /\ state = [ready |-> {}, log |-> <<>>, bytes |-> 0, entries |-> 0, tick |-> 0,
                generation |-> 0]
    /\ inFlight = [k \in Key |-> NoSlot]
    /\ result = [s \in Slot |-> Pending]
    /\ stack = [t \in Thread |-> <<>>]
    /\ handle = [t \in Thread |-> NoExec]

----------------------------------------------------------------------------
(* Reference counts.                                                        *)

LiveSlot == {s \in Slot : \/ \E k \in Key : inFlight[k] = s
                          \/ \E f \in Frames : f.slot = s}

(* Some Arc to x exists, so a Weak to it upgrades.                          *)
Alive(x) ==
    \/ \E e \in state.ready : IsStrong(e.key) /\ e.exec = x
    \/ \E f \in Frames : f.out = Ok(x)
    \/ \E s \in LiveSlot : result[s] = Ok(x)
    \/ \E t \in Thread : handle[t] = x

(* Which free identity an allocation yields is immaterial.                  *)
Fresh(S) == CHOOSE x \in S : TRUE

FreeExec(k, g) ==
    {x \in Exec : /\ x.ir = k /\ x.gen = g
                  /\ ~Alive(x) /\ \A e \in state.ready : e.exec # x}

(* A slot is freed with the last reference to it.                           *)
DropSlots == result' = [s \in Slot |-> IF s \in LiveSlot' THEN result[s] ELSE Pending]

----------------------------------------------------------------------------
(* Entries, the LRU log and eviction.                                       *)

Bytes(E) == Weight([e \in E |-> Size[e.key]], E)

(* Mutant of EntriesOf: a digest match is taken for key equality.           *)
EntriesByDigest(st, k) == {e \in st.ready : Digest[e.key] = Digest[k]}

EntriesOf(st, k) == {e \in st.ready : Digest[e.key] = Digest[k] /\ e.key = k}

Logged(st, k, stamp) == [st EXCEPT !.tick = stamp, !.log = Append(@, <<Digest[k], stamp>>)]

(* A ready hit restamps the entry and appends to the log.                   *)
Restamped(st, e) ==
    LET now == st.tick + 1
    IN  [Logged(st, e.key, now) EXCEPT !.ready = (@ \ {e}) \cup {[e EXCEPT !.stamp = now]}]

(* Mutant of Swept: the bytes of the dead alias stay charged.               *)
SweptKeepsBytes(st, k) ==
    LET dead == {e \in EntriesOf(st, k) : ~Alive(e.exec)}
    IN  [st EXCEPT !.ready = @ \ dead, !.entries = @ - Cardinality(dead)]

(* The lookup drops the entry of an alias whose executable is gone.         *)
Swept(st, k) ==
    LET dead == {e \in EntriesOf(st, k) : ~Alive(e.exec)}
    IN  [st EXCEPT !.ready = @ \ dead,
                   !.bytes = @ - Bytes(dead),
                   !.entries = @ - Cardinality(dead)]

(* evict_until_fits: the entries that popping the first n records removes,  *)
(* and how many records are popped before `need` fits or the log is empty.  *)
Victims(st, n) ==
    {e \in st.ready : \E i \in 1 .. n : st.log[i] = <<Digest[e.key], e.stamp>>}

BytesAfter(st, n) == st.bytes - Bytes(Victims(st, n))

Popped(st, need) ==
    CHOOSE n \in 0 .. Len(st.log) :
        /\ BytesAfter(st, n) + need <= Budget \/ n = Len(st.log)
        /\ \A m \in 0 .. n - 1 : BytesAfter(st, m) + need > Budget

EvictUntilFits(st, need) ==
    LET n == Popped(st, need)
    IN  [st EXCEPT !.ready = @ \ Victims(st, n),
                   !.bytes = BytesAfter(st, n),
                   !.entries = @ - Cardinality(Victims(st, n)),
                   !.log = SubSeq(@, n + 1, Len(@))]

(* Mutant of Retained: the generation of the claim is not compared.         *)
RetainedAnyGeneration(st, k, x, gen) ==
    IF Size[k] > Budget \/ gen > st.generation
      THEN st
      ELSE LET room == EvictUntilFits(st, Size[k])
               now == room.tick + 1
           IN  [Logged(room, k, now) EXCEPT
                   !.ready = @ \cup {[key |-> k, exec |-> x, stamp |-> now]},
                   !.bytes = @ + Size[k],
                   !.entries = @ + 1]

(* A successful build is retained unless a clear intervened or it alone     *)
(* exceeds the budget.                                                      *)
Retained(st, k, x, gen) ==
    IF gen # st.generation \/ Size[k] > Budget
      THEN st
      ELSE LET room == EvictUntilFits(st, Size[k])
               now == room.tick + 1
           IN  [Logged(room, k, now) EXCEPT
                   !.ready = @ \cup {[key |-> k, exec |-> x, stamp |-> now]},
                   !.bytes = @ + Size[k],
                   !.entries = @ + 1]

----------------------------------------------------------------------------
(* get_or_build_with_charge.                                                *)

SetTop(t, f) == stack' = [stack EXCEPT ![t] = [@ EXCEPT ![Len(stack[t])] = f]]

(* The running activation returns r: to the client, or as the result of the *)
(* build closure of the activation below.                                   *)
ReturnFrame(t, r) ==
    IF Len(stack[t]) = 1
      THEN /\ stack' = [stack EXCEPT ![t] = <<>>]
           /\ handle' = [handle EXCEPT ![t] = IF r = Err THEN @ ELSE r[2]]
      ELSE /\ stack' = [stack EXCEPT ![t] = <<[@[1] EXCEPT !.pc = "publish", !.out = r]>>]
           /\ UNCHANGED handle

(* get_or_compile_json, _schema_set and _wire (an input) or _ir (an IR).    *)
Call(t, k) ==
    /\ stack[t] = <<>>
    /\ state.tick < MaxTick
    /\ stack' = [stack EXCEPT ![t] = <<Frame(k)>>]
    /\ UNCHANGED <<state, inFlight, result, handle>>

LiveEntries(k) == {e \in EntriesOf(state, k) : Alive(e.exec)}

(* First critical section: a live entry is restamped and returned.          *)
Hit(t) ==
    /\ Running(t, "lookup")
    /\ \E e \in LiveEntries(Top(t).key) :
          /\ state' = Restamped(state, e)
          /\ ReturnFrame(t, Ok(e.exec))
    /\ UNCHANGED <<inFlight, result>>

(* First critical section: a dead alias is dropped; the key is in flight.   *)
Join(t) ==
    /\ Running(t, "lookup")
    /\ LET k == Top(t).key IN
          /\ LiveEntries(k) = {}
          /\ inFlight[k] # NoSlot
          /\ state' = Swept(state, k)
          /\ SetTop(t, [Top(t) EXCEPT !.pc = "waiting", !.slot = inFlight[k]])
    /\ UNCHANGED <<inFlight, result, handle>>

(* First critical section: a dead alias is dropped; the vacant key is       *)
(* claimed under the current generation.                                    *)
Claim(t) ==
    /\ Running(t, "lookup")
    /\ LET k == Top(t).key IN
          /\ LiveEntries(k) = {}
          /\ inFlight[k] = NoSlot
          /\ state' = Swept(state, k)
          /\ LET s == Fresh(Slot \ LiveSlot) IN
                /\ s \in Slot \ LiveSlot
                /\ inFlight' = [inFlight EXCEPT ![k] = s]
                /\ result' = [result EXCEPT ![s] = Pending]
                /\ SetTop(t, [Top(t) EXCEPT !.pc = "building", !.slot = s,
                                            !.gen = state.generation])
    /\ UNCHANGED handle

(* A waiter finds the slot filled, at once or after notify_all.             *)
Collect(t) ==
    /\ Running(t, "waiting")
    /\ result[Top(t).slot] # Pending
    /\ ReturnFrame(t, result[Top(t).slot])
    /\ UNCHANGED <<state, inFlight>>
    /\ DropSlots

(* The closure of an alias: the input is lowered, the IR looked up.         *)
LowerInput(t) ==
    /\ Running(t, "building")
    /\ Top(t).key \in Input
    /\ stack' = [stack EXCEPT ![t] = Append(@, Frame(Lower[Top(t).key]))]
    /\ UNCHANGED <<state, inFlight, result, handle>>

(* The closure of an IR: a new executable is compiled.                      *)
Compile(t) ==
    /\ Running(t, "building")
    /\ Top(t).key \in Ir
    /\ LET free == FreeExec(Top(t).key, Top(t).gen) IN
          /\ free # {}
          /\ SetTop(t, [Top(t) EXCEPT !.pc = "publish", !.out = Ok(Fresh(free))])
    /\ UNCHANGED <<state, inFlight, result, handle>>

(* Either closure fails: invalid input, a limit, a gate that times out.     *)
BuildErr(t) ==
    /\ Running(t, "building")
    /\ SetTop(t, [Top(t) EXCEPT !.pc = "publish", !.out = Err])
    /\ UNCHANGED <<state, inFlight, result, handle>>

(* Either closure panics: PublishGuards are dropped from the top down.      *)
BuildPanic(t) ==
    /\ Running(t, "building")
    /\ SetTop(t, [Top(t) EXCEPT !.pc = "unwind"])
    /\ UNCHANGED <<state, inFlight, result, handle>>

(* The builder fills its slot and notifies.                                 *)
Publish(t) ==
    /\ Running(t, "publish")
    /\ result' = [result EXCEPT ![Top(t).slot] = Top(t).out]
    /\ SetTop(t, [Top(t) EXCEPT !.pc = "retire"])
    /\ UNCHANGED <<state, inFlight, handle>>

(* Last critical section: clear the in-flight mark, retain, return.         *)
Retire(t) ==
    /\ Running(t, "retire")
    /\ LET f == Top(t) IN
          /\ inFlight' = [inFlight EXCEPT ![f.key] = NoSlot]
          /\ state' = IF f.out = Err THEN state ELSE Retained(state, f.key, f.out[2], f.gen)
          /\ ReturnFrame(t, f.out)
    /\ DropSlots

(* Mutant of UnwindPublish: the guard of a panicking build fills nothing.   *)
UnwindPublishNothing(t) ==
    /\ Running(t, "unwind")
    /\ SetTop(t, [Top(t) EXCEPT !.pc = "unwindRemove"])
    /\ UNCHANGED <<state, inFlight, result, handle>>

(* PublishGuard::drop without publication: fill the slot with an error ...  *)
UnwindPublish(t) ==
    /\ Running(t, "unwind")
    /\ result' = [result EXCEPT ![Top(t).slot] = IF @ = Pending THEN Err ELSE @]
    /\ SetTop(t, [Top(t) EXCEPT !.pc = "unwindRemove"])
    /\ UNCHANGED <<state, inFlight, handle>>

(* ... and clear the in-flight mark; the activation below unwinds too.      *)
UnwindRemove(t) ==
    /\ Running(t, "unwindRemove")
    /\ inFlight' = [inFlight EXCEPT ![Top(t).key] = NoSlot]
    /\ stack' = [stack EXCEPT ![t] = IF Len(@) = 1 THEN <<>>
                                     ELSE <<[@[1] EXCEPT !.pc = "unwind"]>>]
    /\ UNCHANGED <<state, handle>>
    /\ DropSlots

(* clear: the clock and the builds in flight survive it.                    *)
Clear ==
    /\ state.generation < MaxGeneration
    /\ state' = [state EXCEPT !.ready = {}, !.log = <<>>, !.bytes = 0, !.entries = 0,
                              !.generation = @ + 1]
    /\ UNCHANGED <<inFlight, result, stack, handle>>

(* A client drops the executable it kept.                                   *)
DropHandle(t) ==
    /\ handle[t] # NoExec
    /\ handle' = [handle EXCEPT ![t] = NoExec]
    /\ UNCHANGED <<state, inFlight, result, stack>>

(* Clients may stop calling.                                                *)
Quiescent == (\A t \in Thread : stack[t] = <<>>) /\ UNCHANGED vars

CallStep(t) ==
    \/ Hit(t) \/ Join(t) \/ Claim(t) \/ Collect(t)
    \/ LowerInput(t) \/ Compile(t) \/ BuildErr(t) \/ BuildPanic(t)
    \/ Publish(t) \/ Retire(t) \/ UnwindPublish(t) \/ UnwindRemove(t)

Next ==
    \/ \E t \in Thread : (\E k \in Called : Call(t, k)) \/ CallStep(t) \/ DropHandle(t)
    \/ Clear
    \/ Quiescent

Spec == Init /\ [][Next]_vars

----------------------------------------------------------------------------
BuilderPc == {"building", "publish", "retire", "unwind", "unwindRemove"}
Outcome == {Pending, Err} \cup {Ok(x) : x \in Exec}

(* Types of the cache state, the activations and the history.               *)
TypeOK ==
    /\ state.ready \subseteq [key : Key, exec : Exec, stamp : Nat]
    /\ state.bytes \in Nat /\ state.entries \in Nat
    /\ state.tick \in Nat /\ state.generation \in Nat
    /\ \A i \in 1 .. Len(state.log) : state.log[i][2] \in Nat
    /\ inFlight \in [Key -> Slot \cup {NoSlot}]
    /\ result \in [Slot -> Outcome]
    /\ \A t \in Thread : Len(stack[t]) \in 0 .. 2
    /\ Frames \subseteq [key : Key, pc : {"lookup", "waiting"} \cup BuilderPc,
                         slot : Slot \cup {NoSlot}, gen : Nat, out : Outcome]
    /\ handle \in [Thread -> Exec \cup {NoExec}]

(* The byte and entry counters equal what the buckets hold, through hits,   *)
(* dead aliases, evictions, panics and clears that race with builds, and    *)
(* the charged bytes never exceed the budget ("byte-bounded").              *)
Accounting ==
    /\ state.bytes = Bytes(state.ready)
    /\ state.entries = Cardinality(state.ready)
    /\ state.bytes <= Budget

Blocked(t) == Running(t, "waiting") /\ result[Top(t).slot] = Pending

Owns(t, s) == \E i \in DOMAIN stack[t] : stack[t][i].slot = s /\ stack[t][i].pc \in BuilderPc

(* Nobody waits for ever: an unfilled slot belongs to another call that is  *)
(* still on the way to filling it, and a builder of an alias that itself    *)
(* waits for an executable waits for a builder that does not (PublishGuard, *)
(* through errors, panics of the nested build and clears).                  *)
WaitsEndAtBuilder ==
    \A t \in Thread : Blocked(t) =>
        \E u \in Thread \ {t} :
            /\ Owns(u, Top(t).slot)
            /\ Blocked(u) => \E v \in Thread \ {t, u} : Owns(v, Top(u).slot) /\ ~Blocked(v)

(* "ExactInputKey equality establishes identity": whatever an entry, a slot *)
(* or an activation offers for a key was compiled from the IR of that key.  *)
RightExecutable ==
    /\ \A e \in state.ready : e.exec.ir = IrOf(e.key)
    /\ \A f \in Frames : \A x \in Exec :
          f.out = Ok(x) \/ (f.pc = "waiting" /\ result[f.slot] = Ok(x)) =>
              x.ir = IrOf(f.key)

(* "a build started under an earlier generation is not retained": after a   *)
(* clear the cache owns no executable whose build was claimed before it.    *)
ClearFence ==
    \A e \in state.ready : IsStrong(e.key) => e.exec.gen = state.generation

=============================================================================
