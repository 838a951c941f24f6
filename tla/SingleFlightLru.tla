-------------------------- MODULE SingleFlightLru --------------------------
(***************************************************************************)
(* The byte-bounded single-flight cache that maskforge-core implements     *)
(* twice: ArtifactCache (runtime/artifact_cache.rs, whose lines this       *)
(* module translates) and TrieCache (index/cache.rs, module TrieCache).    *)
(*                                                                         *)
(* One mutex guards the retained map, its byte total, the LRU clock and    *)
(* touch log, and the table of builds in flight.  The first caller to miss *)
(* a key claims it with a fresh BuildSlot and builds outside the mutex;    *)
(* callers that find the key in flight sleep on the slot.  The builder     *)
(* fills the slot, and only then re-locks the state to clear the in-flight *)
(* mark and retain the value.  A guard does both if the build panics.      *)
(*                                                                         *)
(* Abstractions: a retained value is identified by its key, its charge is  *)
(* a function of the key, and a key is retained exactly when its last_used *)
(* tick is not Absent (real ticks start at 1).  Traffic counters, which no *)
(* branch reads, are left out.  A BuildSlot is an element of Slot; it can  *)
(* be allocated again once no caller and no in-flight mark refers to it.   *)
(***************************************************************************)
EXTENDS Integers, Sequences, FiniteSets, Weights

CONSTANTS
    Thread,         \* callers
    Key,            \* exact keys (ArtifactKey, VocabFingerprint)
    Candidate,      \* Key -> hash candidate, what a touch-log record names
    Size,           \* Key -> bytes charged for a retained value
    Budget,         \* retained-byte budget
    Slot,           \* identities of BuildSlots
    NoSlot,
    NoKey,
    LogSlack,       \* the 64 of the compaction threshold 4 * len + 64
    MaxTick         \* no new call once the LRU clock has reached it

ASSUME KeyAssumption == IsFiniteSet(Key)
ASSUME SizeAssumption == Size \in [Key -> Nat]
ASSUME BudgetAssumption == Budget \in Nat
ASSUME NullAssumption == NoSlot \notin Slot /\ NoKey \notin Key
ASSUME SlackAssumption == LogSlack \in Nat

VARIABLES
    store,          \* CacheState: last (map), bytes, tick, log (lru)
    inFlight,       \* CacheState::in_flight, Key -> Slot or NoSlot
    result,         \* BuildSlot::result of every slot
    pc,             \* where each caller is
    key,            \* the key of each caller's call
    mine,           \* the slot a caller claimed or waits on
    answer          \* what each caller's last call returned, Pending during a call

cacheVars == <<store, inFlight, result, pc, key, mine, answer>>

Absent == 0
Pending == <<"pending">>
Err == <<"err">>
Panic == <<"panic">>
Ok(k) == <<"ok", k>>

Retained(st) == {k \in Key : st.last[k] # Absent}
EmptyStore == [last |-> [k \in Key |-> Absent], bytes |-> 0, tick |-> 0, log |-> <<>>]

CacheInit ==
    /\ store = EmptyStore
    /\ inFlight = [k \in Key |-> NoSlot]
    /\ result = [s \in Slot |-> Pending]
    /\ pc = [t \in Thread |-> "idle"]
    /\ key = [t \in Thread |-> NoKey]
    /\ mine = [t \in Thread |-> NoSlot]
    /\ answer = [t \in Thread |-> Pending]

----------------------------------------------------------------------------
(* CacheState: touch, compact_lru and evict_until_fits.                     *)

IsLive(st, rec) == \E k \in Retained(st) : rec = <<Candidate[k], st.last[k]>>

CompactLru(st) ==
    LET Live(rec) == IsLive(st, rec)
    IN  [st EXCEPT !.log = SelectSeq(@, Live)]

AtLeastOne(n) == IF n = 0 THEN 1 ELSE n

CompactAt(st) == 4 * AtLeastOne(Cardinality(Retained(st))) + LogSlack

(* Mutant of Touch: the touch is not recorded.                              *)
TouchUnlogged(st, k) == IF k \in Key THEN [st EXCEPT !.tick = @ + 1] ELSE st

(* The caller stores the new tick in the entry only AFTER touch returns, so *)
(* a compaction judges the records by the entry's previous tick.            *)
Touch(st, k) ==
    LET pushed == [st EXCEPT !.tick = @ + 1,
                             !.log = Append(@, <<Candidate[k], st.tick + 1>>)]
    IN  IF Len(pushed.log) > CompactAt(st) THEN CompactLru(pushed) ELSE pushed

SetLastUsed(st, k) == [st EXCEPT !.last[k] = st.tick]

(* The entries that popping the first n records removes.                    *)
Victims(st, n) ==
    {k \in Retained(st) : \E i \in 1 .. n : st.log[i] = <<Candidate[k], st.last[k]>>}

BytesAfter(st, n) == st.bytes - Weight(Size, Victims(st, n))

(* Mutant of Popped: the loop forgets the value it makes room for.          *)
PoppedForNothing(st, need) ==
    CHOOSE n \in 0 .. Len(st.log) :
        /\ BytesAfter(st, n) <= Budget \/ n = Len(st.log)
        /\ \A m \in 0 .. n - 1 : BytesAfter(st, m) + 0 * need > Budget

(* Records popped: the loop stops when `need` fits or the log is exhausted. *)
Popped(st, need) ==
    CHOOSE n \in 0 .. Len(st.log) :
        /\ BytesAfter(st, n) + need <= Budget \/ n = Len(st.log)
        /\ \A m \in 0 .. n - 1 : BytesAfter(st, m) + need > Budget

EvictUntilFits(st, need) ==
    LET n == Popped(st, need)
    IN  [st EXCEPT !.last = [k \in Key |-> IF k \in Victims(st, n) THEN Absent ELSE @[k]],
                   !.bytes = BytesAfter(st, n),
                   !.log = SubSeq(@, n + 1, Len(@))]

(* What a successful builder does with its value under the state lock.      *)
Retain(st, k) ==
    IF Size[k] > Budget
      THEN st
      ELSE LET touched == Touch(EvictUntilFits(st, Size[k]), k)
           IN  SetLastUsed([touched EXCEPT !.bytes = @ + Size[k]], k)

----------------------------------------------------------------------------
(* get_or_build.                                                            *)

Return(t, r) ==
    /\ pc' = [pc EXCEPT ![t] = "idle"]
    /\ mine' = [mine EXCEPT ![t] = NoSlot]
    /\ key' = [key EXCEPT ![t] = NoKey]
    /\ answer' = [answer EXCEPT ![t] = r]

Goto(t, l) == pc' = [pc EXCEPT ![t] = l] /\ UNCHANGED <<key, answer>>

Call(t, k) ==
    /\ pc[t] = "idle"
    /\ store.tick < MaxTick
    /\ pc' = [pc EXCEPT ![t] = "lookup"]
    /\ key' = [key EXCEPT ![t] = k]
    /\ answer' = [answer EXCEPT ![t] = Pending]
    /\ UNCHANGED <<store, inFlight, result, mine>>

(* First critical section, retained key: touch the entry and return it.     *)
Hit(t) ==
    /\ pc[t] = "lookup"
    /\ key[t] \in Retained(store)
    /\ store' = SetLastUsed(Touch(store, key[t]), key[t])
    /\ Return(t, Ok(key[t]))
    /\ UNCHANGED <<inFlight, result>>

(* First critical section, key in flight: keep the slot and unlock.         *)
Join(t) ==
    /\ pc[t] = "lookup"
    /\ key[t] \notin Retained(store)
    /\ inFlight[key[t]] # NoSlot
    /\ mine' = [mine EXCEPT ![t] = inFlight[key[t]]]
    /\ Goto(t, "waiting")
    /\ UNCHANGED <<store, inFlight, result>>

FreeSlot == {s \in Slot : /\ \A k \in Key : inFlight[k] # s
                          /\ \A t \in Thread : mine[t] # s}

(* Which free identity an allocation yields is immaterial.                  *)
Fresh == CHOOSE s \in FreeSlot : TRUE

(* A slot is freed with the last reference to it.                           *)
DropSlots == result' = [s \in Slot |-> IF s \in FreeSlot' THEN Pending ELSE result[s]]

(* First critical section, vacant key: claim it with a new slot.            *)
Claim(t) ==
    /\ pc[t] = "lookup"
    /\ key[t] \notin Retained(store)
    /\ inFlight[key[t]] = NoSlot
    /\ LET s == Fresh IN
          /\ s \in FreeSlot
          /\ inFlight' = [inFlight EXCEPT ![key[t]] = s]
          /\ result' = [result EXCEPT ![s] = Pending]
          /\ mine' = [mine EXCEPT ![t] = s]
    /\ Goto(t, "building")
    /\ UNCHANGED store

(* Mutant of Collect: the waiter goes back to sleep unless the build        *)
(* succeeded.                                                               *)
CollectOnSuccess(t) ==
    /\ pc[t] = "waiting"
    /\ result[mine[t]] \notin {Pending, Err}
    /\ Return(t, result[mine[t]])
    /\ UNCHANGED <<store, inFlight>>
    /\ DropSlots

(* A waiter finds the slot filled, at once or after notify_all.             *)
Collect(t) ==
    /\ pc[t] = "waiting"
    /\ result[mine[t]] # Pending
    /\ Return(t, result[mine[t]])
    /\ UNCHANGED <<store, inFlight>>
    /\ DropSlots

(* The build closure returns.                                               *)
BuildOk(t) ==
    /\ pc[t] = "building"
    /\ Goto(t, "publishOk")
    /\ UNCHANGED <<store, inFlight, result, mine>>

BuildErr(t) ==
    /\ pc[t] = "building"
    /\ Goto(t, "publishErr")
    /\ UNCHANGED <<store, inFlight, result, mine>>

(* The build closure panics: the armed SlotGuard is dropped.                *)
BuildPanic(t) ==
    /\ pc[t] = "building"
    /\ Goto(t, "unwind")
    /\ UNCHANGED <<store, inFlight, result, mine>>

(* The builder fills the slot and notifies.                                 *)
Publish(t) ==
    /\ pc[t] \in {"publishOk", "publishErr"}
    /\ result' = [result EXCEPT ![mine[t]] = IF pc[t] = "publishOk" THEN Ok(key[t]) ELSE Err]
    /\ Goto(t, IF pc[t] = "publishOk" THEN "retireOk" ELSE "retireErr")
    /\ UNCHANGED <<store, inFlight, mine>>

(* Last critical section: clear the in-flight mark and retain the value.    *)
RetireOk(t) ==
    /\ pc[t] = "retireOk"
    /\ inFlight' = [inFlight EXCEPT ![key[t]] = NoSlot]
    /\ store' = Retain(store, key[t])
    /\ Return(t, Ok(key[t]))
    /\ DropSlots

RetireErr(t) ==
    /\ pc[t] = "retireErr"
    /\ inFlight' = [inFlight EXCEPT ![key[t]] = NoSlot]
    /\ Return(t, Err)
    /\ UNCHANGED store
    /\ DropSlots

(* Mutant of UnwindPublish: the slot stays empty.                           *)
UnwindPublishNothing(t) ==
    /\ pc[t] = "unwind"
    /\ Goto(t, "unwindRemove")
    /\ UNCHANGED <<store, inFlight, result, mine>>

(* SlotGuard::drop, armed: publish an error if the slot is empty ...        *)
UnwindPublish(t) ==
    /\ pc[t] = "unwind"
    /\ result' = [result EXCEPT ![mine[t]] = IF @ = Pending THEN Err ELSE @]
    /\ Goto(t, "unwindRemove")
    /\ UNCHANGED <<store, inFlight, mine>>

(* Mutant of UnwindRemove: the in-flight mark survives the panic.           *)
UnwindKeepsMark(t) ==
    /\ pc[t] = "unwindRemove"
    /\ Return(t, Panic)
    /\ UNCHANGED <<store, inFlight, result>>

(* ... and clear the in-flight mark under the state lock.                   *)
UnwindRemove(t) ==
    /\ pc[t] = "unwindRemove"
    /\ inFlight' = [inFlight EXCEPT ![key[t]] = NoSlot]
    /\ Return(t, Panic)
    /\ UNCHANGED store
    /\ DropSlots

(* Mutant of Clear: the byte total is not reset.                            *)
ClearKeepsBytes ==
    /\ store' = [EmptyStore EXCEPT !.bytes = store.bytes]
    /\ UNCHANGED <<inFlight, result, pc, key, mine, answer>>

(* clear: drops the retained values and restarts the clock; builds in       *)
(* flight are left running and will be retained when they end.              *)
Clear ==
    /\ store' = EmptyStore
    /\ UNCHANGED <<inFlight, result, pc, key, mine, answer>>

(* Every step of a call but the outcome of its build.                       *)
CallStep(t) ==
    \/ Hit(t) \/ Join(t) \/ Claim(t) \/ Collect(t)
    \/ Publish(t) \/ RetireOk(t) \/ RetireErr(t)
    \/ UnwindPublish(t) \/ UnwindRemove(t)

BuildStep(t) == BuildOk(t) \/ BuildErr(t) \/ BuildPanic(t)

CacheNext ==
    \/ \E t \in Thread : (\E k \in Key : Call(t, k)) \/ CallStep(t) \/ BuildStep(t)
    \/ Clear

CacheSpec == CacheInit /\ [][CacheNext]_cacheVars

----------------------------------------------------------------------------
Builder == {"building", "publishOk", "publishErr", "retireOk", "retireErr",
            "unwind", "unwindRemove"}

(* Types of the cache state and of the callers.                             *)
CacheTypeOK ==
    /\ store \in [last : [Key -> Nat], bytes : Nat, tick : Nat,
                  log : Seq({Candidate[k] : k \in Key} \X Nat)]
    /\ inFlight \in [Key -> Slot \cup {NoSlot}]
    /\ result \in [Slot -> {Pending, Err} \cup {Ok(k) : k \in Key}]
    /\ pc \in [Thread -> {"idle", "lookup", "waiting"} \cup Builder]
    /\ key \in [Thread -> Key \cup {NoKey}]
    /\ mine \in [Thread -> Slot \cup {NoSlot}]
    /\ answer \in [Thread -> {Pending, Panic, Err} \cup {Ok(k) : k \in Key}]

(* The byte total equals the charges of what is retained, through hits,     *)
(* evictions, panics and clears that race with builds.                      *)
Accounting == store.bytes = Weight(Size, Retained(store))

(* No compaction has run since the last clear: the log is never longer than  *)
(* the clock, and it is compacted at more than 4 * 1 + LogSlack records.     *)
Uncompacted == store.tick <= 4 + LogSlack

(* "A thread-safe, byte-bounded cache": the retained bytes never exceed the *)
(* budget.  Compact judges the touched entry by its previous tick and drops *)
(* its new record, so this is a promise until the first compaction only.    *)
ByteBounded == Uncompacted => store.bytes <= Budget

(* "log exhausted; map empty": eviction can reach every retained entry,     *)
(* because the touch log holds the record of the entry's latest touch, as   *)
(* long as no compaction dropped it.                                        *)
LogCoversRetained ==
    Uncompacted => \A k \in Retained(store) :
        \E i \in 1 .. Len(store.log) : store.log[i] = <<Candidate[k], store.last[k]>>

(* Single flight: a key in flight has exactly one builder, which holds the  *)
(* slot the in-flight table names, and no value of that key is retained, so *)
(* a key is never built twice at once nor rebuilt while it is retained.     *)
SingleFlight ==
    /\ \A t \in Thread : pc[t] \in Builder => inFlight[key[t]] = mine[t]
    /\ \A t, u \in Thread : pc[t] \in Builder /\ pc[u] \in Builder /\ key[t] = key[u] => t = u
    /\ \A k \in Key : inFlight[k] # NoSlot =>
          /\ k \notin Retained(store)
          /\ \E t \in Thread : pc[t] \in Builder /\ key[t] = k

(* No caller is left behind on a slot: the slot of a waiter is filled, with *)
(* a result for the waiter's own key, or a builder that will fill it is     *)
(* still on its way.                                                        *)
WaiterIsServed ==
    \A t \in Thread : pc[t] = "waiting" =>
        \/ result[mine[t]] \in {Err, Ok(key[t])}
        \/ /\ result[mine[t]] = Pending
           /\ \E u \in Thread : /\ mine[u] = mine[t] /\ key[u] = key[t]
                                /\ pc[u] \in {"building", "publishOk", "publishErr", "unwind"}

(* Every call returns, whatever the builders it waits for do.               *)
EveryCallReturns == \A t \in Thread : pc[t] # "idle" ~> pc[t] = "idle"
=============================================================================
