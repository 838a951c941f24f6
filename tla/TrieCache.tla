----------------------------- MODULE TrieCache -----------------------------
(***************************************************************************)
(* The vocabulary-trie cache (index/cache.rs): the single-flight LRU cache *)
(* composed with the BuildGate every builder passes while its slot is      *)
(* open.  The permit is a local of the build closure: it is acquired after *)
(* the key is claimed and dropped, on success, error or panic, before the  *)
(* slot is filled.  A caller that waits on the slot therefore waits for a  *)
(* builder that may itself be waiting, up to its deadline, for permits     *)
(* held by the builders of other vocabularies; a refusal by the gate is    *)
(* published to all of them.                                               *)
(***************************************************************************)
EXTENDS SingleFlightLru

CONSTANTS
    Estimate,       \* Key -> transient bytes its build asks the gate for
    GatePolicy,     \* (max_concurrent_builds, max_transient_build_bytes)
    MaxRejected     \* no new call once the gate has refused this many

ASSUME EstimateAssumption == Estimate \in [Key -> Nat]
ASSUME ThreadAssumption == IsFiniteSet(Thread)
ASSUME GateAssumption ==
    GatePolicy \in [conc : Nat \ {0}, budget : Nat \ {0}] /\ MaxRejected \in Nat

VARIABLES
    policy, inner, gatePc, expired, charge, gateAnswer,     \* the cache's own gate
    verdict                                                 \* how a build closure ends

gateVars == <<policy, inner, gatePc, expired, charge, gateAnswer>>
vars == <<cacheVars, gateVars, verdict>>

Gate == INSTANCE BuildGate WITH
    Estimate <- {Estimate[k] : k \in Key}, Policy <- {}, DefaultPolicy <- GatePolicy,
    pc <- gatePc, answer <- gateAnswer

(* TrieCache::with_build_gate: an empty cache and a gate of its own.        *)
Init ==
    /\ CacheInit
    /\ policy = Gate!Clamped(GatePolicy)
    /\ inner = Gate!FreshInner(policy)
    /\ gatePc = [t \in Thread |-> "idle"]
    /\ expired = [t \in Thread |-> FALSE]
    /\ charge = [t \in Thread |-> 0]
    /\ gateAnswer = [t \in Thread |-> "none"]
    /\ verdict = [t \in Thread |-> "none"]

----------------------------------------------------------------------------
(* The critical sections of get_or_build_byte_impl outside its build.       *)

GetOrBuild(t, fp) ==
    /\ inner.rejected < MaxRejected
    /\ Call(t, fp)
    /\ UNCHANGED <<gateVars, verdict>>

Lookup(t) == (Hit(t) \/ Join(t) \/ Claim(t)) /\ UNCHANGED <<gateVars, verdict>>

AwaitSlot(t) == Collect(t) /\ UNCHANGED <<gateVars, verdict>>

PublishAndRetire(t) ==
    /\ Publish(t) \/ RetireOk(t) \/ RetireErr(t)
    /\ UNCHANGED <<gateVars, verdict>>

SlotGuardDrop(t) ==
    /\ UnwindPublish(t) \/ UnwindRemove(t)
    /\ UNCHANGED <<gateVars, verdict>>

ClearTries == Clear /\ UNCHANGED <<gateVars, verdict>>

----------------------------------------------------------------------------
(* The build closure.                                                       *)

InClosure(t) == pc[t] = "building" /\ verdict[t] = "none"

(* gate.acquire(est)?: a refusal is what the closure returns.               *)
GateStep(t) ==
    \/ gatePc[t] = "idle" /\ Gate!Acquire(t, Estimate[key[t]])
    \/ Gate!Recheck(t)
    \/ Gate!TimedOut(t)
    \/ Gate!SpuriousWake(t)
    \/ Gate!Expire(t)

AcquirePermit(t) ==
    /\ InClosure(t)
    /\ GateStep(t)
    /\ verdict' = [verdict EXCEPT ![t] = IF gatePc'[t] = "idle" THEN "err" ELSE "none"]
    /\ UNCHANGED cacheVars

(* The trie is built, the build fails, or it panics.                        *)
BuildTrie(t) ==
    /\ InClosure(t)
    /\ gatePc[t] = "holding"
    /\ \E v \in {"ok", "err", "panic"} : verdict' = [verdict EXCEPT ![t] = v]
    /\ UNCHANGED <<cacheVars, gateVars>>

(* The permit goes out of scope: release under the gate's mutex, notify.    *)
DropPermit(t) ==
    /\ verdict[t] # "none"
    /\ Gate!Release(t) \/ Gate!NotifyAll(t)
    /\ UNCHANGED <<cacheVars, verdict>>

(* The closure has returned or unwound.                                     *)
LeaveClosure(t) ==
    /\ verdict[t] # "none"
    /\ gatePc[t] = "idle"
    /\ \/ verdict[t] = "ok" /\ BuildOk(t)
       \/ verdict[t] = "err" /\ BuildErr(t)
       \/ verdict[t] = "panic" /\ BuildPanic(t)
    /\ verdict' = [verdict EXCEPT ![t] = "none"]
    /\ UNCHANGED gateVars

Next ==
    \/ \E t \in Thread :
          \/ \E fp \in Key : GetOrBuild(t, fp)
          \/ Lookup(t) \/ AwaitSlot(t) \/ PublishAndRetire(t) \/ SlotGuardDrop(t)
          \/ AcquirePermit(t) \/ BuildTrie(t) \/ DropPermit(t) \/ LeaveClosure(t)
    \/ ClearTries

Spec == Init /\ [][Next]_vars

(* The steps of acquire that time and the scheduler guarantee: the first    *)
(* attempt, the end of the deadline, and an answer when there is one.       *)
Attempt(t) == AcquirePermit(t) /\ gatePc[t] = "idle"
DeadlinePasses(t) == AcquirePermit(t) /\ expired'[t] /\ ~expired[t]
GateAnswers(t) == AcquirePermit(t) /\ gatePc[t] # "idle" /\ gatePc'[t] \in {"idle", "holding"}

(* As for the cache and the gate: threads are scheduled, tries are built in *)
(* finite time, time passes.                                                *)
Fairness ==
    \A t \in Thread :
        /\ WF_vars(Lookup(t)) /\ WF_vars(AwaitSlot(t))
        /\ WF_vars(PublishAndRetire(t)) /\ WF_vars(SlotGuardDrop(t))
        /\ WF_vars(Attempt(t)) /\ WF_vars(DeadlinePasses(t)) /\ WF_vars(GateAnswers(t))
        /\ WF_vars(BuildTrie(t)) /\ WF_vars(DropPermit(t)) /\ WF_vars(LeaveClosure(t))

FairSpec == Spec /\ Fairness

----------------------------------------------------------------------------
(* Types of the closure state; the cache and gate have their own.           *)
TypeOK ==
    /\ CacheTypeOK
    /\ Gate!TypeOK
    /\ verdict \in [Thread -> {"none", "ok", "err", "panic"}]

(* The gate's accounting and its bounds hold for the tries being built: at  *)
(* most max_concurrent_builds of them, within the transient budget.         *)
BuildsWithinGate ==
    LET building == {t \in Thread : gatePc[t] = "holding"}
    IN  /\ Gate!Conservation
        /\ Gate!WithinPolicy
        /\ Weight([t \in building |-> Estimate[key[t]]], building) <= policy.budget
=============================================================================
