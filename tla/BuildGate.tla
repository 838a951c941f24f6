----------------------------- MODULE BuildGate -----------------------------
(***************************************************************************)
(* The process-wide memory gate of maskforge-core (mem_gate.rs).           *)
(*                                                                         *)
(* A gate hands out permits, each charged with an estimate of transient    *)
(* bytes, and never admits more callers than `max_concurrent` or more      *)
(* bytes than `byte_budget`.  Its policy lives in a OnceLock: it is either *)
(* installed by `configure_*` or, failing that, defaulted by the first     *)
(* use.  `acquire` blocks on a condition variable with a deadline,         *)
(* `try_acquire` never blocks, and dropping a permit releases it under the *)
(* mutex and notifies every waiter after the mutex is released.            *)
(*                                                                         *)
(* One action is one critical section of the mutex, or one step outside of *)
(* it.  A condition-variable wait is a thread in `waiting`; notify_all     *)
(* moves every waiter to `woken`, from where it re-acquires the mutex and  *)
(* re-evaluates the loop condition.  The passage of time is the action     *)
(* Expire, which may end the deadline of a blocked caller at any moment.   *)
(***************************************************************************)
EXTENDS Integers, FiniteSets, Weights

CONSTANTS
    Thread,             \* callers of the gate
    Estimate,           \* the byte estimates callers ask for
    Policy,             \* the (max_concurrent, byte_budget) pairs configure_* is called with
    DefaultPolicy,      \* the policy the first use installs when none was configured
    MaxRejected         \* no new request once the `rejected` counter has reached it

Limits == [conc : Nat \ {0}, budget : Nat \ {0}]

ASSUME ThreadAssumption == IsFiniteSet(Thread)
ASSUME EstimateAssumption == Estimate \subseteq Nat
ASSUME PolicyAssumption == Policy \subseteq [conc : Nat, budget : Nat]
ASSUME DefaultAssumption == DefaultPolicy \in Limits
ASSUME MaxRejectedAssumption == MaxRejected \in Nat

Unset == [conc |-> 0, budget |-> 0]

VARIABLES
    policy,         \* content of the OnceLock: Unset, or the gate's limits
    inner,          \* GateInner, the state behind the mutex
    pc,             \* where each thread is
    expired,        \* the deadlines that have passed
    charge,         \* est of a waiting thread, PermitGuard::charge of a holder
    answer          \* what the last call of each thread returned

vars == <<policy, inner, pc, expired, charge, answer>>

----------------------------------------------------------------------------
(* BuildGate::with_max_wait: both limits are clamped to at least one.       *)
AtLeastOne(n) == IF n = 0 THEN 1 ELSE n

Clamped(p) == [conc |-> AtLeastOne(p.conc), budget |-> AtLeastOne(p.budget)]

FreshInner(p) == [permits |-> p.conc, bytesAvail |-> p.budget, inUse |-> 0,
                  activeBytes |-> 0, peak |-> 0, peakBytes |-> 0, rejected |-> 0]

Init ==
    /\ policy = Unset
    /\ inner = FreshInner(Unset)
    /\ pc = [t \in Thread |-> "idle"]
    /\ expired = [t \in Thread |-> FALSE]
    /\ charge = [t \in Thread |-> 0]
    /\ answer = [t \in Thread |-> "none"]

----------------------------------------------------------------------------
(* configure_vocab_build_gate and its two siblings: OnceLock::set, refused  *)
(* for a zero limit and when the cell already holds a gate.                 *)
ConfigureInvalid(t, p) ==
    /\ p.conc = 0 \/ p.budget = 0
    /\ answer' = [answer EXCEPT ![t] = "InvalidValue"]
    /\ UNCHANGED <<policy, inner, pc, expired, charge>>

ConfigureSet(t, p) ==
    /\ p.conc # 0 /\ p.budget # 0
    /\ IF policy = Unset
         THEN /\ policy' = Clamped(p)
              /\ inner' = FreshInner(Clamped(p))
              /\ answer' = [answer EXCEPT ![t] = "ok"]
         ELSE /\ answer' = [answer EXCEPT ![t] = "AlreadyInitialized"]
              /\ UNCHANGED <<policy, inner>>
    /\ UNCHANGED <<pc, expired, charge>>

Configure(t, p) ==
    /\ pc[t] = "idle"
    /\ ConfigureInvalid(t, p) \/ ConfigureSet(t, p)

(* vocab_build_gate() and its siblings: OnceLock::get_or_init on first use. *)
InstallDefault(t) ==
    /\ pc[t] = "idle"
    /\ policy = Unset
    /\ policy' = Clamped(DefaultPolicy)
    /\ inner' = FreshInner(Clamped(DefaultPolicy))
    /\ UNCHANGED <<pc, expired, charge, answer>>

----------------------------------------------------------------------------

Fits(est) == inner.permits > 0 /\ inner.bytesAvail >= est

Maximum(a, b) == IF a >= b THEN a ELSE b

(* Mutant of Admitted: the high-water marks are not raised.                 *)
AdmittedNoPeak(est) ==
    [inner EXCEPT !.permits = @ - 1, !.bytesAvail = @ - est,
                  !.inUse = @ + 1, !.activeBytes = @ + est]

(* The admission both acquire and try_acquire end with.                     *)
Admitted(est) ==
    LET used == inner.inUse + 1
        active == inner.activeBytes + est
    IN  [inner EXCEPT !.permits = @ - 1,
                      !.bytesAvail = @ - est,
                      !.inUse = used,
                      !.activeBytes = active,
                      !.peak = Maximum(@, used),
                      !.peakBytes = Maximum(@, active)]

Admit(t, est) ==
    /\ inner' = Admitted(est)
    /\ pc' = [pc EXCEPT ![t] = "holding"]
    /\ charge' = [charge EXCEPT ![t] = est]
    /\ expired' = [expired EXCEPT ![t] = FALSE]
    /\ answer' = [answer EXCEPT ![t] = "ok"]

Reject(t) ==
    /\ inner' = [inner EXCEPT !.rejected = @ + 1]
    /\ pc' = [pc EXCEPT ![t] = "idle"]
    /\ expired' = [expired EXCEPT ![t] = FALSE]
    /\ charge' = [charge EXCEPT ![t] = 0]
    /\ answer' = [answer EXCEPT ![t] = "InternalLimitExceeded"]

(* Condvar::wait_timeout: give up the mutex and sleep.                      *)
Sleep(t, est) ==
    /\ pc' = [pc EXCEPT ![t] = "waiting"]
    /\ charge' = [charge EXCEPT ![t] = est]
    /\ UNCHANGED <<inner, expired, answer>>

(* A request is made of a gate that exists.                                 *)
Request(t) ==
    /\ pc[t] = "idle"
    /\ policy # Unset
    /\ UNCHANGED policy

(* BuildGate::acquire up to its first wait: an estimate above the whole     *)
(* budget is refused at once; otherwise the caller is admitted, or sleeps,  *)
(* or (the mutex was contended for the whole wait) its deadline is past.    *)
Acquire(t, est) ==
    /\ Request(t)
    /\ \/ est > policy.budget /\ Reject(t)
       \/ est <= policy.budget /\ Fits(est) /\ Admit(t, est)
       \/ est <= policy.budget /\ ~Fits(est) /\ Reject(t)
       \/ est <= policy.budget /\ ~Fits(est) /\ Sleep(t, est)

(* The deadline of a blocked caller passes.                                 *)
Expire(t) ==
    /\ pc[t] \in {"waiting", "woken"}
    /\ ~expired[t]
    /\ expired' = [expired EXCEPT ![t] = TRUE]
    /\ UNCHANGED <<policy, inner, pc, charge, answer>>

(* The loop of acquire after a wake-up (notified or spurious): admitted,    *)
(* refused because no time remains, or back to sleep.                       *)
Recheck(t) ==
    /\ pc[t] = "woken"
    /\ \/ Fits(charge[t]) /\ Admit(t, charge[t])
       \/ ~Fits(charge[t]) /\ expired[t] /\ Reject(t)
       \/ ~Fits(charge[t]) /\ ~expired[t] /\ Sleep(t, charge[t])
    /\ UNCHANGED policy

(* Mutant of TimedOut: the timed-out caller goes back to sleep.             *)
TimedOutSleeps(t) ==
    /\ pc[t] = "waiting"
    /\ expired[t]
    /\ Fits(charge[t])
    /\ Admit(t, charge[t])
    /\ UNCHANGED policy

(* wait_timeout returns timed_out: one last look at the condition.          *)
TimedOut(t) ==
    /\ pc[t] = "waiting"
    /\ expired[t]
    /\ \/ Fits(charge[t]) /\ Admit(t, charge[t])
       \/ ~Fits(charge[t]) /\ Reject(t)
    /\ UNCHANGED policy

(* A condition variable may wake a sleeper without a notification.          *)
SpuriousWake(t) ==
    /\ pc[t] = "waiting"
    /\ pc' = [pc EXCEPT ![t] = "woken"]
    /\ UNCHANGED <<policy, inner, expired, charge, answer>>

(* BuildGate::try_acquire: never waits.                                     *)
TryAcquire(t, est) ==
    /\ Request(t)
    /\ \/ est <= policy.budget /\ Fits(est) /\ Admit(t, est)
       \/ (est > policy.budget \/ ~Fits(est)) /\ Reject(t)

(* Mutant of Release: the bytes are not given back.                         *)
ReleaseLeaksBytes(t) ==
    /\ pc[t] = "holding"
    /\ inner' = [inner EXCEPT !.permits = @ + 1, !.inUse = @ - 1,
                              !.activeBytes = @ - charge[t]]
    /\ pc' = [pc EXCEPT ![t] = "notifying"]
    /\ charge' = [charge EXCEPT ![t] = 0]
    /\ UNCHANGED <<policy, expired, answer>>

(* PermitGuard::drop, the critical section.                                 *)
Release(t) ==
    /\ pc[t] = "holding"
    /\ inner' = [inner EXCEPT !.permits = @ + 1,
                              !.bytesAvail = @ + charge[t],
                              !.inUse = @ - 1,
                              !.activeBytes = @ - charge[t]]
    /\ pc' = [pc EXCEPT ![t] = "notifying"]
    /\ charge' = [charge EXCEPT ![t] = 0]
    /\ UNCHANGED <<policy, expired, answer>>

(* Mutant of NotifyAll: notify_one, or nobody when nobody sleeps.           *)
NotifyOne(t) ==
    /\ pc[t] = "notifying"
    /\ \E u \in Thread :
          /\ pc[u] = "waiting" \/ (u = t /\ \A v \in Thread : pc[v] # "waiting")
          /\ pc' = [[pc EXCEPT ![u] = "woken"] EXCEPT ![t] = "idle"]
    /\ UNCHANGED <<policy, inner, expired, charge, answer>>

(* PermitGuard::drop, notify_all after the mutex is released.               *)
NotifyAll(t) ==
    /\ pc[t] = "notifying"
    /\ pc' = [u \in Thread |-> CASE u = t -> "idle"
                                 [] pc[u] = "waiting" -> "woken"
                                 [] OTHER -> pc[u]]
    /\ UNCHANGED <<policy, inner, expired, charge, answer>>

Next ==
    \E t \in Thread :
        \/ \E p \in Policy : Configure(t, p)
        \/ InstallDefault(t)
        \/ \E est \in Estimate : /\ inner.rejected < MaxRejected
                                 /\ Acquire(t, est) \/ TryAcquire(t, est)
        \/ Expire(t)
        \/ Recheck(t)
        \/ TimedOut(t)
        \/ SpuriousWake(t)
        \/ Release(t)
        \/ NotifyAll(t)

Spec == Init /\ [][Next]_vars

(* Time passes, wait_timeout returns once it has, a woken caller re-acquires *)
(* the mutex, and a dropped guard finishes its drop.  Nothing obliges a      *)
(* holder to drop its permit or a caller to ask.                             *)
Fairness ==
    \A t \in Thread : /\ WF_vars(Expire(t))
                      /\ WF_vars(TimedOut(t))
                      /\ WF_vars(Recheck(t))
                      /\ WF_vars(NotifyAll(t))

FairSpec == Spec /\ Fairness

----------------------------------------------------------------------------
Holder == {t \in Thread : pc[t] = "holding"}

(* Types of GateInner and of the per-thread state.                          *)
TypeOK ==
    /\ policy \in Limits \cup {Unset}
    /\ inner \in [permits : Nat, bytesAvail : Nat, inUse : Nat, activeBytes : Nat,
                  peak : Nat, peakBytes : Nat, rejected : Nat]
    /\ pc \in [Thread -> {"idle", "waiting", "woken", "holding", "notifying"}]
    /\ expired \in [Thread -> BOOLEAN]
    /\ charge \in [Thread -> Nat]
    /\ answer \in [Thread -> {"none", "ok", "InvalidValue", "AlreadyInitialized",
                              "InternalLimitExceeded"}]

(* The mutex-guarded counters agree with the permits that are really alive, *)
(* through every interleaving of acquire, try_acquire, timeout and drop:    *)
(* in_use is the number of live PermitGuards, active_bytes the bytes they   *)
(* were charged, and what is not in use is available.                       *)
Conservation ==
    /\ inner.inUse = Cardinality(Holder)
    /\ inner.activeBytes = Weight(charge, Holder)
    /\ inner.permits + inner.inUse = policy.conc
    /\ inner.bytesAvail + inner.activeBytes = policy.budget

(* What the module is for: concurrent callers cannot multiply a sound       *)
(* per-call limit.  The permits alive together never exceed the configured  *)
(* concurrency nor, in bytes, the budget, and the peaks reported by the     *)
(* stats functions are upper bounds of what is alive and within the policy. *)
WithinPolicy ==
    /\ Cardinality(Holder) <= inner.peak
    /\ inner.peak <= policy.conc
    /\ Weight(charge, Holder) <= inner.peakBytes
    /\ inner.peakBytes <= policy.budget

(* A blocked or admitted request fits the whole budget, and there is none   *)
(* before the gate has a policy.                                            *)
RequestsFit ==
    \A t \in Thread :
        /\ pc[t] \in {"waiting", "woken", "holding"} => charge[t] <= policy.budget
        /\ policy = Unset => pc[t] = "idle"

(* No lost wake-up: a caller asleep in acquire although its request now     *)
(* fits is about to be notified, because some drop has released the mutex   *)
(* and not yet run notify_all ("multiple waiters may now fit").             *)
NoLostWakeup ==
    \A t \in Thread :
        pc[t] = "waiting" /\ Fits(charge[t]) => \E u \in Thread : pc[u] = "notifying"

(* acquire "times out with a typed error rather than blocking a caller      *)
(* forever": every blocked caller gets an answer even if no holder ever     *)
(* drops its permit.                                                        *)
AcquireReturns ==
    \A t \in Thread : pc[t] \in {"waiting", "woken"} ~> pc[t] \in {"idle", "holding"}
=============================================================================
