-------------------------- MODULE BuildGateProofs --------------------------
(***************************************************************************)
(* Proof that the gate's accounting is exact, that what it admits stays    *)
(* within its policy and that no wake-up is lost, for any finite set of    *)
(* callers, any estimates and any policy.                                  *)
(***************************************************************************)
EXTENDS BuildGate, WeightsProofs

GateInv == TypeOK /\ RequestsFit /\ Conservation /\ WithinPolicy /\ NoLostWakeup

(* A caller inside acquire or try_acquire that holds no permit.             *)
Asking(t) == pc[t] \in {"idle", "waiting", "woken"}

(* The live permits are finitely many and so are their bytes.               *)
LEMMA HolderFinite ==
    ASSUME TypeOK
    PROVE  /\ IsFiniteSet(Holder) /\ Cardinality(Holder) \in Nat
           /\ Weight(charge, Holder) \in Nat
           /\ \A t \in Holder : charge[t] \in Nat
<1>1. Holder \in SUBSET Thread
  BY DEF Holder
<1>2. IsFiniteSet(Holder)
  BY <1>1, ThreadAssumption, FS_Subset
<1>3. \A t \in Holder : charge[t] \in Nat
  BY DEF TypeOK, Holder
<1>. QED BY <1>2, <1>3, FS_CardinalityType, UnitsFinite

(* A step that neither admits nor releases keeps the permits and charges.   *)
LEMMA SameHolders ==
    ASSUME TypeOK, \A t \in Thread : pc'[t] = "holding" <=> pc[t] = "holding",
           \A t \in Holder : charge'[t] = charge[t]
    PROVE  Holder' = Holder /\ Weight(charge', Holder') = Weight(charge, Holder)
<1>1. Holder' = Holder
  BY DEF Holder
<1>2. Weight(charge', Holder) = Weight(charge, Holder)
  BY WeightCong
<1>. QED BY <1>1, <1>2

(* Admitting t adds one permit and est bytes.                               *)
LEMMA AdmitCounts ==
    ASSUME GateInv, NEW t \in Thread, Asking(t), NEW est \in Nat, Admit(t, est)
    PROVE  /\ Cardinality(Holder') = Cardinality(Holder) + 1
           /\ Weight(charge', Holder') = Weight(charge, Holder) + est
<1>1. TypeOK /\ t \notin Holder
  BY DEF GateInv, Holder, Asking
<1>2. Holder' = Holder \cup {t}
  BY <1>1 DEF Holder, Admit, TypeOK
<1>3. IsFiniteSet(Holder) /\ \A u \in Holder : charge[u] \in Nat
  BY <1>1, HolderFinite
<1>4. charge'[t] = est /\ \A u \in Holder : charge'[u] = charge[u]
  BY <1>1 DEF Admit, TypeOK, Holder
<1>5. \A u \in Holder \cup {t} : charge'[u] \in Nat
  BY <1>3, <1>4
<1>6. Weight(charge', Holder \cup {t}) = Weight(charge', Holder) + charge'[t]
  BY <1>1, <1>3, <1>5, WeightAdd
<1>7. Weight(charge', Holder) = Weight(charge, Holder)
  BY <1>4, WeightCong
<1>8. Cardinality(Holder \cup {t}) = Cardinality(Holder) + 1
  BY <1>1, <1>3, FS_AddElement
<1>. QED BY <1>2, <1>4, <1>6, <1>7, <1>8

(* Every admission keeps the invariant.                                     *)
LEMMA AdmitInv ==
    ASSUME GateInv, NEW t \in Thread, Asking(t), policy # Unset,
           NEW est \in Nat, est <= policy.budget, Fits(est), Admit(t, est), policy' = policy
    PROVE  GateInv'
<1>. DEFINE h == Cardinality(Holder)
            w == Weight(charge, Holder)
<1>1. /\ TypeOK /\ Conservation /\ WithinPolicy /\ RequestsFit /\ NoLostWakeup
      /\ h \in Nat /\ w \in Nat
  BY HolderFinite DEF GateInv
<1>2. Cardinality(Holder') = h + 1 /\ Weight(charge', Holder') = w + est
  BY AdmitCounts
<1>3. inner' = Admitted(est)
  BY DEF Admit
<1>4. /\ inner'.permits = inner.permits - 1
      /\ inner'.bytesAvail = inner.bytesAvail - est
      /\ inner'.inUse = inner.inUse + 1
      /\ inner'.activeBytes = inner.activeBytes + est
      /\ inner'.peak = Maximum(inner.peak, inner.inUse + 1)
      /\ inner'.peakBytes = Maximum(inner.peakBytes, inner.activeBytes + est)
      /\ inner'.rejected = inner.rejected
  BY <1>1, <1>3 DEF Admitted, TypeOK
<1>5. TypeOK'
  <2>1. /\ inner'.permits \in Nat /\ inner'.bytesAvail \in Nat /\ inner'.inUse \in Nat
        /\ inner'.activeBytes \in Nat /\ inner'.peak \in Nat /\ inner'.peakBytes \in Nat
        /\ inner'.rejected \in Nat
    BY <1>1, <1>4 DEF TypeOK, Fits, Maximum
  <2>2. inner' = [permits |-> inner'.permits, bytesAvail |-> inner'.bytesAvail,
                  inUse |-> inner'.inUse, activeBytes |-> inner'.activeBytes,
                  peak |-> inner'.peak, peakBytes |-> inner'.peakBytes,
                  rejected |-> inner'.rejected]
    BY <1>1, <1>3 DEF TypeOK, Admitted
  <2>. QED BY <1>1, <2>1, <2>2 DEF TypeOK, Admit
<1>6. RequestsFit'
  BY <1>1 DEF RequestsFit, TypeOK, Admit
<1>7. policy.conc \in Nat /\ policy.budget \in Nat
  BY <1>1 DEF TypeOK, Limits, Unset
<1>8. Conservation'
  BY <1>1, <1>2, <1>4, <1>7 DEF Conservation, Fits, TypeOK
<1>9. WithinPolicy'
  BY <1>1, <1>2, <1>4, <1>7 DEF WithinPolicy, Conservation, Fits, TypeOK, Maximum
<1>10. NoLostWakeup'
  <2>. SUFFICES ASSUME NEW u \in Thread, pc'[u] = "waiting", Fits(charge[u])'
                PROVE  \E v \in Thread : pc'[v] = "notifying"
    BY DEF NoLostWakeup
  <2>1. u # t /\ pc[u] = "waiting" /\ charge'[u] = charge[u]
    BY <1>1 DEF Admit, TypeOK
  <2>2. Fits(charge[u])
    BY <1>1, <1>4, <2>1 DEF Fits, TypeOK
  <2>3. PICK v \in Thread : pc[v] = "notifying"
    BY <1>1, <2>1, <2>2 DEF NoLostWakeup
  <2>. QED BY <1>1, <2>3 DEF Admit, TypeOK, Asking
<1>. QED BY <1>5, <1>6, <1>8, <1>9, <1>10 DEF GateInv

(* A step that leaves the permits, their charges and the gate's counters    *)
(* alone (but for `rejected`) keeps the accounting.                         *)
LEMMA QuietCounts ==
    ASSUME GateInv, policy' = policy,
           \A t \in Thread : pc'[t] = "holding" <=> pc[t] = "holding",
           \A t \in Holder : charge'[t] = charge[t],
           inner' = inner \/ inner' = [inner EXCEPT !.rejected = @ + 1]
    PROVE  Conservation' /\ WithinPolicy'
<1>1. TypeOK /\ Conservation /\ WithinPolicy
  BY DEF GateInv
<1>2. Holder' = Holder /\ Weight(charge', Holder') = Weight(charge, Holder)
  BY <1>1, SameHolders
<1>3. /\ inner'.inUse = inner.inUse /\ inner'.activeBytes = inner.activeBytes
      /\ inner'.permits = inner.permits /\ inner'.bytesAvail = inner.bytesAvail
      /\ inner'.peak = inner.peak /\ inner'.peakBytes = inner.peakBytes
  BY <1>1 DEF TypeOK
<1>. QED BY <1>1, <1>2, <1>3 DEF Conservation, WithinPolicy

(* A refused caller leaves as it came.                                      *)
LEMMA RejectInv ==
    ASSUME GateInv, NEW t \in Thread, Asking(t), policy' = policy, Reject(t)
    PROVE  GateInv'
<1>1. TypeOK /\ RequestsFit /\ NoLostWakeup
  BY DEF GateInv
<1>2. TypeOK'
  BY <1>1 DEF TypeOK, Reject
<1>3. RequestsFit'
  BY <1>1 DEF RequestsFit, TypeOK, Reject
<1>4. Conservation' /\ WithinPolicy'
  <2>1. \A u \in Thread : pc'[u] = "holding" <=> pc[u] = "holding"
    BY <1>1 DEF TypeOK, Reject, Asking
  <2>2. \A u \in Holder : charge'[u] = charge[u]
    BY <1>1 DEF TypeOK, Reject, Asking, Holder
  <2>. QED BY <2>1, <2>2, QuietCounts DEF Reject
<1>5. NoLostWakeup'
  BY <1>1 DEF NoLostWakeup, TypeOK, Reject, Asking, Fits
<1>. QED BY <1>2, <1>3, <1>4, <1>5 DEF GateInv

(* A caller goes to sleep only when its request does not fit, so there is   *)
(* no wake-up it could have missed.                                         *)
LEMMA SleepInv ==
    ASSUME GateInv, NEW t \in Thread, Asking(t), policy' = policy, policy # Unset,
           NEW est \in Nat, est <= policy.budget, ~Fits(est), Sleep(t, est)
    PROVE  GateInv'
<1>1. TypeOK /\ RequestsFit /\ NoLostWakeup
  BY DEF GateInv
<1>2. TypeOK'
  BY <1>1 DEF TypeOK, Sleep
<1>3. RequestsFit'
  BY <1>1 DEF RequestsFit, TypeOK, Sleep
<1>4. Conservation' /\ WithinPolicy'
  <2>1. \A u \in Thread : pc'[u] = "holding" <=> pc[u] = "holding"
    BY <1>1 DEF TypeOK, Sleep, Asking
  <2>2. \A u \in Holder : charge'[u] = charge[u]
    BY <1>1 DEF TypeOK, Sleep, Asking, Holder
  <2>. QED BY <2>1, <2>2, QuietCounts DEF Sleep
<1>5. NoLostWakeup'
  BY <1>1 DEF NoLostWakeup, TypeOK, Sleep, Asking, Fits
<1>. QED BY <1>2, <1>3, <1>4, <1>5 DEF GateInv

(* A request ends in one of the three ways above, at once or after a wait.  *)
LEMMA AcquireInv ==
    ASSUME GateInv, NEW t \in Thread, NEW est \in Nat, Acquire(t, est) \/ TryAcquire(t, est)
    PROVE  GateInv'
<1>1. Asking(t) /\ policy # Unset /\ policy' = policy
  BY DEF Acquire, TryAcquire, Request, Asking
<1>2. CASE Reject(t)
  BY <1>1, <1>2, RejectInv
<1>3. CASE est <= policy.budget /\ Fits(est) /\ Admit(t, est)
  BY <1>1, <1>3, AdmitInv
<1>4. CASE est <= policy.budget /\ ~Fits(est) /\ Sleep(t, est)
  BY <1>1, <1>4, SleepInv
<1>. QED BY <1>2, <1>3, <1>4 DEF Acquire, TryAcquire

LEMMA RetryInv ==
    ASSUME GateInv, NEW t \in Thread, Recheck(t) \/ TimedOut(t)
    PROVE  GateInv'
<1>1. /\ Asking(t) /\ policy # Unset /\ policy' = policy
      /\ charge[t] \in Nat /\ charge[t] <= policy.budget
  BY DEF Recheck, TimedOut, Asking, GateInv, RequestsFit, TypeOK
<1>2. CASE Reject(t)
  BY <1>1, <1>2, RejectInv
<1>3. CASE Fits(charge[t]) /\ Admit(t, charge[t])
  BY <1>1, <1>3, AdmitInv
<1>4. CASE ~Fits(charge[t]) /\ Sleep(t, charge[t])
  BY <1>1, <1>4, SleepInv
<1>. QED BY <1>2, <1>3, <1>4 DEF Recheck, TimedOut

(* Dropping a guard takes one permit and its bytes out of use.              *)
LEMMA ReleaseInv ==
    ASSUME GateInv, NEW t \in Thread, Release(t)
    PROVE  GateInv'
<1>1. TypeOK /\ RequestsFit /\ Conservation /\ WithinPolicy /\ t \in Holder
  BY DEF GateInv, Release, Holder
<1>2. /\ IsFiniteSet(Holder) /\ Cardinality(Holder) \in Nat
      /\ Weight(charge, Holder) \in Nat /\ \A u \in Holder : charge[u] \in Nat
  BY <1>1, HolderFinite
<1>3. Holder' = Holder \ {t}
  BY <1>1 DEF Holder, Release, TypeOK
<1>4. \A u \in Holder \ {t} : charge'[u] = charge[u]
  BY <1>1 DEF Release, TypeOK, Holder
<1>5. Weight(charge', Holder') = Weight(charge, Holder \ {t})
  BY <1>3, <1>4, WeightCong
<1>6. /\ Weight(charge, Holder \ {t}) = Weight(charge, Holder) - charge[t]
      /\ charge[t] <= Weight(charge, Holder)
  BY <1>1, <1>2, WeightRemove
<1>7. Cardinality(Holder \ {t}) = Cardinality(Holder) - 1
  BY <1>1, <1>2, FS_RemoveElement
<1>8. Cardinality(Holder) # 0
  BY <1>1, <1>2, FS_EmptySet
<1>9. /\ inner'.permits = inner.permits + 1
      /\ inner'.bytesAvail = inner.bytesAvail + charge[t]
      /\ inner'.inUse = inner.inUse - 1
      /\ inner'.activeBytes = inner.activeBytes - charge[t]
      /\ inner'.peak = inner.peak /\ inner'.peakBytes = inner.peakBytes
      /\ inner'.rejected = inner.rejected
  BY <1>1 DEF Release, TypeOK
<1>10. policy' = policy /\ policy.conc \in Nat /\ policy.budget \in Nat /\ charge[t] \in Nat
  BY <1>1, <1>2 DEF TypeOK, Limits, Unset, Release
<1>11. /\ inner'.permits \in Nat /\ inner'.bytesAvail \in Nat
       /\ inner'.inUse \in Nat /\ inner'.activeBytes \in Nat
  BY <1>1, <1>2, <1>6, <1>8, <1>9, <1>10 DEF Conservation, TypeOK
<1>12. TypeOK'
  BY <1>1, <1>9, <1>11 DEF TypeOK, Release
<1>13. RequestsFit'
  BY <1>1 DEF RequestsFit, TypeOK, Release
<1>14. Conservation'
  BY <1>1, <1>2, <1>3, <1>5, <1>6, <1>7, <1>9, <1>10 DEF Conservation, TypeOK
<1>15. WithinPolicy'
  BY <1>1, <1>2, <1>3, <1>5, <1>6, <1>7, <1>9, <1>10 DEF WithinPolicy, TypeOK
<1>16. NoLostWakeup'
  BY <1>1 DEF NoLostWakeup, TypeOK, Release
<1>. QED BY <1>12, <1>13, <1>14, <1>15, <1>16 DEF GateInv

(* The steps that move callers between sleeping and awake.                  *)
LEMMA WakeInv ==
    ASSUME GateInv, NEW t \in Thread, NotifyAll(t) \/ SpuriousWake(t) \/ Expire(t)
    PROVE  GateInv'
<1>1. TypeOK /\ RequestsFit /\ NoLostWakeup
  BY DEF GateInv
<1>2. TypeOK'
  BY <1>1 DEF TypeOK, NotifyAll, SpuriousWake, Expire
<1>3. RequestsFit'
  BY <1>1 DEF RequestsFit, TypeOK, NotifyAll, SpuriousWake, Expire
<1>4. Conservation' /\ WithinPolicy'
  <2>1. \A u \in Thread : pc'[u] = "holding" <=> pc[u] = "holding"
    BY <1>1 DEF TypeOK, NotifyAll, SpuriousWake, Expire
  <2>. QED BY <2>1, QuietCounts DEF NotifyAll, SpuriousWake, Expire
<1>5. NoLostWakeup'
  BY <1>1 DEF NoLostWakeup, TypeOK, NotifyAll, SpuriousWake, Expire, Fits
<1>. QED BY <1>2, <1>3, <1>4, <1>5 DEF GateInv

(* A gate that is just installed has everything available; before that no  *)
(* caller holds or awaits anything.                                         *)
LEMMA InstallInv ==
    ASSUME GateInv, policy = Unset, NEW p \in Limits, policy' = p, inner' = FreshInner(p),
           NEW t \in Thread, UNCHANGED <<pc, expired, charge>>,
           answer' = answer \/ answer' = [answer EXCEPT ![t] = "ok"]
    PROVE  GateInv'
<1>1. TypeOK /\ RequestsFit
  BY DEF GateInv
<1>2. TypeOK'
  BY <1>1 DEF TypeOK, FreshInner, Limits
<1>3. \A u \in Thread : pc'[u] = "idle"
  BY <1>1 DEF RequestsFit
<1>4. Holder' = {}
  BY <1>3 DEF Holder
<1>5. Cardinality(Holder') = 0 /\ Weight(charge', Holder') = 0
  BY <1>4, FS_EmptySet, WeightEmpty
<1>6. Conservation' /\ WithinPolicy'
  BY <1>5 DEF Conservation, WithinPolicy, FreshInner, Limits
<1>7. RequestsFit' /\ NoLostWakeup'
  BY <1>1, <1>3 DEF RequestsFit, NoLostWakeup, Unset, Limits
<1>. QED BY <1>2, <1>6, <1>7 DEF GateInv

LEMMA GateInit ==
    Init => GateInv
<1>. SUFFICES ASSUME Init PROVE GateInv
  OBVIOUS
<1>1. TypeOK
  BY DEF Init, TypeOK, FreshInner, Unset
<1>2. Holder = {}
  BY DEF Init, Holder
<1>3. Cardinality(Holder) = 0 /\ Weight(charge, Holder) = 0
  BY <1>2, FS_EmptySet, WeightEmpty
<1>4. Conservation /\ WithinPolicy
  BY <1>3 DEF Init, Conservation, WithinPolicy, FreshInner, Unset
<1>5. RequestsFit /\ NoLostWakeup
  BY DEF Init, RequestsFit, NoLostWakeup
<1>. QED BY <1>1, <1>4, <1>5 DEF GateInv

(* One step per action of the gate.                                         *)
LEMMA GateStep ==
    GateInv /\ [Next]_vars => GateInv'
<1>. SUFFICES ASSUME GateInv, [Next]_vars PROVE GateInv'
  OBVIOUS
<1>1. TypeOK /\ RequestsFit
  BY DEF GateInv
<1>2. ASSUME NEW t \in Thread, NEW p \in Policy, Configure(t, p) PROVE GateInv'
  <2>1. CASE ConfigureSet(t, p) /\ policy = Unset
    <3>1. Clamped(p) \in Limits
      BY <2>1, PolicyAssumption DEF ConfigureSet, Clamped, AtLeastOne, Limits
    <3>. QED BY <2>1, <3>1, InstallInv DEF ConfigureSet
  <2>2. CASE ConfigureInvalid(t, p) \/ (ConfigureSet(t, p) /\ policy # Unset)
    <3>1. UNCHANGED <<policy, inner, pc, expired, charge>>
      BY <2>2 DEF ConfigureInvalid, ConfigureSet
    <3>2. TypeOK'
      BY <1>1, <2>2 DEF TypeOK, ConfigureInvalid, ConfigureSet
    <3>3. Conservation' /\ WithinPolicy'
      BY <3>1, QuietCounts
    <3>4. RequestsFit' /\ NoLostWakeup'
      BY <3>1 DEF GateInv, RequestsFit, NoLostWakeup, Fits
    <3>. QED BY <3>2, <3>3, <3>4 DEF GateInv
  <2>. QED BY <1>2, <2>1, <2>2 DEF Configure
<1>3. ASSUME NEW t \in Thread, InstallDefault(t) PROVE GateInv'
  <2>1. Clamped(DefaultPolicy) \in Limits
    BY DefaultAssumption DEF Clamped, AtLeastOne, Limits
  <2>. QED BY <1>3, <2>1, InstallInv DEF InstallDefault
<1>4. ASSUME NEW t \in Thread, NEW est \in Estimate, Acquire(t, est) \/ TryAcquire(t, est)
      PROVE  GateInv'
  <2>1. est \in Nat
    BY EstimateAssumption
  <2>. QED BY <1>4, <2>1, AcquireInv
<1>5. ASSUME NEW t \in Thread, Recheck(t) \/ TimedOut(t) PROVE GateInv'
  BY <1>5, RetryInv
<1>6. ASSUME NEW t \in Thread, NotifyAll(t) \/ SpuriousWake(t) \/ Expire(t) PROVE GateInv'
  BY <1>6, WakeInv
<1>7. ASSUME NEW t \in Thread, Release(t) PROVE GateInv'
  BY <1>7, ReleaseInv
<1>8. CASE UNCHANGED vars
  <2>1. Conservation' /\ WithinPolicy'
    BY <1>8, QuietCounts DEF vars
  <2>2. TypeOK' /\ RequestsFit' /\ NoLostWakeup'
    BY <1>8 DEF GateInv, vars, TypeOK, RequestsFit, NoLostWakeup, Fits
  <2>. QED BY <2>1, <2>2 DEF GateInv
<1>. QED BY <1>2, <1>3, <1>4, <1>5, <1>6, <1>7, <1>8 DEF Next

(* The gate's counters always equal what its live permits hold: no          *)
(* interleaving of acquire, try_acquire, timeout and drop leaks or invents  *)
(* a permit or a byte.                                                      *)
THEOREM GateConservation ==
    Spec => []Conservation
<1>1. GateInv => Conservation
  BY DEF GateInv
<1>. QED BY <1>1, GateInit, GateStep, PTL DEF Spec

(* At no time are more permits or bytes admitted than the policy allows.    *)
THEOREM GateWithinPolicy ==
    Spec => []WithinPolicy
<1>1. GateInv => WithinPolicy
  BY DEF GateInv
<1>. QED BY <1>1, GateInit, GateStep, PTL DEF Spec

(* A caller asleep on a request that fits is always about to be notified.   *)
THEOREM GateNoLostWakeup ==
    Spec => []NoLostWakeup
<1>1. GateInv => NoLostWakeup
  BY DEF GateInv
<1>. QED BY <1>1, GateInit, GateStep, PTL DEF Spec
=============================================================================
