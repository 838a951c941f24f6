------------------------------ MODULE LazyRows ------------------------------
(***************************************************************************)
(* The per-state mask cache of a CompiledArtifact in the lazy bind mode    *)
(* (LazyRows and cached_mask in runtime/mod.rs, walk_state_mask_into in    *)
(* index/build.rs), shared by every session of the artifact.               *)
(*                                                                         *)
(* Each engine state has a OnceLock.  The first query of a state runs the  *)
(* initialiser: it reserves the row's bytes, takes a permit of the serving *)
(* gate without waiting, walks the trie, and publishes what came of it for *)
(* good.  Other queries of that state block meanwhile; a row that did not  *)
(* fit the budget is walked again, unreserved, by every query.             *)
(***************************************************************************)
EXTENDS Integers, FiniteSets

CONSTANTS
    Thread,         \* one query at a time each
    State,          \* engine states, the dead sink included
    MaskOf,         \* State -> the mask the trie walk computes (see VocabTrie)
    EntryBytes,     \* what a retained mask is charged
    Budget,         \* budget_bytes
    Transient,      \* lazy_walk_transient_bytes of the artifact's trie, within its cap
    ServingPolicy,  \* limits of the serving gate
    NoThread,
    MaxRejected     \* no new query once the serving gate has refused this many

ASSUME RowsAssumption ==
    /\ IsFiniteSet(State) /\ State # {}
    /\ EntryBytes \in Nat \ {0} /\ Budget \in Nat /\ Transient \in Nat
    /\ NoThread \notin Thread

VARIABLES
    rows,           \* the slots: Empty, Uncached, or the cached result
    runner,         \* the thread inside a slot's initialiser
    retained,       \* retained_bytes
    qpc,            \* where each query is
    qstate,         \* the state it asks for
    outcome,        \* what its own walk returned
    reply,          \* what the last finished query returned
    refused,        \* history: the gate refused during this query, for its state
    policy, inner, gatePc, expired, charge, gateAnswer      \* the serving gate

rowVars == <<rows, runner, retained>>
queryVars == <<qpc, qstate, outcome, reply, refused>>
gateVars == <<policy, inner, gatePc, expired, charge, gateAnswer>>
vars == <<rowVars, queryVars, gateVars>>

Gate == INSTANCE BuildGate WITH
    Estimate <- {Transient}, Policy <- {}, DefaultPolicy <- ServingPolicy,
    pc <- gatePc, answer <- gateAnswer

Ok(mask) == <<"ok", mask>>
Err(why) == <<"err", why>>
Failure == {Err("budget fully committed"), Err("allocation failed")}
Result == {Ok(MaskOf[s]) : s \in State} \cup Failure
None == <<"none">>
Empty == <<"empty">>
Uncached == <<"uncached">>

(* The locals of a thread that is not in a query.                           *)
AnyState == CHOOSE s \in State : TRUE

Init ==
    /\ rows = [s \in State |-> Empty]
    /\ runner = [s \in State |-> NoThread]
    /\ retained = 0
    /\ qpc = [t \in Thread |-> "idle"]
    /\ qstate = [t \in Thread |-> AnyState]
    /\ outcome = [t \in Thread |-> None]
    /\ reply = [t \in Thread |-> None]
    /\ refused = [t \in Thread |-> FALSE]
    /\ policy = Gate!Clamped(ServingPolicy)
    /\ inner = Gate!FreshInner(policy)
    /\ gatePc = [t \in Thread |-> "idle"]
    /\ expired = [t \in Thread |-> FALSE]
    /\ charge = [t \in Thread |-> 0]
    /\ gateAnswer = [t \in Thread |-> "none"]

----------------------------------------------------------------------------
Goto(t, l) == qpc' = [qpc EXCEPT ![t] = l]
At(t, l) == qpc[t] = l
Initialising(t) == runner[qstate[t]] = t

(* cached_mask(s).                                                          *)
Ask(t, s) ==
    /\ At(t, "idle")
    /\ inner.rejected < MaxRejected
    /\ Goto(t, "get")
    /\ qstate' = [qstate EXCEPT ![t] = s]
    /\ reply' = [reply EXCEPT ![t] = None]
    /\ refused' = [refused EXCEPT ![t] = FALSE]
    /\ UNCHANGED <<rowVars, outcome, gateVars>>

(* OnceLock::get finds the row, or get_or_init elects this thread; while    *)
(* another thread initialises the slot the query blocks.                    *)
Get(t) ==
    /\ At(t, "get")
    /\ LET s == qstate[t] IN
          \/ rows[s] # Empty /\ Goto(t, "read") /\ UNCHANGED runner
          \/ /\ rows[s] = Empty /\ runner[s] = NoThread
             /\ runner' = [runner EXCEPT ![s] = t]
             /\ Goto(t, "reserve")
    /\ UNCHANGED <<rows, retained, qstate, outcome, reply, refused, gateVars>>

(* try_reserve, one atomic fetch_update.                                    *)
Reserve(t) ==
    /\ At(t, "reserve")
    /\ IF retained + EntryBytes <= Budget
         THEN retained' = retained + EntryBytes /\ Goto(t, "walk")
         ELSE Goto(t, "publish") /\ UNCHANGED retained
    /\ UNCHANGED <<rows, runner, qstate, outcome, reply, refused, gateVars>>

(* A walk that ends without a permit or has dropped it: the initialiser     *)
(* settles its reservation, an uncached query replies.                      *)
AfterWalk(t) == IF Initialising(t) THEN "settle" ELSE "reply"

(* walk_state_mask_into: try_acquire of the serving gate, never waiting.    *)
(* A refusal also concerns the queries that wait for this initialiser.      *)
Admission(t) ==
    /\ At(t, "walk") /\ gatePc[t] = "idle"
    /\ Gate!TryAcquire(t, Transient)
    /\ IF gatePc'[t] = "holding"
         THEN UNCHANGED <<qpc, outcome, refused>>
         ELSE /\ outcome' = [outcome EXCEPT ![t] = Err("budget fully committed")]
              /\ refused' = [u \in Thread |->
                                 \/ refused[u] \/ u = t
                                 \/ Initialising(t) /\ qpc[u] # "idle" /\ qstate[u] = qstate[t]]
              /\ Goto(t, AfterWalk(t))
    /\ UNCHANGED <<rowVars, qstate, reply>>

(* The walk ends, or its stack cannot be allocated.                         *)
Walk(t) ==
    /\ At(t, "walk") /\ gatePc[t] = "holding"
    /\ \E r \in {Ok(MaskOf[qstate[t]]), Err("allocation failed")} :
          outcome' = [outcome EXCEPT ![t] = r]
    /\ Goto(t, "drop")
    /\ UNCHANGED <<rowVars, qstate, reply, refused, gateVars>>

(* The permit is a local of the walk: dropped, then notify_all.             *)
DropPermit(t) ==
    /\ At(t, "drop")
    /\ \/ Gate!Release(t) /\ UNCHANGED qpc
       \/ Gate!NotifyAll(t) /\ Goto(t, AfterWalk(t))
    /\ UNCHANGED <<rowVars, qstate, outcome, reply, refused>>

(* Mutant of Settle: a failed walk keeps its reservation.                   *)
SettleKeepsBytes(t) ==
    /\ At(t, "settle")
    /\ Goto(t, "publish")
    /\ UNCHANGED <<rowVars, qstate, outcome, reply, refused, gateVars>>

(* A failed walk gives its reservation back.                                *)
Settle(t) ==
    /\ At(t, "settle")
    /\ retained' = IF outcome[t] \in Failure THEN retained - EntryBytes ELSE retained
    /\ Goto(t, "publish")
    /\ UNCHANGED <<rows, runner, qstate, outcome, reply, refused, gateVars>>

(* The initialiser returns: the slot is decided for good.                   *)
Publish(t) ==
    /\ At(t, "publish")
    /\ LET s == qstate[t] IN
          /\ rows' = [rows EXCEPT ![s] = IF outcome[t] = None THEN Uncached ELSE outcome[t]]
          /\ runner' = [runner EXCEPT ![s] = NoThread]
    /\ Goto(t, "read")
    /\ UNCHANGED <<retained, qstate, outcome, reply, refused, gateVars>>

(* Mutant of Read: a cached failure is looked up again until it goes away.  *)
ReadRetries(t) ==
    /\ At(t, "read")
    /\ LET v == rows[qstate[t]] IN
          \/ v \in Failure /\ Goto(t, "get") /\ UNCHANGED outcome
          \/ v = Uncached /\ Goto(t, "walk") /\ UNCHANGED outcome
          \/ /\ v \notin Failure \cup {Uncached}
             /\ Goto(t, "reply") /\ outcome' = [outcome EXCEPT ![t] = v]
    /\ UNCHANGED <<rowVars, qstate, reply, refused, gateVars>>

(* The final match: a cached result is returned, an uncached row walked.    *)
Read(t) ==
    /\ At(t, "read")
    /\ LET v == rows[qstate[t]] IN
          IF v = Uncached
            THEN Goto(t, "walk") /\ UNCHANGED outcome
            ELSE Goto(t, "reply") /\ outcome' = [outcome EXCEPT ![t] = v]
    /\ UNCHANGED <<rowVars, qstate, reply, refused, gateVars>>

Return(t) ==
    /\ At(t, "reply")
    /\ Goto(t, "idle")
    /\ reply' = [reply EXCEPT ![t] = outcome[t]]
    /\ outcome' = [outcome EXCEPT ![t] = None]
    /\ qstate' = [qstate EXCEPT ![t] = AnyState]
    /\ UNCHANGED <<rowVars, refused, gateVars>>

QueryStep(t) ==
    \/ Get(t) \/ Reserve(t) \/ Admission(t) \/ Walk(t)
    \/ DropPermit(t) \/ Settle(t) \/ Publish(t) \/ Read(t)

(* Nobody asks.                                                             *)
Rest == (\A t \in Thread : At(t, "idle")) /\ UNCHANGED vars

Next ==
    \/ \E t \in Thread : (\E s \in State : Ask(t, s)) \/ QueryStep(t) \/ Return(t)
    \/ Rest

Spec == Init /\ [][Next]_vars

----------------------------------------------------------------------------
(* Threads inside an initialiser whose reservation stands.                  *)
Reserved ==
    {t \in Thread : /\ Initialising(t)
                    /\ \/ qpc[t] \in {"walk", "drop", "settle"}
                       \/ qpc[t] = "publish" /\ outcome[t] \notin Failure \cup {None}}

Kept == {s \in State : rows[s] \notin Failure \cup {Empty, Uncached}}

(* Types of the rows, the queries and the counter.                          *)
TypeOK ==
    /\ rows \in [State -> Result \cup {Empty, Uncached}]
    /\ runner \in [State -> Thread \cup {NoThread}]
    /\ retained \in Nat
    /\ qpc \in [Thread -> {"idle", "get", "reserve", "walk", "drop", "settle", "publish",
                           "read", "reply"}]
    /\ qstate \in [Thread -> State]
    /\ outcome \in [Thread -> Result \cup {None}]
    /\ reply \in [Thread -> Result \cup {None}]
    /\ refused \in [Thread -> BOOLEAN]

(* "Only the OnceLock-winning closure ever reserves": the atomic counter is *)
(* exactly what the kept masks and the running initialisers account for, so *)
(* no failure or race leaks budget, and it never exceeds the budget.        *)
RetainedExact ==
    /\ retained = EntryBytes * (Cardinality(Kept) + Cardinality(Reserved))
    /\ retained <= Budget

=============================================================================
