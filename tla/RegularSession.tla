--------------------------- MODULE RegularSession ---------------------------
(***************************************************************************)
(* Sessions of the regular backend (Session in api.rs, Matcher in          *)
(* runtime/mod.rs), one per thread, all bound to one CompiledArtifact      *)
(* whose lazily computed mask rows they share (LazyRows).                  *)
(*                                                                         *)
(* A session is exclusive to its thread: what interleaves is the mask      *)
(* queries, in the shared rows and in the serving gate.  The detailed      *)
(* session implements Decoder, with the bytes of the accepted tokens as    *)
(* the generated text and the language of the RAW automaton, before dead   *)
(* states are folded, as the language.                                     *)
(***************************************************************************)
EXTENDS ByteEngine

CONSTANTS
    Thread, NoThread,
    Raw,            \* the automaton the artifact was materialised from
    TokenBytes,     \* ordinary token id -> its non-empty bytes
    Eos,            \* eos_token_id, which the session never passes on
    ForeignId,      \* ids that are not in the vocabulary
    EntryBytes, Budget, Transient, ServingPolicy, MaxRejected,      \* see LazyRows
    MaxText         \* a session whose text has this many bytes is only reset or stopped

Token == DOMAIN TokenBytes

ASSUME TokenAssumption ==
    /\ Eos \notin Token /\ ForeignId \cap (Token \cup {Eos}) = {}
    /\ \A tok \in Token : TokenBytes[tok] \in Seq(Byte) /\ TokenBytes[tok] # <<>>
ASSUME MaxTextAssumption == MaxText \in Nat

(* build_class_table numbers the classes that bytes have, so none is empty. *)
ASSUME RawAssumption ==
    /\ Raw.start \in RawState /\ Raw.accepting \subseteq RawState
    /\ Raw.classOf \in [Byte -> Class] /\ \A c \in Class : \E b \in Byte : Raw.classOf[b] = c
    /\ Raw.edge \in [RawState \X Class -> EngineState]
ASSUME RowBudgetAssumption ==
    EntryBytes \in Nat \ {0} /\ Budget \in Nat /\ Transient \in Nat /\ NoThread \notin Thread

VARIABLES
    rows, runner, retained, qpc, qstate, outcome, reply, refused,
    policy, inner, gatePc, expired, charge, gateAnswer,     \* LazyRows and its gate
    pos,            \* Matcher::state
    lifecycle,      \* "Active" or "Stopped"
    out,            \* the buffer the caller passed to write_mask
    last,           \* how the last call returned, "pending" while a mask is computed
    text            \* history: the bytes of the tokens accepted since the last reset

lazyVars == <<rows, runner, retained, qpc, qstate, outcome, reply, refused,
              policy, inner, gatePc, expired, charge, gateAnswer>>
sessionVars == <<pos, lifecycle, out, last, text>>
vars == <<lazyVars, sessionVars>>

engine == Materialize(Raw)

(* allowed_tokens_from_records: the mask of one state.                      *)
RowOf == [s \in EngineState |-> {tok \in Token : ConsumeToken(engine, s, TokenBytes[tok]) # Dead}]

Rows == INSTANCE LazyRows WITH State <- EngineState, MaskOf <- RowOf

(* BoundSchema::start_session.                                              *)
Init ==
    /\ Rows!Init
    /\ pos = [t \in Thread |-> engine.start]
    /\ lifecycle = [t \in Thread |-> "Active"]
    /\ out = [t \in Thread |-> {}]
    /\ last = [t \in Thread |-> "ok"]
    /\ text = [t \in Thread |-> <<>>]

----------------------------------------------------------------------------
Idle(t) == last[t] # "pending"
Answer(t, a) == last' = [last EXCEPT ![t] = a]

(* write_mask up to the query: the buffer is zeroed first.                  *)
WriteMask(t) ==
    /\ Idle(t)
    /\ \/ /\ lifecycle[t] = "Stopped"
          /\ out' = [out EXCEPT ![t] = {Eos}]
          /\ Answer(t, "ok")
          /\ UNCHANGED lazyVars
       \/ /\ lifecycle[t] = "Active"
          /\ out' = [out EXCEPT ![t] = {}]
          /\ Answer(t, "pending")
          /\ Rows!Ask(t, pos[t])
    /\ UNCHANGED <<pos, lifecycle, text>>

QueryRow(t) == Rows!QueryStep(t) /\ UNCHANGED sessionVars

(* Mutant of FinishMask: the EOS bit is forgotten.                          *)
FinishMaskNoEos(t) ==
    /\ Rows!Return(t)
    /\ IF outcome[t] \in Rows!Failure
         THEN Answer(t, "Compile") /\ out' = [out EXCEPT ![t] = {}]
         ELSE Answer(t, "ok") /\ out' = [out EXCEPT ![t] = outcome[t][2]]
    /\ UNCHANGED <<pos, lifecycle, text>>

(* write_mask after the query: cleared again on error, EOS iff accepting.   *)
FinishMask(t) ==
    /\ Rows!Return(t)
    /\ IF outcome[t] \in Rows!Failure
         THEN Answer(t, "Compile") /\ out' = [out EXCEPT ![t] = {}]
         ELSE /\ Answer(t, "ok")
              /\ out' = [out EXCEPT ![t] =
                            outcome[t][2] \cup (IF IsAccepting(engine, pos[t]) THEN {Eos} ELSE {})]
    /\ UNCHANGED <<pos, lifecycle, text>>

(* advance of a session that is stopped.                                    *)
AdvanceStopped(t) ==
    /\ Idle(t) /\ lifecycle[t] = "Stopped"
    /\ Answer(t, "SessionStopped")
    /\ UNCHANGED <<lazyVars, pos, lifecycle, out, text>>

(* advance(EOS): legal where the position accepts; the matcher is not asked. *)
AdvanceEos(t) ==
    /\ Idle(t) /\ lifecycle[t] = "Active"
    /\ IF IsAccepting(engine, pos[t])
         THEN lifecycle' = [lifecycle EXCEPT ![t] = "Stopped"] /\ Answer(t, "ok")
         ELSE UNCHANGED lifecycle /\ Answer(t, "IllegalToken")
    /\ UNCHANGED <<lazyVars, pos, out, text>>

(* Matcher::advance: an id without bytes, or without a path, is illegal.    *)
AdvanceToken(t, tok) ==
    /\ Idle(t) /\ lifecycle[t] = "Active"
    /\ Len(text[t]) < MaxText
    /\ tok # Eos
    /\ IF tok \in Token /\ ConsumeToken(engine, pos[t], TokenBytes[tok]) # Dead
         THEN /\ pos' = [pos EXCEPT ![t] = ConsumeToken(engine, @, TokenBytes[tok])]
              /\ text' = [text EXCEPT ![t] = @ \o TokenBytes[tok]]
              /\ Answer(t, "ok")
         ELSE UNCHANGED <<pos, text>> /\ Answer(t, "Matcher(IllegalToken)")
    /\ UNCHANGED <<lazyVars, lifecycle, out>>

(* reset: a new matcher, and Active again.                                  *)
Reset(t) ==
    /\ Idle(t)
    /\ pos' = [pos EXCEPT ![t] = engine.start]
    /\ lifecycle' = [lifecycle EXCEPT ![t] = "Active"]
    /\ text' = [text EXCEPT ![t] = <<>>]
    /\ Answer(t, "ok")
    /\ UNCHANGED <<lazyVars, out>>

Next ==
    \E t \in Thread :
        \/ WriteMask(t) \/ QueryRow(t) \/ FinishMask(t)
        \/ AdvanceStopped(t) \/ AdvanceEos(t) \/ Reset(t)
        \/ \E tok \in Token \cup ForeignId : AdvanceToken(t, tok)

Spec == Init /\ [][Next]_vars

(* A thread inside write_mask runs until the call returns; OnceLock wakes   *)
(* those who wait for an initialiser.  Nothing obliges a caller to call.    *)
Fairness == \A t \in Thread : WF_vars(QueryRow(t)) /\ WF_vars(FinishMask(t))

FairSpec == Spec /\ Fairness

----------------------------------------------------------------------------
(* The language, by simulation of the raw automaton.                        *)
RawStep(q, b) == IF q = Dead THEN Dead ELSE Raw.edge[<<q, Raw.classOf[b]>>]

RawTrail(q, bytes) ==
    LET at[i \in 0 .. Len(bytes)] == IF i = 0 THEN q ELSE RawStep(at[i - 1], bytes[i])
    IN  at

RawRun(bytes) == RawTrail(Raw.start, bytes)[Len(bytes)]

RawComplete(bytes) == RawRun(bytes) \in Raw.accepting

(* A shortest completion visits no state twice.                             *)
RawViable(bytes) ==
    \E n \in 0 .. Cardinality(RawState) - 1 : \E w \in [1 .. n -> Byte] : RawComplete(bytes \o w)

Promise == INSTANCE Decoder WITH
    Viable <- RawViable, Complete <- RawComplete,
    stopped <- [t \in Thread |-> lifecycle[t] = "Stopped"],
    status <- [t \in Thread |-> IF last[t] = "pending" THEN "filling" ELSE "ready"]

(* Types of the session state and of the rows under it.                     *)
TypeOK ==
    /\ Rows!TypeOK
    /\ pos \in [Thread -> EngineState]
    /\ lifecycle \in [Thread -> {"Active", "Stopped"}]
    /\ out \in [Thread -> SUBSET (Token \cup {Eos})]
    /\ last \in [Thread -> {"ok", "pending", "Compile", "SessionStopped", "IllegalToken",
                            "Matcher(IllegalToken)"}]
    /\ text \in [Thread -> Seq(Byte)]
    /\ \A t \in Thread : last[t] = "pending" <=> qpc[t] # "idle"

(* The sessions keep the promise of Decoder: masks agree with advance and   *)
(* with the language through shared rows, uncached rows and failures.       *)
ImplementsDecoder == Promise!Spec

(* Every mask request returns, although queries wait for one another.       *)
EveryMaskReturns == \A t \in Thread : last[t] = "pending" ~> last[t] # "pending"
=============================================================================
