------------------------------ MODULE Decoder ------------------------------
(***************************************************************************)
(* What a Session promises its caller, whichever backend, cache or index   *)
(* serves it: constrained decoding of one formal language.                 *)
(*                                                                         *)
(* A session holds the bytes generated so far.  Its mask is exactly the    *)
(* set of tokens that advance would accept: those after which some         *)
(* completion is still a word of the language, and EOS where the bytes are *)
(* a word already.  A mask request may take time and may fail, and then    *)
(* leaves the caller's buffer empty; a refused token changes nothing.      *)
(***************************************************************************)
EXTENDS Sequences

CONSTANTS
    Thread,         \* each drives one session
    TokenBytes,     \* token id -> its bytes
    Eos,            \* the id of the end-of-sequence token
    Viable(_),      \* these bytes have a completion in the language
    Complete(_)     \* these bytes are a word of the language

VARIABLES
    text,           \* the bytes generated so far
    stopped,        \* EOS was committed
    out,            \* the caller's mask buffer
    status          \* "ready", or "filling" while a mask is being computed

vars == <<text, stopped, out, status>>

Allowed(bytes) ==
    {tok \in DOMAIN TokenBytes : Viable(bytes \o TokenBytes[tok])}
        \cup (IF Complete(bytes) THEN {Eos} ELSE {})

Init ==
    /\ text = [t \in Thread |-> <<>>]
    /\ stopped = [t \in Thread |-> FALSE]
    /\ out = [t \in Thread |-> {}]
    /\ status = [t \in Thread |-> "ready"]

(* A mask request clears the buffer; a stopped session offers EOS only.     *)
MaskBegins(t) ==
    /\ status[t] = "ready"
    /\ \/ /\ stopped[t]
          /\ out' = [out EXCEPT ![t] = {Eos}]
          /\ UNCHANGED status
       \/ /\ ~stopped[t]
          /\ out' = [out EXCEPT ![t] = {}]
          /\ status' = [status EXCEPT ![t] = "filling"]
    /\ UNCHANGED <<text, stopped>>

(* It ends with the full mask, or with an error and the buffer cleared.     *)
MaskEnds(t) ==
    /\ status[t] = "filling"
    /\ status' = [status EXCEPT ![t] = "ready"]
    /\ \/ out' = [out EXCEPT ![t] = Allowed(text[t])]
       \/ UNCHANGED out
    /\ UNCHANGED <<text, stopped>>

Commit(t) ==
    /\ status[t] = "ready" /\ ~stopped[t]
    /\ \/ /\ \E tok \in (DOMAIN TokenBytes \cap Allowed(text[t])) \ {Eos} :
                text' = [text EXCEPT ![t] = @ \o TokenBytes[tok]]
          /\ UNCHANGED stopped
       \/ /\ Complete(text[t])
          /\ stopped' = [stopped EXCEPT ![t] = TRUE]
          /\ UNCHANGED text
    /\ UNCHANGED <<out, status>>

Reset(t) ==
    /\ status[t] = "ready"
    /\ text' = [text EXCEPT ![t] = <<>>]
    /\ stopped' = [stopped EXCEPT ![t] = FALSE]
    /\ UNCHANGED <<out, status>>

Next == \E t \in Thread : MaskBegins(t) \/ MaskEnds(t) \/ Commit(t) \/ Reset(t)

Spec == Init /\ [][Next]_vars
=============================================================================
