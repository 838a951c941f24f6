---------------------------- MODULE MCBuildGate ----------------------------
(* Model-checking instance of BuildGate: three callers, a configured policy *)
(* of two permits and three bytes, and a tighter default.                   *)
EXTENDS BuildGate, TLC

MCPolicy == {[conc |-> 2, budget |-> 3], [conc |-> 0, budget |-> 3]}
MCDefault == [conc |-> 1, budget |-> 2]
=============================================================================
