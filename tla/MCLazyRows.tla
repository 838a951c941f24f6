----------------------------- MODULE MCLazyRows -----------------------------
(* Three queries of three rows, of which the budget holds two, under a gate *)
(* that admits two walks at a time.                                         *)
EXTENDS LazyRows, TLC

CONSTANTS q1, q2, q3

MCState == {q1, q2, q3}
MCMaskOf == [s \in MCState |-> CASE s = q1 -> {1, 2} [] s = q2 -> {2} [] s = q3 -> {}]
MCServingPolicy == [conc |-> 2, budget |-> 4]
MCSymmetry == Permutations(Thread)
=============================================================================
