---------------------------- MODULE MCTrieCache ----------------------------
(* Model-checking instances of TrieCache: the builds of k1 and k2 cannot    *)
(* pass the gate together, and k3 is refused by it outright.                *)
EXTENDS TrieCache, TLC

CONSTANTS k1, k2, k3

MCSize == [k \in Key |-> IF k = k1 THEN 1 ELSE 2]
MCCandidate == [k \in Key |-> k]
MCEstimate == [k \in Key |-> CASE k = k1 -> 1 [] k = k2 -> 2 [] k = k3 -> 3]
MCGatePolicy == [conc |-> 2, budget |-> 2]
MCSymmetry == Permutations(Thread)
=============================================================================
