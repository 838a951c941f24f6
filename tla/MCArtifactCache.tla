-------------------------- MODULE MCArtifactCache --------------------------
(* Model-checking instances of the ArtifactCache: keys k1 and k2 have the   *)
(* same hash candidate, and k3 alone exceeds the budget.                    *)
EXTENDS SingleFlightLru, TLC

CONSTANTS k1, k2, k3

MCSize == [k \in Key |-> CASE k = k1 -> 1 [] k = k2 -> 2 [] k = k3 -> 4]
MCCandidate == [k \in Key |-> IF k = k3 THEN "d" ELSE "c"]
MCSymmetry == Permutations(Thread)
=============================================================================
