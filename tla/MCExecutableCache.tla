------------------------- MODULE MCExecutableCache -------------------------
(* Model-checking instances of ExecutableCache: two inputs that lower to    *)
(* the same IR, and whose first shares its digest with that IR.             *)
EXTENDS ExecutableCache, TLC

CONSTANTS a1, a2, a3, i1, i2

MCLower == [k \in Input |-> IF k = a3 THEN i2 ELSE i1]
MCDigest == [k \in Key |-> IF k \in {a1, a3, i1} THEN "d" ELSE "e"]
MCSize == [k \in Key |-> IF k \in Ir THEN 2 ELSE 1]
MCSymmetry == Permutations(Thread)
=============================================================================
