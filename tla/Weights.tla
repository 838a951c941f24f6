------------------------------ MODULE Weights ------------------------------
(***************************************************************************)
(* The total of a quantity over a finite set, as the number of its units:  *)
(* element x of S contributes the f[x] pairs <<x, 1>> .. <<x, f[x]>>.      *)
(* Byte accounting is stated with it because a cardinality, unlike a fold, *)
(* can be reasoned about for arbitrary sets with the finite-set theorems.  *)
(***************************************************************************)
EXTENDS Integers, FiniteSets

Units(f, S) == UNION {{x} \X (1 .. f[x]) : x \in S}

Weight(f, S) == Cardinality(Units(f, S))
=============================================================================
