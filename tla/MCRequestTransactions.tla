------------------------ MODULE MCRequestTransactions ------------------------
(* Two calls at a time, two answers, a proposal for each of them.  *)
EXTENDS RequestTransactions, TLC

CONSTANTS k1, k2, s1, s2, p1, p2

SlotOfDef == (p1 :> s1) @@ (p2 :> s2)

Symmetry == Permutations(Calls)
=============================================================================
