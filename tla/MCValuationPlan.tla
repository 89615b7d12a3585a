--------------------------- MODULE MCValuationPlan ---------------------------
(* Every plan of at most four vertices over two market sources. *)
EXTENDS ValuationPlan, TLC

CONSTANTS n1, n2, n3, n4, s1, s2

MCName == {n1, n2, n3, n4}
MCSource == {s1, s2}

Symmetry == Permutations(MCName) \cup Permutations(MCSource)
=============================================================================
