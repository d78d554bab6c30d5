------------------------- MODULE MCGroupReconciler -------------------------
(* Model-checking instance of GroupReconciler: two ingresses, one or two  *)
(* groups, and small bounds on user edits, API errors and crashes.        *)
EXTENDS GroupReconciler, TLC

CONSTANTS i1, i2, g1, g2

MCIng == {i1, i2}
MCGroups1 == {g1}
MCGroups2 == {g1, g2}

MCSymmetry == Permutations(MCIng)
=============================================================================
