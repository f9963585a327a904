----------------------------- MODULE MCGoalLoop -----------------------------
(***************************************************************************)
(* One or two objectives, and as many loops as can be alive at once: the   *)
(* one that drives and one that was told to stop.                          *)
(***************************************************************************)
EXTENDS GoalLoop, TLC

CONSTANTS g1, g2, l1, l2

Symmetry == Permutations(Goals) \union Permutations(Loops)
=============================================================================
