--------------------------- MODULE MCSweepTrigger ---------------------------
(***************************************************************************)
(* Three launches over one interval and a bit: two that race and a third   *)
(* that comes an interval after one of them.                               *)
(***************************************************************************)
EXTENDS SweepTrigger, TLC

CONSTANTS l1, l2, l3

Symmetry == Permutations({l1, l2, l3})
=============================================================================
