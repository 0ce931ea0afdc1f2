------------------------- MODULE MCTabletSnapshots -------------------------
(* Two followed replicas of a larger group; either may do what the other does. *)
EXTENDS TabletSnapshots, TLC

CONSTANTS r1, r2

MCSymmetry == Permutations({r1, r2})
=============================================================================
