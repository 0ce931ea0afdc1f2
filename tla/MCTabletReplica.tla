--------------------------- MODULE MCTabletReplica ---------------------------
(* Instances of TabletReplica for TLC. *)
EXTENDS TabletReplica, TLC

CONSTANTS r1, r2, g1, g2, c1, c2

\* the second command of the session loses against the first
SecondConflicts == {[client |-> c1, sequence |-> 2]}

Sym == Permutations(Gateways)
=============================================================================
