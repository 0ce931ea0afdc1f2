-------------------------- MODULE MCTimestampOracle --------------------------
(* Instances of TimestampOracle for TLC. *)
EXTENDS TimestampOracle, TLC

CONSTANTS n1, n2, t1, t2, t3, MaxIssued

\* two SQL nodes, one request handler each
TwoNodes == {n1, n2}
TwoHome  == (t1 :> n1) @@ (t2 :> n2)

\* bound on the history
IssuedBound == Len(issued) <= MaxIssued
=============================================================================
