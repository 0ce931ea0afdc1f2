-------------------------- MODULE MCDistributedTxn --------------------------
(***************************************************************************)
(* Instances of DistributedTxn for TLC.                                    *)
(***************************************************************************)
EXTENDS DistributedTxn

CONSTANTS a, b, n1, n2

\* two tablets; keys 1 and 3 share one
Tablets == [k \in Keys |-> IF k = 2 THEN 2 ELSE 1]

\* a writes both tablets, b one key of tablet 2 (a one-tablet commit)
BothAndSingle == [t \in Txns |-> IF t = a THEN {1, 2} ELSE {2}]

FirstOneTwo == [t \in Txns |-> IF t = a THEN 1 ELSE 2]

\* one SQL node and its oracle
OneNode == [t \in Txns |-> n1]
OneRange == [n \in Nodes |-> 1..4]

\* both write both tablets and share key 2, which is the primary of b; two SQL
\* nodes, each with a reserved range of its own
Crossing == [t \in Txns |-> IF t = a THEN {1, 2} ELSE {2, 3}]
TwoNodes == [t \in Txns |-> IF t = a THEN n1 ELSE n2]
TwoRanges == [n \in Nodes |-> IF n = n1 THEN {1, 2} ELSE {3, 4}]

\* key 1 is updated, key 2 is deleted
DeleteTwo == {<<t, 2>> : t \in Txns}
=============================================================================
