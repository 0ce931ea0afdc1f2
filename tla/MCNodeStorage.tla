---------------------------- MODULE MCNodeStorage ----------------------------
(* The instances of NodeStorage that TLC checks.  Each scenario exercises one
   part of the node on a log short enough to enumerate. *)
EXTENDS NodeStorage

CONSTANT r1

MCScenarios == {
    \* one replica: torn batches, snapshots, a restart
    [groups |-> {r1}, database |-> FALSE, checkpoints |-> FALSE, snapshots |-> TRUE,
     retire |-> FALSE, records |-> 4, indexes |-> 3, terms |-> 2, crashes |-> 1],
    \* the database alone: publications cut by crashes, segments removed
    [groups |-> {}, database |-> TRUE, checkpoints |-> TRUE, snapshots |-> FALSE,
     retire |-> FALSE, records |-> 6, indexes |-> 0, terms |-> 0, crashes |-> 2],
    \* both on one log, long enough for segments to be removed
    [groups |-> {r1}, database |-> FALSE, checkpoints |-> TRUE, snapshots |-> TRUE,
     retire |-> TRUE, records |-> 6, indexes |-> 1, terms |-> 1, crashes |-> 0]}

\* a replica and the checkpoints that let its segments go
MCPruning == {
    [groups |-> {r1}, database |-> FALSE, checkpoints |-> TRUE, snapshots |-> TRUE,
     retire |-> FALSE, records |-> 7, indexes |-> 2, terms |-> 1, crashes |-> 0]}
=============================================================================
