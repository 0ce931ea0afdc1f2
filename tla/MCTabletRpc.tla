---------------------------- MODULE MCTabletRpc ----------------------------
(* TabletRpc with two nodes.  The scenarios bound what happens beside the  *)
(* calls: elections, epochs, lost frames, Raft messages, route changes.    *)
EXTENDS TabletRpc, TLC

CONSTANTS g, s, c1, c2

TwoPlacements == <<g, s>>

Quiet(one, two, leader) ==
    [calls |-> (c1 :> one @@ c2 :> two), leader |-> leader,
     elections |-> 0, epochs |-> 0, deadlines |-> 1, losses |-> 0, raft |-> 0, routes |-> 0]

\* A command while leadership moves, a frame is lost and two deadlines pass.
Failover == [Quiet("command", "none", s) EXCEPT !.elections = 1, !.losses = 1, !.deadlines = 2]
\* A command while the tablet changes its epoch and the gateway's catalog follows.
Moved == [Quiet("command", "none", s) EXCEPT !.epochs = 1]
\* Two callers and one place in every queue.
Crowded == [Quiet("command", "scan", s) EXCEPT !.deadlines = 0]
\* Heartbeats and appends share the queues, and a group's route comes and goes.
Shared == [Quiet("scan", "none", s) EXCEPT !.raft = 2, !.losses = 1, !.deadlines = 0]
Unrouted == [Quiet("scan", "none", s) EXCEPT !.raft = 1, !.losses = 1, !.routes = 1, !.deadlines = 0]
\* Control requests beside a command and beside each other.
Control == {[Quiet("join", "command", s) EXCEPT !.deadlines = 0], Quiet("metadata", "metadata", s)}
\* The reading calls.
Reading == {[Quiet(kind, "none", g) EXCEPT !.elections = 1, !.epochs = 1] :
                kind \in {"read", "status", "inspect", "scan"}}

AllScenarios == {Failover, Moved, Crowded, Shared, Unrouted} \cup Control \cup Reading
JoinOnly == {Quiet("join", "none", s)}
FailoverOnly == {Failover}
=============================================================================
