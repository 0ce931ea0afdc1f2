---------------------------- MODULE MCTabletReads ----------------------------
(* Three voters, two reactors, and the requests of each scenario. *)
EXTENDS TabletReads, TLC

CONSTANTS n1, n2, n3, w1, w2, r1, r2

\* two leaders, one write, reads that share a barrier; no deadline passes
MCFailover == [kind |-> (w1 :> "write" @@ r1 :> "rpc" @@ r2 :> "rpc"), timed |-> {},
               refusals |-> {FALSE}, terms |-> 2, indexes |-> 3]

\* two leaders, one write, and a read whose deadline may pass
MCDeadlines == [kind |-> (w1 :> "write" @@ r1 :> "rpc"), timed |-> {r1},
                refusals |-> {FALSE}, terms |-> 2, indexes |-> 4]

\* one leader: commands around a read, a deadline, a core that refuses ReadIndex
MCBatches == [kind |-> (w1 :> "write" @@ w2 :> "write" @@ r1 :> "rpc"),
              timed |-> {w2}, refusals |-> {TRUE}, terms |-> 1, indexes |-> 4]

\* one leader: reads that share a barrier fall back to the log
MCFallbacks == [kind |-> (r1 :> "handle" @@ r2 :> "rpc"), timed |-> {r1, r2},
                refusals |-> {FALSE}, terms |-> 1, indexes |-> 4]

MCScenarios == {MCFailover, MCDeadlines, MCBatches, MCFallbacks}
MCFailovers == {MCFailover}
=============================================================================
