------------------------- MODULE MCReplicaLifecycle -------------------------
(* ReplicaLifecycle on three nodes; the group starts on nodes 1 and 2. *)
EXTENDS ReplicaLifecycle

MCNodes == {1, 2, 3}

Register(n) == [kind |-> "register_node", id |-> n,
                node |-> [life |-> "active", labels |-> NoEntries, class |-> "ssd", ends |-> {n}]]

MCBootstrap ==
    <<[kind |-> "init", cluster |-> "c1"], Register(1), Register(2), Register(3),
      [kind |-> "topology", name |-> "t", columns |-> <<[id |-> 1, nullable |-> FALSE]>>, key |-> {1}]>>

Voter(r, n) == [id |-> r, node |-> n, role |-> "voter"]

Shrunk == [factor |-> 1, replicas |-> {Voter(1, 1)}]
Regrown == [factor |-> 2, replicas |-> {Voter(1, 1), Voter(2, 2)}]
Moved == [factor |-> 2, replicas |-> {Voter(1, 1), Voter(3, 3)}]

(* Shrinking, growing again and draining race; a voter moves and a node crashes. *)
MCScenarios ==
    {[edits |-> {Shrunk, Regrown}, leaving |-> {2}, crashing |-> {2}, inputs |-> 3, versions |-> 3],
     [edits |-> {Moved, Regrown}, leaving |-> {}, crashing |-> {3}, inputs |-> 2, versions |-> 3]}

MCMove == {[edits |-> {Moved}, leaving |-> {}, crashing |-> {}, inputs |-> 1, versions |-> 2]}
=============================================================================
