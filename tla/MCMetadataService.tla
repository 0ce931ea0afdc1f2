------------------------- MODULE MCMetadataService -------------------------
(* MetadataService on a cluster of three nodes in two zones. *)
EXTENDS MetadataService

MCDomains == {"zone"}

Node(n, zone, life) == [life |-> life, labels |-> [d \in {"zone"} |-> zone], class |-> "ssd", ends |-> {n}]

Columns == <<[id |-> 1, nullable |-> FALSE]>>

Wider == <<[id |-> 1, nullable |-> FALSE], [id |-> 2, nullable |-> TRUE]>>

Register(n, zone) == [kind |-> "register_node", id |-> n, node |-> Node(n, zone, "active")]

Topology(name) == [kind |-> "topology", name |-> name, columns |-> Columns, key |-> {1}]

MCBootstrap == <<[kind |-> "init", cluster |-> "c1"], Register(1, "a"), Register(2, "a")>>

MCRequests ==
    [node3 |-> Register(3, "b"),
     open  |-> [kind |-> "register_client", client |-> 1, epoch |-> 0],
     renew |-> [kind |-> "renew_client", client |-> 1, epoch |-> 1, acked |-> 1],
     table |-> Topology("t"),
     wider |-> [kind |-> "schema", expected |-> 1,
                table |-> [id |-> 2, name |-> "t", columns |-> Wider, key |-> {1},
                           version |-> 2, count |-> 1]]]

=============================================================================
