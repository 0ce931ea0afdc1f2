\* Client requests, node lifecycles, placement edits and snapshots on three nodes
CONSTANTS
    None = None
    Domains <- MCDomains
    InitialReplicationFactor = 2
    Requests <- MCRequests
    Bootstrap <- MCBootstrap
    Nodes = {1, 3}
    Leaving = {1}
    MaxEpoch = 3
    MaxReplicaId = 3
SPECIFICATION Spec
INVARIANTS
    RestoredReplicaAgrees
    RetryReturnsOriginal
    GoneNodeOwesNothing
CHECK_DEADLOCK FALSE
