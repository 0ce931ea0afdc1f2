\* Placement edits, removals, retirements and restarts on three nodes
CONSTANTS
    None = None
    Domains = {}
    InitialReplicationFactor = 2
    Nodes <- MCNodes
    Bootstrap <- MCBootstrap
    Scenarios <- MCScenarios
SPECIFICATION Spec
INVARIANTS
    TombstoneIsAuthorized
    MemberHasIdentity
    GoneNodeIsEmpty
CHECK_DEADLOCK FALSE
