SPECIFICATION Spec
CONSTANTS
    a = a
    b = b
    Sessions = {a, b}
    Keys = {1, 2, 3}
    PageRows = 1
    Scenarios <- AllScenarios
    HeartbeatBatch = 1
    MaxTxns = 3
    MaxTopologyRefreshes = 1
    MaxRouteRefreshes = 1
    MaxIntentResolutions = 2
INVARIANTS
    
    PinsFollowOwners
    ReservationsAreCommits
    PendingIsOwned
PROPERTY
    DecidedLeaveRegistry
CHECK_DEADLOCK FALSE
