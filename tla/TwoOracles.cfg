\* Two SQL nodes, each with its own oracle over one metadata frontier.
CONSTANTS
    n1 = n1  n2 = n2  t1 = t1  t2 = t2  t3 = t3
    None = None
    Nodes <- TwoNodes
    Threads = {t1, t2}
    Home <- TwoHome
    MetadataLeader = n1
    ReservationSize = 2
    PrefetchThreshold = 0
    MaxFrontier = 4
    MaxIssued = 3
SPECIFICATION Spec
INVARIANT NeverReused
CONSTRAINT IssuedBound
