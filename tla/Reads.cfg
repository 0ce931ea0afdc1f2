CONSTANTS
    n1 = n1
    n2 = n2
    n3 = n3
    w1 = w1
    w2 = w2
    r1 = r1
    r2 = r2
    Nodes = {n1, n2, n3}
    Reactors = {n1, n2}
    First = n1
    Scenarios <- MCScenarios
    MaxWaiters = 2
    RequestBudget = 2
    BatchLimit = 2
    Capacity = 2
SPECIFICATION Spec
INVARIANTS
    BarrierReadsAreFresh
    RequestsAreNeverLost
    
CHECK_DEADLOCK FALSE
