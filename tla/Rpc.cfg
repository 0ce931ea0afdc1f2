SPECIFICATION Spec
CONSTANTS
    g = g
    s = s
    c1 = c1
    c2 = c2
    NoNode = NoNode
    Nodes = {g, s}
    Gateway = g
    Placement <- TwoPlacements
    Callers = {c1, c2}
    Scenarios <- AllScenarios
    MaxQueue = 2
    MaxQueueBytes = 3
    MaxInbound = 1
    MaxBatch = 2
    MaxTabletRpcs = 1
    MaxControlRpcs = 1
    MaxMailbox = 1
    MaxAttempts = 3
    MaxReadAttempts = 3
INVARIANTS OwnAnswers AnswersAreTrue AttemptsAreTracked
CHECK_DEADLOCK FALSE
