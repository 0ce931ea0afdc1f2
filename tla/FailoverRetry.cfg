\* Two replicas that can lead, a change of leader and a restart, one session with two
\* requests, each sent through two gateways.
CONSTANTS
    r1 = r1  r2 = r2  g1 = g1  g2 = g2  c1 = c1  c2 = c2
    Clients = {c1}
    Acknowledging = {c1}
    MaxSequence = 2
    Conflicting <- SecondConflicts
    Replicas = {r1, r2}
    Gateways = {g1, g2}
    FirstLeader = r1
    MaxTerm = 2
    MaxLog = 4
    MaxRestarts = 1
SPECIFICATION Spec
INVARIANTS AtMostOnce AnswerIsOriginal ReplicasAgree ServingLeaderKnowsAnswers WaiterMeetsItsEntry
PROPERTY NoLiveRequestExpires
SYMMETRY Sym
CHECK_DEADLOCK FALSE
