CONSTANTS
    metadata = metadata
    tablet = tablet
    None = None
    Groups <- MCGroups
    Tablets <- MCTablets
    Passive = {}
    Identities <- MCIdentities
    Recovered <- MCRecovered
    MaxGroupQueue = 1
    MaxQueue = 2
    GroupBudget = 2
    MessageBudget = 1
    MaxStaged = 1
    MaxArrivals = 2
    MaxGenerations = 2
    MaxFaults = 1
SPECIFICATION FairSpec
INVARIANTS
    WorkIsScheduled
    SentIsDurable
    NothingLeftBehind
PROPERTIES
    GenerationIsAnswered
CHECK_DEADLOCK FALSE
