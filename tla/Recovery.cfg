\* A distributed and a one-tablet transaction, every tablet led by another node than
\* the coordinator's: safety, refinement, and progress of recovery.
CONSTANTS
    a = a  b = b  n1 = n1  n2 = n2  None = None
    Txns = {a, b}
    Keys = {1, 2}
    Deletes <- DeleteTwo
    WriteSet <- BothAndSingle
    Primary <- FirstOneTwo
    TabletOf <- Tablets
    Nodes = {n1}
    NodeOf <- OneNode
    NodeTimestamps <- OneRange
    RemoteTablets = TRUE
SPECIFICATION RecoverySpec
INVARIANTS ReportedCommitIsReal CommittedIntentResolvable
PROPERTIES ImplementsAtomicCommit IntentsGoAway
CHECK_DEADLOCK FALSE
