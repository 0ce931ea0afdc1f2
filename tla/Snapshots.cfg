CONSTANTS
    r1 = r1
    r2 = r2
    Replicas = {r1, r2}
    MaxIndex = 2
    MaxRetries = 1
    MaxRestarts = 1
    MaxReceives = 1
    MaxStreams = 1
    Interval = 1
SYMMETRY MCSymmetry
SPECIFICATION Spec
INVARIANTS
    AcknowledgedSnapshotsSurvive
    PendingInstallIsTheAcceptedOne
PROPERTY
    TabletNeverRegresses
CHECK_DEADLOCK FALSE
