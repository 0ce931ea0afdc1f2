\* Two nodes whose commands are applied in the order they were sent, or lost.
CONSTANTS
    Nodes = {n1, n2}
    Readers = {n1}
    Lease = 4
    StatusLease = 3
    Skew = 1
    ReservationSize = 1
    Overtaking = FALSE
    MaxTime = 5
    MaxTimestamp = 3
    MaxLate = 1
    MaxRestarts = 1
    None = None
SPECIFICATION Spec
INVARIANTS  IdleFloorIsTimed
PROPERTY SafePointMonotone
CHECK_DEADLOCK FALSE
