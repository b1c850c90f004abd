SPECIFICATION Spec
CONSTANTS
    Reqs = {r1, r2}
    Events = {e1, e2, e3, e4}
    Unknown = {}
    Malformed = {e4}
    Anonymous = {e3}
    None = None
    NoId = NoId
    capacity = 2
    Durable = TRUE
    MinRefresh = 1
    RetryGap = 1
    MaxFetch = 1
    MaxTime = 1
    MaxDeliveries = 2
    MaxRotations = 0
    MaxFailures = 0
    MaxRestarts = 1
    MaxStrays = 0
SYMMETRY Symmetry
INVARIANTS AckedWasProcessed OnceIfSequential
CHECK_DEADLOCK FALSE
