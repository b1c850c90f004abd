SPECIFICATION AcqSpec
CONSTANTS
    Reqs = {r1, r2}
    Events <- States
    i1 = i1
    i2 = i2
    d1 = d1
    d2 = d2
    s1 = s1
    s2 = s2
    Unknown = {}
    Malformed <- Unreadable
    None = None
    NoId = NoId
    NoDate = NoDate
    capacity = 1
    Durable = FALSE
    MaxAges = {0, 1}
    MinRefresh = 1
    RetryGap = 2
    MaxFetch = 1
    MaxTime = 2
    MaxDeliveries = 2
    MaxRotations = 1
    MaxFailures = 1
    MaxRestarts = 1
    MaxStrays = 1
CONSTRAINT Focus
SYMMETRY Symmetry
INVARIANTS RefusedForReason AckedStateProcessed
CHECK_DEADLOCK FALSE
