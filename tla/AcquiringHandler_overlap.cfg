SPECIFICATION AcqSpec
CONSTANTS
    Reqs = {r1, r2}
    Events <- OneState
    i1 = i1
    i2 = i2
    d1 = d1
    d2 = d2
    s1 = s1
    s2 = s2
    Unknown = {}
    Malformed = {}
    None = None
    NoId = NoId
    NoDate = NoDate
    capacity = 3
    Durable = TRUE
    MaxAges = {0}
    MinRefresh = 2
    RetryGap = 1
    MaxFetch = 1
    MaxTime = 1
    MaxDeliveries = 2
    MaxRotations = 0
    MaxFailures = 0
    MaxRestarts = 0
    MaxStrays = 0
SYMMETRY Symmetry
INVARIANTS OnceAlways
CHECK_DEADLOCK FALSE
