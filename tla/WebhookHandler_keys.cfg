SPECIFICATION FairSpec
CONSTANTS
    Reqs = {r1, r2}
    Events = {e1}
    Unknown = {e1}
    Malformed = {}
    Anonymous = {}
    None = None
    NoId = NoId
    capacity = 1
    Durable = FALSE
    MinRefresh = 1
    RetryGap = 1
    MaxFetch = 1
    MaxTime = 3
    MaxDeliveries = 2
    MaxRotations = 1
    MaxFailures = 1
    MaxRestarts = 0
    MaxStrays = 1
INVARIANTS OutageBounded
PROPERTIES KeyNeverGoesBack PausedAfterSuccess Answered
CHECK_DEADLOCK FALSE
