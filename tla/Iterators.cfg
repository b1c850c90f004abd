SPECIFICATION IteratorsSpec
CONSTANTS
    Times = {1, 2, 3, 4}
    MaxRows = 7
    MaxBooked = 1
    StatementMaxRows = 3
    MaxStatementWindow = 2
    NoTime = NoTime
INVARIANTS YieldedOnce RangeComplete ListComplete
PROPERTIES Ends
CHECK_DEADLOCK FALSE
