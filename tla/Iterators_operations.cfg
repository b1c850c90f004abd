SPECIFICATION IteratorsSpec
CONSTANTS
    Times = {1, 2, 3}
    MaxRows = 4
    MaxBooked = 0
    StatementMaxRows = 2
    MaxStatementWindow = 2
    NoTime = NoTime
INVARIANTS OperationsComplete
CHECK_DEADLOCK FALSE
