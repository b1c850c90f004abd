SPECIFICATION FairSpec
CONSTANTS
  Callers = {c1, c2}
  Everys = {0, 2}
  Bursts = {0, 2}
  MaxTime = 14
  LastCall = 3
  MaxLate = 1
  MaxCalls = 2
INVARIANTS TypeOK RateBound Allowance NoOversleep
PROPERTIES WaitReturns
CHECK_DEADLOCK FALSE
