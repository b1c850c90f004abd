SPECIFICATION MCFairSpec
CONSTANTS
  Calls = {c1, c2}
  Alone = c1
  Other = c2
  Ops = {o1, o2}
  First = o1
  Second2 = o2
  Methods = {"GET", "POST", "PUT", "DELETE", "TRACE"}
  Attempts = {0, 2, 3}
  Bodies = {"none", "replayable", "stream"}
  baseDelay = 2
  maxDelay = 3
  Hints = {5}
  None = None
  W = 6
  minBackoffFloor = 1
  maxRetryAfter = 48
  Second = 1
INVARIANTS AddsOnce TokenPerAttempt BodyIntact HintOrCeiling SignatureAge
PROPERTIES KeepsPromise CanceledReturns
CHECK_DEADLOCK FALSE
