SPECIFICATION Spec
CONSTANTS
  W = 9
  minBackoffFloor = 2
  maxRetryAfter = 384
  Second = 32
  defaultBaseDelay = 20
  defaultMaxDelay = 300
  Nil = Nil
  Bases = {0, 1, 3, 17, 129, 255, 257, 511}
  Ceilings = {0, 1, 2, 7, 256, 510, 511}
  Attempts = {0, 1, 2, 3, 5, 7, 8, 9, 10}
  Numbers = {0, 1, 11, 12, 13, 15, 16, 17, 31, 32, 33, 63}
  Names = {n1, n2, n3, n4, n5}
  NoId = empty
  capacity = 3
  MaxOptions = 3
  Objects = {mine, other}
  RetryAttempts = {0, 3}
  RetryDelays = {0, 1, 3}
  Magnitudes = {0, 1, 2, 7, 22, 23, 99, 100, 255, 256, 257, 511}
  Digits = {0, 1, 2, 5}
  Decimals = {0, 1, 2}
  IntDigits = 3
  FracDigits = 2
  LongFrac = 3
  Minus = Minus
  Bad = Bad
  Lengths = {0, 1, 2, 4, 5, 6, 7, 12}
INVARIANTS EqualJitter HintSurvives NoInstantRetry BaseURLGuard AsConfigured ExactOrOverflow ParseExact Redacted CurrencyAttached RecentRemembered
CHECK_DEADLOCK FALSE
