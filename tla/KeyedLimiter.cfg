SPECIFICATION Spec
CONSTANTS
  Callers = {c1, c2}
  Keys = {dflt, acc}
  DefaultKey = dflt
  Watched = acc
  NoKey = nokey
  Buckets = {1, 2, 3, 4}
  NoBucket = 0
  Everys = {0, 1}
  Burst = 1
  IdleTTL = 2
  Second = 1
  NoTick = notick
  MaxTime = 4
  LastCall = 4
  MaxCalls = 2
  MaxLate = 0
SYMMETRY Symmetry
INVARIANTS PerKeyRate IdleBound
CHECK_DEADLOCK FALSE
