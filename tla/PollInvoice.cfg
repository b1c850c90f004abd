SPECIFICATION MCFairSpec
CONSTANTS
  Pollers = {p1, p2}
  Impatient = p1
  Patient = p2
  defaultPollInterval = 3
  minPollInterval = 2
  Options <- MCOptions
  Moves <- MCMoves
  MaxAttempts = 2
  MaxTime = 3
  MaxPolls <- MCMaxPolls
  Cancelable = {p2}
  Responses = {"same", "other"}
  None = None
INVARIANTS ResultIsReal SpansSound
PROPERTIES PollSpacing PollEnds
CHECK_DEADLOCK FALSE
