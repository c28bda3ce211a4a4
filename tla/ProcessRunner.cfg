CONSTANTS
  Pipes = {out, err}
  Capacity = 2
  Chunk = 1
  Rounds = 2
  Emitted = 1
  MaxWritten = 2
SPECIFICATION FairSpec
INVARIANTS SignalsOwnGroup AnswerIsWhole VerdictIsFair
PROPERTIES RunnerReturns
CHECK_DEADLOCK FALSE
