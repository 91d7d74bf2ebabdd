SPECIFICATION Spec
CONSTANTS
  MaxRequests = 2
  MaxTakeovers = 2
  MaxConns = 2
  MaxMoves = 3
  NoRun = NoRun
  NoPending = NoPending
  NoReply = NoReply
INVARIANT
  HumanStepsNeverExecuted
CHECK_DEADLOCK FALSE
