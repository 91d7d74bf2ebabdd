SPECIFICATION FairSpec
CONSTANTS
  MaxRequests = 2
  MaxTakeovers = 2
  MaxConns = 1
  MaxMoves = 3
  NoRun = NoRun
  NoPending = NoPending
  NoReply = NoReply
PROPERTIES
  AnswersCome
CHECK_DEADLOCK FALSE
