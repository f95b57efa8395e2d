CONSTANTS
  MaxConns = 2
  NumThreads = 2
  ChannelCap = 3
  HasDevfund = TRUE
  Window = 3
  DevfundPercent = 0
  MaxRequests = 3
  MaxTotal = 8
SPECIFICATION Spec
INVARIANTS NoMoreThanNumThreads
CHECK_DEADLOCK FALSE
