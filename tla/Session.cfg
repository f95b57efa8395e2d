\* Two connections and three counted requests on each, windows of three of which
\* one is due; one thread, which fills the channel as well as several.
CONSTANTS
  MaxConns = 2
  NumThreads = 1
  ChannelCap = 3
  HasDevfund = TRUE
  Window = 3
  DevfundPercent = 0
  MaxRequests = 3
  MaxTotal = 8
SPECIFICATION FairSpec
INVARIANTS SessionInvariant SlotFollowsAnswers DevfundIsAhead
PROPERTIES HandshakeCompletes NotificationsAreAnswered LostStreamIsLeft
           ConnsArePools
CHECK_DEADLOCK FALSE
