CONSTANTS
  t1 = t1
  t2 = t2
  Threads = {t1, t2}
  NonceSpace = 2
  Batch = 2
  CounterSpace = 2
  ChannelCap = 1
  Solutions <- MCOneSolution
  MaxTemplates = 2
SPECIFICATION FairSpec
PROPERTIES ChangesReachThreads ShutdownStopsMining
CHECK_DEADLOCK FALSE
