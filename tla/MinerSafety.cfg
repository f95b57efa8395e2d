CONSTANTS
  t1 = t1
  t2 = t2
  Threads = {t1, t2}
  NonceSpace = 4
  Batch = 2
  CounterSpace = 4
  ChannelCap = 1
  Solutions <- MCSolutions
  MaxTemplates = 2
SPECIFICATION Spec
SYMMETRY Symmetry
INVARIANTS BlocksSolveTheirTemplate NoFoundBlockIsLost
           BoundedStaleness SyncedMeansTemplate HashesAreCounted
           MinerInvariant
PROPERTIES ImplementsPool
CHECK_DEADLOCK FALSE
