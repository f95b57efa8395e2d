\* Three handles (two that wait and one that publishes, or one that waits and
\* two that publish) and one publication, which may be the first value, be
\* cleared, and follow or precede any number of clearings: enough for a wake-up
\* that is missed, or that comes when the value is gone again.
CONSTANTS
  h1 = h1
  h2 = h2
  h3 = h3
  a1 = a1
  a2 = a2
  Handles = {h1, h2, h3}
  Addrs = {a1, a2}
  Null = Null
  Free = Free
  MaxPublish = 1
SPECIFICATION FairSpec
PROPERTIES WaiterReturns SwapReturns
