\* Three handles (a publisher and two readers, in any roles) and five
\* addresses, so that an allocation never fails and addresses are reused.
CONSTANTS
  h1 = h1
  h2 = h2
  h3 = h3
  a1 = a1
  a2 = a2
  a3 = a3
  a4 = a4
  a5 = a5
  Handles = {h1, h2, h3}
  Addrs = {a1, a2, a3, a4, a5}
  Null = Null
  Free = Free
  MaxPublish = 3
SPECIFICATION Spec
SYMMETRY Symmetry
INVARIANTS NoLostWakeup SwapInvariant
PROPERTIES CachedContentIsStable ImplementsRegister
