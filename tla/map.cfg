SPECIFICATION FairSpec
CONSTANTS
  k1 = k1
  k2 = k2
  Keys = {k1, k2}
  Hash <- MCHash
  Values = {v1, v2}
  Threads = {t1, t2}
  MapBuilders <- MCBuilders
  Cores = 1
  None = None
INVARIANTS TypeOK OneEntryPerKey Preallocated
PROPERTIES LenBounds ImplementsAtomicMap ReturnsUnlessNested
CHECK_DEADLOCK FALSE
