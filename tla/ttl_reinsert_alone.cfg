SPECIFICATION Spec
CONSTANTS
  Keys = {k1, k2}
  Threads = {t1}
  None = None
  Ttl = 1
  MaxTime = 4
SYMMETRY Symmetry
INVARIANTS PruneLeavesFresh
