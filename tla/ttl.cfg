SPECIFICATION Spec
CONSTANTS
  Keys = {k1, k2, k3}
  Threads = {t1, t2}
  None = None
  Ttl = 1
  MaxTime = 3
SYMMETRY Symmetry
INVARIANTS TypeOK ArenaIsList OldestLast TracksMap PruneRemovesExpired
PROPERTIES KeepsRecency
