SPECIFICATION Spec
CONSTANTS
  Keys = {k1, k2, k3}
  Threads = {t1, t2}
  None = None
  Capacity = 2
  Ttl = 1
  MaxTime = 2
SYMMETRY Symmetry
INVARIANTS TypeOK ArenaIsList QueueAgrees TracksMap PruneRemovesExpired WithinCapacity
PROPERTIES KeepsRecency
