SPECIFICATION Spec
CONSTANTS
  Calls = {c1, c2, r1, r2}
  CoopCalls = {c1, c2}
  RaceCalls = {r1, r2}
  Keys = {k1}
  ShardOf <- MCShards
  Ext = Ext
  None = None
  Usage = {"insert", "cancel", "err", "init_panic", "migrate"}
SYMMETRY CallSymmetry
INVARIANTS SingleWorker CountedFindNode NoneUncounted OneComputedValue
