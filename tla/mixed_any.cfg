SPECIFICATION FairSpec
CONSTANTS
  Calls = {c1, r1, r2}
  CoopCalls = {c1}
  RaceCalls = {r1, r2}
  Keys = {k1}
  ShardOf <- MCShards
  Ext = Ext
  None = None
  Usage = {"insert", "remove", "cancel", "err", "init_panic"}
INVARIANTS TypeOK ComputedValueClearsWaiters
PROPERTIES NoComputedOverwrite RaceCallsReturn
