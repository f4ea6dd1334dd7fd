SPECIFICATION FairSpec
CONSTANTS
  Calls = {c1, c2}
  CoopCalls = {c1, c2}
  RaceCalls = {}
  Keys = {k1}
  ShardOf <- MCShards
  Ext = Ext
  None = None
  Usage = {"init_panic"}
PROPERTIES CoopCallsReturn
CHECK_DEADLOCK FALSE
