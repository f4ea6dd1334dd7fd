SPECIFICATION FairSpec
CONSTANTS
  Calls = {c1, c2, c3}
  CoopCalls = {c1, c2, c3}
  RaceCalls = {}
  Keys = {k1}
  ShardOf <- MCShards
  Ext = Ext
  None = None
  Usage = {"remove"}
PROPERTIES CoopCallsReturn
CHECK_DEADLOCK FALSE
