SPECIFICATION FairSpec
CONSTANTS
  Calls = {c1, r1}
  CoopCalls = {c1}
  RaceCalls = {r1}
  Keys = {k1}
  ShardOf <- MCShards
  Ext = Ext
  None = None
  Usage = {"err"}
PROPERTIES CoopCallsReturn
CHECK_DEADLOCK FALSE
