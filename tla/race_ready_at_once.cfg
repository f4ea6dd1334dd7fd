SPECIFICATION Spec
CONSTANTS
  Calls = {r1}
  CoopCalls = {}
  RaceCalls = {r1}
  Keys = {k1}
  ShardOf <- MCShards
  Ext = Ext
  None = None
  Usage = {}
INVARIANTS NoUnreachable
CHECK_DEADLOCK FALSE
