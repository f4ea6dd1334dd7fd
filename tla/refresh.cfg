SPECIFICATION FairRefreshSpec
CONSTANTS
  Calls = {c1, c2, c3}
  CoopCalls = {c1, c2, c3}
  RaceCalls = {}
  Keys = {k1}
  ShardOf <- MCShards
  Ext = Ext
  None = None
  Usage = {"remove", "cancel", "err"}
  Ttl = 1
  MaxTime = 2
INVARIANTS RefreshTypeOK FreshUnlessOvertaken ReturnsFresh InsertsOnlyNewKeys
  OneRefreshAtATime WaitersAreServed
PROPERTIES KeepsValuesForTtl GetReturns
CHECK_DEADLOCK FALSE
