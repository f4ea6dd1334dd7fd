SPECIFICATION FairSpec
CONSTANTS
  Calls = {c1, c2, c3}
  CoopCalls = {c1, c2, c3}
  RaceCalls = {}
  Keys = {k1, k2}
  ShardOf <- MCShards
  Ext = Ext
  None = None
  Usage = {"insert", "cancel", "err"}
INVARIANTS NoUnreachable NoPhantomWorker ParkedIsRegistered
PROPERTIES ImplementsSingleFlight CoopCallsReturn
