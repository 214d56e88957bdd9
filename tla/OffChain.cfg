CONSTANTS
  Pools <- MCPools
  Places = 1
  MaxAccepted = 1
  MaxFaults = 3
  Clients = {"a", "b", "c"}
  Senders = {"a"}
  PoolOf <- MCPoolOf
  MaxEntries = 1
  MaxBlock = 2
  MaxFailures = 1
SPECIFICATION MCFairSpec
CHECK_DEADLOCK FALSE
INVARIANTS
  StoredOnce
  OneRead
PROPERTIES
  BallotsGetStored
  CatchesUp
