CONSTANTS
  Pools <- MCPools
  Places = 1
  MaxAccepted = 1
  MaxFaults = 1
SPECIFICATION SyncSpec
CHECK_DEADLOCK FALSE
INVARIANTS
  SavedCanResume
