SPECIFICATION SyncFairSpec
CONSTANTS
  MaxCmds = 2
  SlowStart = FALSE
  QuitInLoad = FALSE
CHECK_DEADLOCK FALSE
INVARIANT HandoverSafe
PROPERTIES
  ClearedWhenIdle
  WaitsEnd
