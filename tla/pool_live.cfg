SPECIFICATION FairSpec
CONSTANTS
  VaultEnclave = {v1, v2, v3, v4}
  ForeignEnclave = {f1}
  MaxEnclaves = 2
  HostSlots = 3
  SkipRunEnclaves = FALSE
  NitroCliMayHang = FALSE
INVARIANTS OkRefreshRoutesAllRunning RoutingInv
PROPERTIES PoolRefills CrashedLeavesRouting
