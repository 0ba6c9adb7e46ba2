SPECIFICATION HangSpec
CONSTANTS
  VaultEnclave = {v1, v2}
  ForeignEnclave = {}
  MaxEnclaves = 2
  HostSlots = 2
  SkipRunEnclaves = FALSE
  NitroCliMayHang = TRUE
PROPERTY LoopKeepsRetrying
