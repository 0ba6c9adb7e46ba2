SPECIFICATION Spec
CONSTANTS
  VaultEnclave = {v1, v2, v3}
  ForeignEnclave = {}
  MaxEnclaves = 2
  HostSlots = 3
  SkipRunEnclaves = FALSE
  NitroCliMayHang = TRUE
INVARIANT NoDoubleLaunch
