SPECIFICATION Spec
CONSTANTS
  VaultEnclave = {v1, v2, v3, v4, v5}
  ForeignEnclave = {f1}
  MaxEnclaves = 2
  HostSlots = 4
  SkipRunEnclaves = FALSE
  NitroCliMayHang = TRUE
SYMMETRY Symmetry
INVARIANTS TypeOK CapacityBound CapacityInv
PROPERTY HealthyStaysRouted
