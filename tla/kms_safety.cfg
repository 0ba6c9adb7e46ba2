SPECIFICATION Spec
CONSTANTS
  Call = {c1, c2, c3, c4}
  Key = {k1, k2}
  None = none
  QueueCap = 2
  MaxConnections = 2
SYMMETRY Symmetry
INVARIANTS TypeOK SingleSdkUser OneClientOpen AnsweredUnderOwnKey WaitingIsHeld
