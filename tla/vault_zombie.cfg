SPECIFICATION Spec
CONSTANTS
  Request = {r1, r2, r3}
  Vault = {v1}
  Field = {ssn9, ssn4}
  Ssn9 = ssn9
  Ssn4 = ssn4
  Body = {{ssn9}}
  Removable = {{ssn9}}
  MaxClock = 3
  None = none
SYMMETRY Symmetry
CHECK_DEADLOCK FALSE
INVARIANT DeletedVaultIsGone
