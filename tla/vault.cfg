SPECIFICATION Spec
CONSTANTS
  Request = {r1, r2, r3}
  Vault = {v1}
  Field = {ssn9, ssn4}
  Ssn9 = ssn9
  Ssn4 = ssn4
  Body = {{}, {ssn9}, {ssn4}}
  Removable = {{}, {ssn4}, {ssn9, "_sk"}, {"_pk"}}
  MaxClock = 3
  None = none
SYMMETRY Symmetry
CHECK_DEADLOCK FALSE
INVARIANTS TypeOK AnswersAreTrue AppliedFieldsSurvive Ssn4IsCurrent DisclosuresAreLogged DeletedStaysDeleted RevivedOnlyByRace
