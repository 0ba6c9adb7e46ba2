SPECIFICATION Spec
CONSTANTS
  Req = {r1, r2}
  Request <- MCRequest
  Lower <- MCLower
  DateOf <- MCDateOf
  Today <- MCToday
  None = none
  MAX_CACHED_PROGRAMS = 1
SYMMETRY Symmetry
INVARIANTS TypeOK CacheIsSound AcceptedNeverRefused
PROPERTIES ImplementsService
