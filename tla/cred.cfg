SPECIFICATION FairSpec
CONSTANTS
  Request = {r1, r2, r3}
  NoRequest = none
  FreshTtl = {4, 6, 7}
  MaxTtl = 6
  RefreshBuffer = 4
  FallbackMin = 2
  HttpTimeout = 3
  FetchBound = 3
  UseBound = 2
INVARIANTS TypeOK QueueIsExact InUseCoversCall
PROPERTIES NoRedundantFetch LockIsFreed ImplementsCell
