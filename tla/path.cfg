SPECIFICATION FairSpec
CONSTANTS
  Enclaves = {e1, e2}
  None = none
  ParentIo = 4
  EnclaveIo = 6
  KmsWait = 4
  HttpWait = 6
  Window = 1
INVARIANTS TypeOK WholeMessages ThreadWithinIoTimeout
PROPERTIES StopEnds SlotIsFreed
