SPECIFICATION FairSpec
CONSTANTS
  Conn = {c1, c2, c3}
  Key = {k1}
  None = none
  QueueCap = 1
  MaxConnections = 2
INVARIANTS TypeOK SlotsAreExact WithinLimit
PROPERTIES ImplementsKmsWorker NeverStaysFull
CHECK_DEADLOCK FALSE
