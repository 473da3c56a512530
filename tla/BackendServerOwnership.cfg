SPECIFICATION FairSpec
CONSTANTS
  Req = {r1, r2}
  Conn = {c1, c2}
  NoConn = NoConn
  Pooled = Pooled
  Closed = Closed
  ServerMaxConn = 0
  ServerMaxIdleConn = 1
INVARIANTS TypeOK CountersExact NoLeak ExclusiveUse PeakBound
PROPERTIES ImplementsOwnership DeadIdleEvicted CloseCompletes ClosedGivesBackSockets
