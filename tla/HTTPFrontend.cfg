SPECIFICATION FairSpec
CONSTANTS
  Conn = {c1, c2}
  MaxConn = 1
  MaxIdleConn = 1
  MaxKeepAliveReqs = 1
  Configs <- MCConfigs
CHECK_DEADLOCK FALSE
INVARIANTS TypeOK CountersExact
PROPERTIES ConnectionsEnd
