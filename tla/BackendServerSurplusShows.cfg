SPECIFICATION Spec
CONSTANTS
  Req = {r1, r2}
  Conn = {c1, c2, c3}
  NoConn = NoConn
  ServerMaxConn = 1
  ServerMaxIdleConn = 1
SYMMETRY Symmetry
INVARIANTS SurplusShows
