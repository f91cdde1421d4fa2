CONSTANTS
  Conn = {x, y, z}
  NoConn = NoConn
  Proxied = {x}
  MaxSessions = 1
  MaxHandshakes = 2
  Asking = {x}
  MaxRemotes = 1
SPECIFICATION FairSpec
INVARIANTS TypeOK ProxyCounts LimitKept
 
VIEW WithoutTold
CHECK_DEADLOCK FALSE
