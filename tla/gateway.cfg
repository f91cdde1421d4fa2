CONSTANTS
  Conn = {x, y}
  NoConn = NoConn
  MaxSessions = 1
  MaxHandshakes = 2
  Asking = {x, y}
  MaxRemotes = 1
SPECIFICATION FairSpec
INVARIANTS TypeOK
PROPERTIES StopWindsDown SlotsAreFreed OutageIsTold
CHECK_DEADLOCK FALSE
