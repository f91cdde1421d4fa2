CONSTANTS
  Peer = {o, p, q}
  NoRow = NoRow
  NoPeer = NoPeer
  MayCrash = TRUE
  MaxCalls = 6
SYMMETRY Alike
SPECIFICATION Spec
INVARIANTS TypeOK RankIsRooted
PROPERTIES TrustIsEarned RevokedRowIsFinal
CHECK_DEADLOCK FALSE
