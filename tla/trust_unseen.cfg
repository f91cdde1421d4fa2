CONSTANTS
  Peer = {o, p, q}
  NoRow = NoRow
  NoPeer = NoPeer
  MayCrash = FALSE
  MaxCalls = 4
SYMMETRY Alike
SPECIFICATION Spec
PROPERTIES NoVouchForRevoked
CHECK_DEADLOCK FALSE
