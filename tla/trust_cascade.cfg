CONSTANTS
  Peer = {o, p, q, r}
  NoRow = NoRow
  NoPeer = NoPeer
  MayCrash = FALSE
  MaxCalls = 5
SYMMETRY Alike
SPECIFICATION Spec
INVARIANTS CascadeComplete
CHECK_DEADLOCK FALSE
