CONSTANTS
  Node = {g, a}
  Link <- Pair
  Gateway = {g}
  g = g
  a = a
  b = b
  NoNode = NoNode
  MaxTTL = 2
  Infinity = 9
  PeerTimeout = 1
  MaintPeriod = 1
  GatewayWeight = 1
  RelayWeight = 10
  Seeded = {}
  UnicastReaches = TRUE
  MayDuplicate = FALSE
  SendMayFail = TRUE
  MaxHops = 2
  MaxFrames = 6
SPECIFICATION FairNetSpec
INVARIANTS RouteHasPeer
PROPERTIES SearchFindsGateway
