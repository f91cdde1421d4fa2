CONSTANTS
  Node = {g, a}
  Link <- Pair
  Gateway = {g}
  g = g
  a = a
  b = b
  NoNode = NoNode
  MaxTTL = 2
  Infinity = 9
  PeerTimeout = 1
  MaintPeriod = 1
  GatewayWeight = 1
  RelayWeight = 10
  Seeded = {}
  UnicastReaches = FALSE
  MayDuplicate = FALSE
  SendMayFail = TRUE
  MaxHops = 2
  MaxFrames = 6
SPECIFICATION FairNetSpec
PROPERTIES SearchFindsGateway
