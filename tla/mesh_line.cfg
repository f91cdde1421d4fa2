CONSTANTS
  Node = {g, a, b}
  Link <- Line
  Gateway = {g}
  g = g
  a = a
  b = b
  NoNode = NoNode
  MaxTTL = 3
  Infinity = 9
  PeerTimeout = 1
  MaintPeriod = 1
  GatewayWeight = 1
  RelayWeight = 10
  Seeded = {g, a}
  UnicastReaches = FALSE
  MayDuplicate = TRUE
  SendMayFail = FALSE
  MaxHops = 4
  MaxFrames = 1
SPECIFICATION FairSpec
INVARIANTS
  TypeOK StalePeersExpire RoutesOnlyThroughTrusted RoutesWithinTTL
  RoutesComeFromGateways
PROPERTIES TrustKept VoucherOutranks PhantomRoutesDie
