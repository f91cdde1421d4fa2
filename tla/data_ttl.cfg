CONSTANTS
  Node = {n1, n2, n3}
  Relay = {n1, n2}
  AnyGateway = AnyGateway
  Packet = {p, q}
  MaxTTL = 3
  UnicastReaches = TRUE
  MayDuplicate = FALSE
SPECIFICATION FairSpec
INVARIANTS TypeOK TTLCountsHops DeliveredWithinMaxTTL OneCopy
PROPERTIES LoopsEnd
CHECK_DEADLOCK FALSE
