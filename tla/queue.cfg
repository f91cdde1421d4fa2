CONSTANTS
  Id = {u, v}
  u = u
  v = v
  Payload = {p}
  Cut = Cut
  Prio <- Urgency
  BatchSize = 1
  MaxAttempts = 2
  Level = {0, 2}
  NoRow = NoRow
  NoSend = NoSend
  Lifetime = 0
  MaxNow = 1
  MaxQueued = 3
SPECIFICATION FairSpec
INVARIANTS TypeOK IdleIsCommitted DeliveredWasReceived AttemptsWereMade
PROPERTIES KeepsPromise QueueDrains
