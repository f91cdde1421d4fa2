CONSTANTS
  Id = {u, v}
  u = u
  v = v
  Payload = {p}
  Cut = Cut
  Prio <- Urgency
  BatchSize = 1
  MaxAttempts = 2
  Level = {0, 2}
  NoRow = NoRow
  NoSend = NoSend
  Lifetime = 0
  MaxNow = 0
  MaxQueued = 1
SPECIFICATION Spec
PROPERTIES NeverLost
