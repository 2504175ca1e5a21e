CONSTANTS
  c1 = c1
  c2 = c2
  p1 = p1
  p2 = p2
  garbage = garbage
  Garbage = garbage
  Clients <- OneClient
  Payloads <- FlightPayloads
  Points <- OnePoint
  BatchSizes <- UpToOne
  MaxMessages = 1
  MaxOpens = 1
SPECIFICATION Spec
INVARIANTS
  EveryPayloadHandled
