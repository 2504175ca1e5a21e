CONSTANTS
  c1 = c1
  c2 = c2
  p1 = p1
  p2 = p2
  garbage = garbage
  Garbage = garbage
  Clients <- OneClient
  Payloads <- UploadPayloads
  Points <- OnePoint
  BatchSizes <- UpToOne
  MaxMessages = 3
  MaxOpens = 2
SPECIFICATION Spec
INVARIANTS
  CountMatchesItems
