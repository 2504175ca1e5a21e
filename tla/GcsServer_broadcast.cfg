CONSTANTS
  c1 = c1
  c2 = c2
  p1 = p1
  p2 = p2
  garbage = garbage
  Garbage = garbage
  Clients <- TwoClients
  Payloads <- DownloadOnly
  Points <- OnePoint
  BatchSizes <- UpToTwo
  MaxMessages = 2
  MaxOpens = 3
SPECIFICATION Spec
PROPERTIES
  NoSkippedId
  NoSilentChange
  PromiseKept
