CONSTANTS
  MaxReads = 2
  MaxSends = 2
SPECIFICATION FairSpec
INVARIANTS
  TypeOK
  WriteOwnsBatch
  NoStrandedFrame
PROPERTIES
  LivesOneLife
  HandshakeEnds
  GoodbyeEnds
  LostClientIsNoticed
CHECK_DEADLOCK FALSE
