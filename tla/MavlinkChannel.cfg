CONSTANTS
  MAX_PAYLOAD_LEN = 7
  SIGNATURE_BLOCK_LEN = 2
  STX = 7
  STX_MAVLINK1 = 6
  IFLAG_SIGNED = 1
  CrcLow <- SmallCrcLow
  CrcHigh <- SmallCrcHigh
  Entries <- SmallEntries
  Messages <- SmallMessages
  Noise <- SmallNoise
  MainBuffer = 26
  DownloadBuffer = 16
  MaxFrames = 2
  MaxNoise = 1
SPECIFICATION FairSpec
INVARIANTS
  TypeOK
  CleanDatagramsComeThrough
PROPERTIES
  DeliveredIsAFrame
  Recovers
