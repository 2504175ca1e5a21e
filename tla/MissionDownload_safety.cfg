CONSTANTS
  vehicle = vehicle
  bystander = bystander
  wp1 = wp1
  wp2 = wp2
  Vehicle = vehicle
  Waypoints <- TwoWaypoints
  Others <- OneBystander
  Talkers <- AllTalk
  Missions <- AllMissions
  MAX_RETRIES = 2
  NetworkDuplicates = TRUE
  MaxItems = 4
  MaxSessions = 2
  MaxReplans = 1
SPECIFICATION Spec
INVARIANTS
  TypeOK
  ItemsInSequence
  StableMissionIsDownloaded
  FirstDownloadIsNotRejected
PROPERTIES
  TransferKept
\* MaxSessions bounds the downloads: after the last one nothing is left to do.
CHECK_DEADLOCK FALSE
