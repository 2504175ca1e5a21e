CONSTANTS
  vehicle = vehicle
  bystander = bystander
  wp1 = wp1
  wp2 = wp2
  Vehicle = vehicle
  Waypoints <- TwoWaypoints
  Others <- NoEndpoints
  Talkers <- NoEndpoints
  Missions <- UpToTwoItems
  MAX_RETRIES = 3
  NetworkDuplicates = FALSE
  MaxItems = 1000
  MaxSessions = 2
  MaxReplans = 1
SPECIFICATION FairSpec
PROPERTIES
  DownloadTerminates
\* MaxSessions bounds the downloads: after the last one nothing is left to do.
CHECK_DEADLOCK FALSE
