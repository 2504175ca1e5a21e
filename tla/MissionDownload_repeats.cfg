CONSTANTS
  vehicle = vehicle
  bystander = bystander
  wp1 = wp1
  wp2 = wp2
  Vehicle = vehicle
  Waypoints <- TwoWaypoints
  Others <- NoEndpoints
  Talkers <- NoEndpoints
  Missions <- OneMission
  MAX_RETRIES = 5
  NetworkDuplicates = FALSE
  MaxItems = 1000
  MaxSessions = 1
  MaxReplans = 0
SPECIFICATION Spec
INVARIANTS
  EveryItemOnce
\* MaxSessions bounds the downloads: after the last one nothing is left to do.
CHECK_DEADLOCK FALSE
