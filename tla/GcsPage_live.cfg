CONSTANTS
  home = origin
  origin = origin
  east = origin
  west = west
  Home = origin
  Origin = origin
  Points <- AllPoints
  Negative <- WestPoints
  Missions <- OneMission
  FirstPages <- AnyPage
  WholeAmperes <- NoFraction
  MaxClicks = 2
  MaxOthers = 1
  MaxReloads = 1
  MaxQueue = 2
SPECIFICATION FairSpec
INVARIANTS
  UploadIsTheRoute
PROPERTIES
  WaitEnds
