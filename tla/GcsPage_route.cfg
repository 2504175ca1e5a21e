CONSTANTS
  home = home
  origin = origin
  east = origin
  west = west
  Home = home
  Origin = origin
  Points <- EastPoints
  Negative <- NoPoints
  Missions <- SomeMissions
  FirstPages <- LaterPage
  WholeAmperes <- AnyCurrent
  MaxClicks = 4
  MaxOthers = 0
  MaxReloads = 0
  MaxQueue = 1
SPECIFICATION Spec
INVARIANTS
  TypeOK
  PageIsConsistent
  UploadIsTheRoute
PROPERTIES
  AnswerIsPublished
