SPECIFICATION OrchSpec
CONSTANTS
  Mediums <- OneMedium
  QMax = 1
  Stations <- SessionStations
  Targets <- SessionTargets
PROPERTY BodyRunsInTarget
PROPERTY OsBodyIsAlive
CHECK_DEADLOCK FALSE
