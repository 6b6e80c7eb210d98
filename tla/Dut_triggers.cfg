SPECIFICATION HistFairSpec
CONSTANTS
  Mediums <- TwoMediums
  QMax = 2
  Stations <- AllStations
INVARIANT RunsFromMedium
INVARIANT OnMeansPowered
INVARIANT OriginalBootcmdKept
INVARIANT PinReleased
PROPERTY OsIsUntrapped
PROPERTY FreshSession
PROPERTY OsCommitBacked
PROPERTY TriggerTerminates
PROPERTY BootSucceeds
