SPECIFICATION FairSpec
CONSTANTS
  Volts <- SomeVolts
  Amps <- TwoLimits
  Steps <- OneStep
  MaxVoltage = 5
  MaxCurrent = 2
  DefaultCap = 8
  DefaultA = 1
  Rigs <- Benches
INVARIANT OffAtTheEnd
INVARIANT ShortIsCut
INVARIANT WithinRating
PROPERTY NoSurge
PROPERTY EStopHalts
