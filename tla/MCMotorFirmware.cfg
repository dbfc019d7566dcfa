SPECIFICATION FirmSpec
CONSTANTS
  Messages <- Drives
  Period = 6
  Timeout = 2
  MaxPass = 2
  MaxSilence = 5
INVARIANTS
  FirmTypeOK
  SpeedWasAsked
  BackInStep
  ArrayHolds
PROPERTIES
  StopsOnlyWhenSilent
  KeepsPromise
