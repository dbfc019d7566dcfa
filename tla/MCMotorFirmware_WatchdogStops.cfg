SPECIFICATION FirmSpec
CONSTANTS
  Messages <- Steady
  Period = 8
  Timeout = 2
  MaxPass = 2
  MaxSilence = 5
PROPERTIES
  WatchdogStops
