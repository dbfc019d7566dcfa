SPECIFICATION FairTeleopSpec
CONSTANTS
  Positions = {ahead}
  Rest = Rest
  Unset = Unset
  Skipped = Skipped
  Stopped = Stopped
  Mouse = Mouse
  Touches = {finger}
  TimerIds = {1, 2}
  Interval = 2
  Wait = 1
  MaxWire = 2
  Timeout = 4
  Grace = 1
INVARIANTS
  TeleopTypeOK
  LastWord
  TimersWhileHeld
PROPERTIES
  HeldNotStopped
  ReleaseStops
