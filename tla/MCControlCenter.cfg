SPECIFICATION BoundedSpec
CONSTANTS
  RobotSids = {r1, r2}
  ControllerSids = {c1}
  NoSid = NoSid
  Bodies = {b}
  MaxInFlight = 2
  MaxBroken = 2
SYMMETRY Symmetry
INVARIANTS
  TypeOK
  TruthTold
  RelayedWhileUp
CHECK_DEADLOCK FALSE
