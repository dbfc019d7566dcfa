SPECIFICATION FairSigSpec
CONSTANTS
  RobotSids = {r1, r2}
  ControllerSids = {c1, c2}
  NoSid = NoSid
  RobotPages = {R}
  ControllerPages = {C}
  NoPc = NoPc
  Bodies <- MCBodies
  MaxEvents = 1
  MaxPcs = 3
  IceReaches = FALSE
PROPERTIES
  Announced
  SeatVacated
  HandshakeCompletes
  ImplementsControlCenter
CHECK_DEADLOCK FALSE
