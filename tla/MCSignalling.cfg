SPECIFICATION SigSpec
CONSTANTS
  RobotSids = {r1, r2}
  ControllerSids = {c1, c2}
  NoSid = NoSid
  RobotPages = {R}
  ControllerPages = {C}
  NoPc = NoPc
  Bodies <- MCBodies
  MaxEvents = 2
  MaxPcs = 2
  IceReaches = TRUE
SYMMETRY Symmetry
INVARIANTS
  SigTypeOK
  AnswerMeetsPeer
  PeerAgreement
  StatusIsTrue
CHECK_DEADLOCK FALSE
