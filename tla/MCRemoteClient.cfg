SPECIFICATION FairClientSpec
CONSTANTS
  Cameras = {k, l}
  MaxUnread = 3
INVARIANTS
  ClientTypeOK
  OneAttemptAhead
  OnePingChain
  ViewsFollowConnection
PROPERTIES
  QuitEndsOrHangs
CHECK_DEADLOCK FALSE
