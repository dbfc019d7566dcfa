SPECIFICATION ServerSpec
CONSTANTS
  Clients = {c1, c2}
  NoClient = NoClient
  k = k
  l = l
  Requests <- MediaRequests
  DeviceLists <- OneCamera
  MaxAttempts = 2
  Deadline = 2
  MaxInbox = 1
SYMMETRY Symmetry
INVARIANTS
  StreamsToActive
CHECK_DEADLOCK FALSE
