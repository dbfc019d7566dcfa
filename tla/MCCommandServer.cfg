SPECIFICATION ServerSpec
CONSTANTS
  Clients = {c1, c2, c3}
  NoClient = NoClient
  k = k
  l = l
  Requests <- MediaRequests
  DeviceLists <- Searches
  MaxAttempts = 2
  Deadline = 1
  MaxInbox = 1
SYMMETRY Symmetry
INVARIANTS
  ServerTypeOK
  AtMostOneServed
  CamerasHavePipeline
  SeatFreedUnlessReset
PROPERTIES
  OnlyItsClientEndsIt
CHECK_DEADLOCK FALSE
