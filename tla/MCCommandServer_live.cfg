SPECIFICATION FairServerSpec
CONSTANTS
  Clients = {c1, c2}
  NoClient = NoClient
  k = k
  l = l
  Requests <- FewRequests
  DeviceLists <- OneOrTwo
  MaxAttempts = 2
  Deadline = 2
  MaxInbox = 1
PROPERTIES
  DeadConnectionsEnd
  KeepsLease
CHECK_DEADLOCK FALSE
