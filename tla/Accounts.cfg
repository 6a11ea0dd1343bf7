SPECIFICATION AccountsSpec
CONSTANTS
  Names = {n1, n2}
  Endpoints = {e1, e2}
  None = None
  MaxSessions = 2
  MaxSubs = 1
  MaxNotes = 2
  MaxIds = 6
  MaxKeys = 2
  MaxEvents = 4
  MaxInFlight = 2
  MaxCrashes = 1
INVARIANTS AdminRemains SubscriptionsWork
PROPERTY UnreadIsKept
SYMMETRY EndpointSymmetry
CHECK_DEADLOCK FALSE
