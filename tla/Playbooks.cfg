SPECIFICATION PlaybooksSpec
CONSTANTS
  d1 = d1  d2 = d2  h1 = h1  h2 = h2  p1 = p1
  None = None
  Operations = {"os_check", "docker_update", "docker_update_pull"}
  Names = {p1}
  Dirs = {d1, d2}
  Hosts = {h1, h2}
  Target = h1
  Inventories <- SmallInventories
  MaxPending = 2
  MaxRequests = 3
INVARIANT AcceptedIsOffered
PROPERTY CommandFollowsApproval
CHECK_DEADLOCK FALSE
