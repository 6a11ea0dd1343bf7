SPECIFICATION ProfilesSpec
CONSTANTS
  default = default  p1 = p1  w1 = w1  a = a  o = o  t1 = t1  r1 = r1  r2 = r2
  None = None
  Ids = {default, p1}
  LEGACY_PROFILE_ID = default
  Peers = {w1}
  Servers = {a}
  TunnelStates = {"healthy", "down", "unreadable"}
  Active = a
  Owners = {o}
  Targets = {t1}
  Requests = {r1, r2}
  MAX_PROFILES = 2
  MAX_HISTORY = 1
  Interval = 2
  MaxOps = 2
  MaxChanges = 1
CHECK_DEADLOCK FALSE
PROPERTIES RemovedIsForgotten ValidationKept OutageIsAlerted
