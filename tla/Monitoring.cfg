SPECIFICATION Spec
CONSTANTS
  d1 = d1  None = None
  Devices = {d1}
  OFFLINE_AFTER = 2
  ONLINE_MAX = 2
  MaxChanges = 2
  MaxEdits = 1
  MaxFaults = 1
CHECK_DEADLOCK FALSE
INVARIANTS SourcesAgree OfflineIsDebounced
PROPERTIES OutageIsReported
