SPECIFICATION FairSpec
CONSTANTS
  None = None
  NodeCount = 2
  Pollers = {}
  Requests <- InstallOrReboot
  MaxOps = 2
  MaxFaults = 1
CHECK_DEADLOCK FALSE
INVARIANTS OneOperation CompletedMeansInstalled DurableResult
PROPERTIES NoStuckSnapshot
