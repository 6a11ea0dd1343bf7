SPECIFICATION FairSpec
CONSTANTS
  i1 = i1  d1 = d1  t1 = t1  None = None
  Instances <- OneInstance
  Devices = {d1}
  ParentDevice <- OneInstanceParent
  Targets = {t1}
  Operations = {"os_check", "docker_discovery"}
  Outcomes = {"successful", "unreachable"}
  MaxJobs = 1
  MaxSequence = 2
  JobBudget = 2
  MaxCrashes = 1
  MaxStoreErrors = 1
  MaxRemaps = 1
CHECK_DEADLOCK FALSE
INVARIANTS OneJobAtATime ViewBackedByRecord SequenceOrder NoStrandedJob
PROPERTIES NoRevival JobsConclude
