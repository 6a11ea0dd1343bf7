SPECIFICATION FairSpec
CONSTANTS
  None = None
  MaxStarts = 4
  MaxKept = 2
  Days = 1
  Slots = 2
  DefaultConfig <- EarlyAnsible
  Configs <- TwoConfigs
  Findings <- Mixed
  MaxSettings = 1
  MaxFaults = 1
  MaxOverruns = 1
CHECK_DEADLOCK FALSE
INVARIANTS OncePerOccurrence RunningHasOwner CompletedMeansChecked
PROPERTIES OccurrenceRuns
