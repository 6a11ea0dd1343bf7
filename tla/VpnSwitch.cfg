SPECIFICATION Spec
CONSTANTS
  None = None
  Original = Original
  Candidates = {c1, c2}
  MaxSwitches = 2
  MaxHistory = 3
  MaxFaults = 3
CHECK_DEADLOCK FALSE
INVARIANTS SuccessMeansActive RollbackRestores Settled
