SPECIFICATION Spec
CONSTANTS
  n1 = n1  n2 = n2
  None = None
  Nodes = {n1, n2}
  OFFLINE_AFTER = 2
INVARIANTS HealthyIsEarned TroubleIsShown RebootFollowsKernel
