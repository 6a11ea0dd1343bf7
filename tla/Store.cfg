SPECIFICATION Spec
CONSTANTS
  p1 = p1  p2 = p2  c1 = c1  c2 = c2  c3 = c3
  None = None  Torn = Torn
  Processes = {p1, p2}
  Callers = {c1, c2, c3}
  Home <- TwoHomes
  MaxFaults = 2
SYMMETRY Alike
CHECK_DEADLOCK FALSE
INVARIANTS Durable BackupIsPrevious LoadIsFresh NoDeadlock
PROPERTIES Implements
