SPECIFICATION ResultsSpec
CONSTANTS
  Projects = {a, b}
  Layouts <- LayoutsMC
  None = None
  Bad = Bad
  MaxPlays = 3
  MaxRefreshes = 1
INVARIANT VerdictIsKept
CHECK_DEADLOCK FALSE
SYMMETRY ProjectSymmetry
