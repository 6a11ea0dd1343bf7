SPECIFICATION Spec
CONSTANTS
  m1 = m1  ap1 = ap1  fw = fw  s1 = s1  r1 = r1  r2 = r2
  None = None
  MACs = {m1}
  APs = {ap1}
  Firewall = fw
  Scans = {s1}
  Requests = {r1, r2}
  MaxMoves = 1
  MaxEvents = 2
CHECK_DEADLOCK FALSE
SYMMETRY Sym
INVARIANTS AnnouncedOnce ApprovalIsShown
PROPERTIES DepartureIsReal
