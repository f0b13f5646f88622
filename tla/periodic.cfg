SPECIFICATION FairSpec
CONSTANTS
  p1 = p1
  p2 = p2
  p3 = p3
  Periodics = {p1, p2, p3}
  Period <- MCPeriod
  Late = {p2}
  Idle = 3
  MaxTime = 6
  None = None
INVARIANTS TypeOK Sorted Books NeverAhead
PROPERTIES SleepsInTime CatchesUp
CHECK_DEADLOCK FALSE
