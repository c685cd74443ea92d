SPECIFICATION Spec
CONSTANTS
  Yo = {y1, y2}
  Broker = {b1, b2}
  AllowList = {l1, l2}
  None = None
  MaxRuns = 2
  OverlappingExits = FALSE
INVARIANTS KillsOnlyStale
CHECK_DEADLOCK FALSE
