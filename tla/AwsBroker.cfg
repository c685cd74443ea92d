SPECIFICATION LiveSpec
CONSTANTS
  Yo = {y1}
  Broker = {b1, b2}
  AllowList = {l1, l2}
  None = None
  MaxRuns = 2
  OverlappingExits = FALSE
INVARIANTS ServingIsReachable NoFileLeft
PROPERTIES EndsWithVm
CHECK_DEADLOCK FALSE
