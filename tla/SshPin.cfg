SPECIFICATION LiveSpec
CONSTANTS
  y1 = y1
  y2 = y2
  Yo = {y1, y2}
  Ports = {1, 2}
  MaxBoxes = 2
  MaxFaults = 3
  Overlapping = FALSE
  None = None
INVARIANTS TypeOK KnowsGuest CheckedLogins ReachesBox
PROPERTIES UpCures
