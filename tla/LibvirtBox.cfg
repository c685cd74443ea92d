SPECIFICATION Spec
CONSTANTS
  Yo = {y1, y2, y3}
  Key = {k1, k2}
  None = None
  Overlapping = FALSE
  CutRebuilds = FALSE
SYMMETRY Symmetry
INVARIANTS
  FinishedIsWhole
  StartsSynced
  NotDestroyedUnlocking
PROPERTY ImplementsBuiltBox
