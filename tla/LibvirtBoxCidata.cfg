SPECIFICATION Spec
CONSTANTS
  Yo = {y1}
  Key = {k1, k2}
  None = None
  Overlapping = FALSE
  CutRebuilds = TRUE
SYMMETRY Symmetry
INVARIANT StartsSynced
