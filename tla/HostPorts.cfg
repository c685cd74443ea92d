SPECIFICATION Spec
CONSTANTS
  Yo = {y1, y2}
  Boxes = {b1, b2}
  Ports = {1, 2}
  None = None
INVARIANTS ClaimsApart NoSilentlyDeadForward
PROPERTIES ImplementsPortRegistry OnlyOutsideMasterDropped
SYMMETRY Symmetry
