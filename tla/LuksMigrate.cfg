SPECIFICATION LiveSpec
CONSTANTS
  Total = 17
  HeaderRoom = 2
  Offset = 1
  Align = 4
  Percent = 20
  Used <- MCUsed
INVARIANTS
  DoneMeansSealed
PROPERTIES
  ImplementsSealedDisk
  EventuallySealed
