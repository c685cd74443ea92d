SPECIFICATION LiveSpec
CONSTANTS
  Yo = {y1, y2}
  Helpers = {h1, h2}
  None = None
  DropBeforeFifo = FALSE
INVARIANTS
  PowerOffOnlyIdle
  WrongKeyIsFresh
PROPERTIES
  UnlockedBoots
  LockIsReleased
