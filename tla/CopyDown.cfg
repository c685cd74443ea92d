SPECIFICATION Spec
CONSTANTS
  GuestTrees <- MCGuestTrees
  HostTrees <- MCHostTrees
  SourceLists <- MCSourceLists
  BuildOutput <- MCBuildOutput
  Control <- MCControl
  NewName = "p"
  MaxChanges = 1
  None = None
INVARIANTS TypeOK LandsExactly NoControlLands HalfLandedCanFinish
PROPERTIES HostKept
