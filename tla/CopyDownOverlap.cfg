SPECIFICATION Spec
CONSTANTS
  GuestTrees <- MCGuestTrees
  HostTrees <- MCHostTrees
  SourceLists <- InnerFirst
  BuildOutput <- MCBuildOutput
  Control <- MCControl
  NewName = "p"
  MaxChanges = 0
  None = None
INVARIANTS BuildOutputNeverCopied
