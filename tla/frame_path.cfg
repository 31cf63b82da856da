SPECIFICATION Spec
CONSTANTS
  Setups <- MCSetups
  Nothing = Nothing
  MaxSize = 2
  TTL = 1
  MaxTime = 2
  MaxFailures = 2
  MaxFrames = 3
  MaxLater = 1
  MaxBoots = 2
INVARIANTS
  FramesExplained
  OneEventPerFrame
  FetchedIsPublished
CHECK_DEADLOCK FALSE
