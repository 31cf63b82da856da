SPECIFICATION Spec
CONSTANTS
  Boxes <- MCBoxes
  Overlap <- MCOverlap
  MaxLost = 1
  NoId = NoId
  ConfirmFrames = 2
  HoldFrames = 2
  ResetSeconds = 2
  StaleSeconds = 1
  Never = Never
  Detectors = {"plain", "tracked"}
  HandBoxes <- MCHandBoxes
  SinkSights <- MCSinkSights
  ExpandX = 15
  ExpandY = 20
  MaxSinkDistance = 75
  SinkSide = 30
  SinkTop = 150
  SinkBottom = 20
  MinHands = 1
  MaxNumber = 2
  MaxSeen = 2
  MaxFrames = 4
  MaxGap = 1
INVARIANTS
  OneIdPerPerson
  InsideIffHandLately
  ConfirmedByEvidence
PROPERTIES
  NewIdsAreNew
CHECK_DEADLOCK FALSE
