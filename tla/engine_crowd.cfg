SPECIFICATION Spec
CONSTANTS
  None = None
  Missing = Missing
  NoBuffer = NoBuffer
  NoEvidence = NoEvidence
  NoPerson = NoPerson
  Unknown = Unknown
  Persons = {p1, p2}
  MinWashing = 1
  Cooldown = 1
  BufferMax = 2
  MinEntry = 1
  SourceFps = 1
  GraceSeconds = 1
  MaxLostFrames = 2
  Durable = FALSE
  StoreTTL = 5
  MaxTime = 5
  MaxSkip = 1
  MaxGap = 1
  MaxBoots = 2
  MaxStepBack = 0
INVARIANTS
  OneAlertPerVisit
  AlertHasEvidence
PROPERTIES
  KeepsLedger
CHECK_DEADLOCK FALSE
