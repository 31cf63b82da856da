SPECIFICATION Spec
CONSTANTS
  None = None
  Missing = Missing
  NoBuffer = NoBuffer
  NoEvidence = NoEvidence
  NoPerson = NoPerson
  Unknown = Unknown
  Persons = {p1}
  MinWashing = 2
  Cooldown = 2
  BufferMax = 2
  MinEntry = 2
  SourceFps = 2
  GraceSeconds = 1
  MaxLostFrames = 2
  Durable = TRUE
  StoreTTL = 3
  MaxTime = 6
  MaxSkip = 1
  MaxGap = 2
  MaxBoots = 2
  MaxStepBack = 2
INVARIANTS
  OneEvidencePerVisit
  EvidenceNotMixed
PROPERTIES
  NoExitInFuture
CHECK_DEADLOCK FALSE
