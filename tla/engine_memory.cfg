SPECIFICATION Spec
CONSTANTS
  None = None
  Missing = Missing
  NoBuffer = NoBuffer
  NoEvidence = NoEvidence
  NoPerson = NoPerson
  Unknown = Unknown
  Persons = {p1}
  MinWashing = 2
  Cooldown = 2
  BufferMax = 2
  MinEntry = 2
  SourceFps = 2
  GraceSeconds = 1
  MaxLostFrames = 2
  Durable = FALSE
  StoreTTL = 5
  MaxTime = 10
  MaxSkip = 1
  MaxGap = 2
  MaxBoots = 2
  MaxStepBack = 0
INVARIANTS
  TypeOK
  LiveBufferIffOpen
  EvidenceIsOfItsVisit
  NoOverdueExit
PROPERTIES
  VerdictFollowsWashing
  CooldownRespected
CHECK_DEADLOCK FALSE
