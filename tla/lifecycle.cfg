SPECIFICATION Spec
CONSTANTS
  Sources <- MCSources
  Unreadable = Unreadable
  NoCap = NoCap
  QueueSize = 2
  MaxFrames = 3
  MaxOpens = 3
  MaxFaults = 2
  MaxAlerts = 2
INVARIANTS
  RowsClosed
  PlaylistPlayed
  NothingProducedLate
PROPERTIES
  ShutdownEnds
CHECK_DEADLOCK FALSE
