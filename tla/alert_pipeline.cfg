SPECIFICATION Spec
CONSTANTS
  Unknown = Unknown
  NoMessage = NoMessage
  MaxSize = 2
  MaxLooks = 2
  MaxRetries = 2
  MaxAlerts = 3
  MaxBoots = 2
INVARIANTS
  EvidenceJoined
  InsertNeverCollides
  AlertsAccounted
PROPERTIES
  AlertsLeave
CHECK_DEADLOCK FALSE
