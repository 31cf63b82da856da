SPECIFICATION Spec
CONSTANTS
  None = None
  Topics <- MCTopics
  Offered <- MCOffered
  Foreign = {2}
  MaxLength = 1
  MaxEntries = 3
  MaxFailures = 2
  MaxBoots = 2
INVARIANTS
  EveryEntryAccounted
  TwiceOnlyUnacknowledged
  HandedWhole
PROPERTIES
  EntriesLeave
CHECK_DEADLOCK FALSE
