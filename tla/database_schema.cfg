SPECIFICATION DashboardSpec
CONSTANTS
  g1 = g1
  g2 = g2
  Groups <- MCGroups
  ConfirmedAt <- MCConfirmedAt
  RecentLimit = 1
  ListLimit = 2
  Sizes = {0, 2}
  NoEvidence = NoEvidence
  Videos = {v1}
  Idle = Idle
  NoKey = NoKey
INVARIANTS
  RejectedOnlyBelowHead
  AnnouncedOnce
  StoredAndShownWhole
