\* Two processes that share a file; each may drop or keep a store that raised.
CONSTANTS
  p1 = p1  p2 = p2
  Connection = {p1, p2}
  Keeping <- MCKeeping
  Event <- MCEvents
  MaxCalls = 3
  MaxAppends = 3

SPECIFICATION FairSpec

INVARIANTS
  WritesWellKeyed
  TrueIsDurable
  FalseIsExplained
  LockedRowsRide

PROPERTIES
  LocksReleased
  DroppedStoresKeepPromise

CHECK_DEADLOCK FALSE
