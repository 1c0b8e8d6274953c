CONSTANTS
  r1 = r1
  r2 = r2
  r3 = r3
  Run <- MCRuns3
  Request <- MCEdgeRequests
  Postable <- MCEdgePostable
  Backend = "sqlite"
  RecallLimit = 2
  Score <- MCScore
  Unspeakable <- MCUnspeakable
  MaxSequence = 4
SPECIFICATION SqliteSpec
SYMMETRY Symmetry
INVARIANTS
  TypeOK
  RepliesAccounted
  HalfPairsExplained
CHECK_DEADLOCK FALSE
