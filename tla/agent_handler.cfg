CONSTANTS
  r1 = r1
  r2 = r2
  r3 = r3
  p1 = p1
  p2 = p2
  Run <- MCRuns2
  Post = {p1, p2}
  Tenant <- MCTenants
  Envelopes <- MCEnvelopes
  Request <- MCHandlerRequests
  Postable <- MCHandlerPostable
  Backend = "cockroach"
  RecallLimit = 2
  Score <- MCScore
  Unspeakable <- MCUnspeakable
  MaxSequence = 3
SPECIFICATION HandlerSpec
SYMMETRY HandlerSymmetry
INVARIANTS
  RecordedOnce
  ReplyIsOnRecord
  CitationsGrounded
  DecisionsFollowObservations
  RowsHaveVerifiedWriter
  CreatedOnce
  AcknowledgedIsSettled
CHECK_DEADLOCK FALSE
