CONSTANTS
  v1 = v1
  v2 = v2
  w1 = w1
  Verifier <- MCVerifiers2
  Seeder <- MCInvocations
  Run <- MCInvocations
  Request <- DemoRequests
  Postable <- Priors
  Backend = "cockroach"
  RecallLimit = 3
  Score <- DemoScore
  Unspeakable <- MCNothing
  MaxSequence = 11
SPECIFICATION StackSpec
SYMMETRY Symmetry
INVARIANTS
  ReceiptIsWhole
  SeedsCountOnce
CHECK_DEADLOCK FALSE
