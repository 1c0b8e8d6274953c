CONSTANTS
  v1 = v1
  v2 = v2
  w1 = w1
  Verifier <- MCVerifiers1
  Seeder <- MCInvocations
  Run <- MCVisited
  Request <- DemoRequests
  Postable <- Priors
  Backend = "cockroach"
  RecallLimit = 3
  Score <- DemoScore
  Unspeakable <- MCNothing
  MaxSequence = 11
SPECIFICATION StackSpec
CHECK_DEADLOCK FALSE
INVARIANT SafeReplayIsNoFailure
