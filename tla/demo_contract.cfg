CONSTANTS
  s1 = s1
  r1 = r1
  r2 = r2
  r3 = r3
  Seeder <- MCSeeders1
  Run <- MCRuns1
  Request <- DemoRequests
  Postable <- Priors
  Backend = "sqlite"
  RecallLimit = 3
  Score <- DemoScore
  Unspeakable <- MCNothing
  MaxSequence = 11
SPECIFICATION SeededSpec
INVARIANT ContractHolds
CHECK_DEADLOCK FALSE
