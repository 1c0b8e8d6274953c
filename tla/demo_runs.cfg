CONSTANTS
  s1 = s1
  r1 = r1
  r2 = r2
  r3 = r3
  Seeder <- MCSeeders1
  Run <- MCRuns3
  Request <- DemoRequests
  Postable <- Priors
  Backend = "cockroach"
  RecallLimit = 3
  Score <- DemoScore
  Unspeakable <- MCNothing
  MaxSequence = 11
SPECIFICATION DemoSpec
SYMMETRY Symmetry
INVARIANTS
  AnswerCitesOwnPrior
  RunbookScenariosHold
CHECK_DEADLOCK FALSE
