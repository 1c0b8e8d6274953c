CONSTANTS
  c1 = c1
  c2 = c2
  Client <- MCClients
  Event <- MCEvents
  Attempts = 4
  MaxCalls = 1
SPECIFICATION FairSpec
INVARIANTS
  TypeOK
  RowsWellKeyed
  TrueMeansOwnRow
  FalseMeansReplay
  DefiniteErrorsLeaveNothing
  DuplicateMeansPositionHeld
CHECK_DEADLOCK FALSE
PROPERTIES
  EveryCallEnds
  LedgerPromise
