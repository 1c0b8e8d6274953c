CONSTANTS
  e1 = e1
  e2 = e2
  Execution = {e1, e2}
  Tool <- MCTools
  READ_ONLY_TOOLS <- MCReadOnly
  MaxImages = 3
SPECIFICATION EvidenceSpec
SYMMETRY Symmetry
INVARIANTS
  TornIsNoticed
  SchemaReceiptTrue
  McpReceiptBacked
  LocalReceiptNamesImage
  ContainersAccounted
CHECK_DEADLOCK FALSE
