CONSTANTS
  b1 = b1
  b2 = b2
  Builder <- MCBuilders
  Root <- MCRoot
  Found <- MCFound
  Never <- MCNever
  MaxEdits = 2
SPECIFICATION Spec
SYMMETRY Symmetry
INVARIANT ManifestDescribesTree
PROPERTY FinishedIsFinal
CHECK_DEADLOCK FALSE
