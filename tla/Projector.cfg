SPECIFICATION FairSpec
CONSTANTS
  a = a
  b = b
  Sources <- TwoSources
  FactsOf <- TwoAndOne
  Modes = {"owned", "standalone"}
  Batch = 1
  Budgets <- OneFault
  MaxOps = 1
  MaxArms = 3
CHECK_DEADLOCK FALSE
INVARIANT FoldedOnce
INVARIANT NothingMissed
INVARIANT SourceOrder
INVARIANT ReadWhole
PROPERTY EventuallyFolded
PROPERTY WakeSeesCatchUp
