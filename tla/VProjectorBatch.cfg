SPECIFICATION Spec
CONSTANTS
  a = a
  b = b
  Sources <- TwoSources
  FactsOf <- TwoAndOne
  Modes = {"owned", "standalone"}
  Batch = 2
  Budgets <- NoFault
  MaxOps = 1
  MaxArms = 3
CHECK_DEADLOCK FALSE
INVARIANT FoldedOnce
