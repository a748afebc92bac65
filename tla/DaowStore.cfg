SPECIFICATION FairSpec
CONSTANTS
  entity = entity
  projector = projector
  Recorded = Recorded
  Nobody = Nobody
  Paths <- Both
  Projectors <- ReadModels
  MaxFacts = 2
  MaxBatch = 2
  Budgets <- Pairs
CHECK_DEADLOCK FALSE
INVARIANT FrontierDurable
INVARIANT ArrivalOrder
INVARIANT CutUnlessSliced
INVARIANT ScanExact
PROPERTY ImplementsJournalStore
PROPERTY EventuallyFlushed
