SPECIFICATION Spec
CONSTANTS
  worker1 = worker1
  worker2 = worker2
  auditor = auditor
  observer = observer
  orders = orders
  views = views
  k1 = k1
  k2 = k2
  job = job
  fact = fact
  order = order
  s1 = s1
  s2 = s2
  NoKey = NoKey
  Nobody = Nobody
  Anything = Anything
  Plain <- TwoWorkersAndMore
  PartitionSets = {orders}
  ProjectorSets = {views}
  Keys = {k1, k2}
  Schemas = {job, fact, order}
  Events = {fact}
  Handles <- Declared
  Emits <- Announced
  Senders <- TwoSenders
  Program <- Traffic
  Rules <- TwoRules
  Budgets <- Some
CHECK_DEADLOCK FALSE
 
INVARIANT Placed
INVARIANT Rotates
