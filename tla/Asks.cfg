SPECIFICATION FairSpec
CONSTANTS
  a = a
  b = b
  c = c
  Nobody = Nobody
  Actors = {a, b}
  Clients = {c}
  Wirings <- ChainOrMutual
  Capacity = 1
  MaxAsks = 3
  Budgets <- OneFault
CHECK_DEADLOCK FALSE
INVARIANT OwnReply
INVARIANT LeaseDies
PROPERTY AsksSettle
