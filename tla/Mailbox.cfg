SPECIFICATION FairSpec
CONSTANTS
  s1 = s1  s2 = s2
  m1 = m1  m2 = m2  m3 = m3  m4 = m4
  Tombstone = Tombstone
  Vacant = Vacant
  Senders <- TwoSenders
  Spawns <- Sound
  MaxIncarnation = 2
  MaxParks = 9
  Faults = {"panic"}
  Envelope <- Messages4
  Program <- ThreeAndOne
  MaxOffset = 3
CHECK_DEADLOCK FALSE
INVARIANT Conservation
PROPERTY ImplementsFifoQueue
PROPERTY EventuallyConsumed
