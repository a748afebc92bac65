SPECIFICATION Spec
CONSTANTS
  s1 = s1  s2 = s2
  m1 = m1  m2 = m2  m3 = m3  m4 = m4
  Tombstone = Tombstone
  Vacant = Vacant
  Senders <- TwoSenders
  Spawns <- Smallest
  MaxIncarnation = 2
  MaxParks = 1
  Faults = {"panic", "selfStop", "passivation", "externalStop", "contention", "earlyRestart"}
  Envelope <- Messages3
  Program <- TwoAndOne
  MaxOffset = 2
CHECK_DEADLOCK FALSE
INVARIANT ConservedUnlessEvicting
