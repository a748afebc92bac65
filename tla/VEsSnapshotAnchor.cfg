SPECIFICATION Spec
CONSTANTS
  c1 = c1  c2 = c2  c3 = c3  c4 = c4
  Message <- Commands
  Script <- Mixed
  Facts <- Weights
  Unhandled <- Nobody
  Undeclared <- Nobody
  Spawns <- Counted
  Faults = {"panic"}
  MaxFailures = 1
  MaxSpawns = 1
CHECK_DEADLOCK FALSE
INVARIANT StateMatchesJournal
