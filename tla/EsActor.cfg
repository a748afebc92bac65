SPECIFICATION FairSpec
CONSTANTS
  c1 = c1  c2 = c2  c3 = c3  c4 = c4
  Message <- Commands
  Script <- Mixed
  Facts <- Weights
  Unhandled <- OddOne
  Undeclared <- Loose
  Spawns <- Various
  Faults = {"panic", "append", "snapshot", "load", "stop", "abort", "die"}
  MaxFailures = 3
  MaxSpawns = 3
CHECK_DEADLOCK FALSE
INVARIANT StateMatchesJournal
INVARIANT RecordedOnce
INVARIANT ToldAsRecorded
INVARIANT ToldNeverRedelivers
PROPERTY ImplementsEventLog
PROPERTY EventuallyHandled
