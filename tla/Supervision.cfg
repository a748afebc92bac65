SPECIFICATION FairSpec
CONSTANTS
  Specs <- Various
  Faults = {"initFails", "load", "stop", "abort", "respawn", "shutdown"}
  MaxTime = 2
  MaxCrashes = 3
  MaxStops = 1
  MaxMail = 2
CHECK_DEADLOCK FALSE
INVARIANT WithinBudget
INVARIANT OneLoop
INVARIANT EsMailAccounted
PROPERTY CrashHandledUnlessSlipped
