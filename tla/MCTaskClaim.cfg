SPECIFICATION FairSpec
CONSTANTS
  Runs = {r1, r2}
  Calls = {c1, c2}
  NoRun = NoRun
  MaxSessions = 2
  MaxBells = 1
  Faults = TRUE
INVARIANTS SingleFlight NoLostWake
PROPERTIES QueuedIsClaimed RefinesDoorbell
CHECK_DEADLOCK FALSE
