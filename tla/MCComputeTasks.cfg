SPECIFICATION FairSpec
CONSTANTS
  Tasks = {t1, t2, t3}
  NoTask = NoTask
  MaxParallel = 2
  MaxSessions = 2
  MaxFaults = 1
INVARIANTS SingleDrain LossBound
PROPERTIES RefinesLedger QueuedIsClaimed ClaimedEnds
CHECK_DEADLOCK FALSE
