SPECIFICATION FairSpec
CONSTANTS
  RunIDs = {i1}
  Kinds = {"process", "adapter", "socket", "tunnel"}
  NoRun = NoRun
  MaxSessions = 2
PROPERTIES NoOrphan
CHECK_DEADLOCK FALSE
