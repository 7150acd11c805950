SPECIFICATION FairSpec
CONSTANTS
  RunIDs = {i1, i2}
  Kinds = {"process", "adapter", "socket", "tunnel"}
  NoRun = NoRun
  MaxSessions = 2
INVARIANTS RegistryIsPumping SweptBeforeCancel
PROPERTIES ClosingEnds
CHECK_DEADLOCK FALSE
