SPECIFICATION Spec
CONSTANTS
  Tasks = {t1, t2}
  Size = 2
  MaxAttempts = 2
  NoFile = NoFile
INVARIANT ImageVerified
