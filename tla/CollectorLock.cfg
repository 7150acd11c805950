SPECIFICATION Spec
CONSTANTS
  Procs = {p1, p2}
  Free = Free
  Watched = p1
  Roles = {"fw"}
  Hosts = {"pf"}
  QueueCap = 1
  BatchMax = 2
  MaxChanges = 1
  MaxEvents = 1
INVARIANTS OneCollector
