SPECIFICATION ReportersSpec
CONSTANTS
  Procs = {p1, p2}
  Free = Free
  Watched = p1
  Roles = {"fw", "route"}
  Hosts = {"pf", "linux"}
  QueueCap = 1
  BatchMax = 2
  MaxChanges = 1
  MaxEvents = 2
  Devices = {d1, d2}
  None = None
  Zero = Zero
INVARIANTS EventsOnce
PROPERTIES HashReported DeviceKnown
CHECK_DEADLOCK FALSE
