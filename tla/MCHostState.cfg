SPECIFICATION HostSpec
CONSTANTS
  Txns = {a1, a2}
  Sets <- MCSets
  Packages <- MCPackages
  Answers <- MCAnswers
  Nobody = Nobody
  net = net
  dflt = dflt
  h1 = h1
  h2 = h2
  Slots = {net, dflt}
  Slots6 = {net}
  Hops = {h1, h2}
  Metrics = {0}
  None = None
  MaxFaults = 1
  MaxOutside = 1
  MaxCrashes = 1
  Installers = {a1, a2}
  Starters = {s1}
  Uninstallers = {u1}
  NoFrame = NoFrame
  Ids = {id1}
  Envelopes = {"wrong", "right"}
  Signed = FALSE
  BundleName = "tool"
  Creates = {a1, a2}
  Size = 2
  MaxAttempts = 2
  NoFile = NoFile
  Editors = {a1, a2}
  Keys = {k1}
  NoKey = NoKey
  NoKeys = NoKeys
  MaxEdits = 1
  Starts = {a1, a2}
  Names = {n1, n2}
  Free = Free
  Operator = Operator
  Sessions = {s1, s2}
  Limit = 2
  MaxInput = 5
  Cmds = {a1, a2, a3}
INVARIANTS Applied Restored Recorded RecordedIsCommitted
  NoClobber AloneIsExact LateInstallsHarmless AloneVerified AloneEdits
  Released OperatorKept LinesExact OneIdentity
PROPERTIES ActiveKept
SYMMETRY ActorSymmetry
CHECK_DEADLOCK FALSE
