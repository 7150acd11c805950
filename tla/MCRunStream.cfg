SPECIFICATION FairSpec
CONSTANTS
  Kinds = {"shell", "bundle", "proxy", "wireguard", "vnc", "kdp", "mcp", "coder"}
  Sources = {s1, s2}
  Main = s1
  Cap = 2
INVARIANTS NoPanic OneExit
PROPERTIES StopEnds DeathEnds CtxEnds
CHECK_DEADLOCK FALSE
