SPECIFICATION Spec
CONSTANTS
  Handlers = {h1}
  KeepAlive = keepAlive
  Patchers = {b1}
  Pids = {p1, p2}
  NoPid = NoPid
  NoThread = NoThread
  Ops = {"start", "stop", "patch"}
  MaxRequests = 1
  Faults = {"outage", "late", "fork", "limit", "stall", "noExe"}
SYMMETRY Symmetry
INVARIANT LifecycleInv
