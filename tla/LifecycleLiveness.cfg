SPECIFICATION FairSpec
CONSTANTS
  Handlers = {h1}
  KeepAlive = keepAlive
  Patchers = {b1}
  Pids = {p1, p2}
  NoPid = NoPid
  NoThread = NoThread
  Ops = {"start", "stop", "patch"}
  MaxRequests = 1
  Faults = {"fork"}
INVARIANTS MonitorStartsOne EnabledAgrees
PROPERTIES Recovery PatchEnds HungIsStopped
