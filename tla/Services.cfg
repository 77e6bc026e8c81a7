SPECIFICATION ServicesSpec
CONSTANTS
  A = {a1, a2}
  B = {b1, b2}
  One = {c1}
  SwitchInterval = 1
  Grace = 2
  MaxInsert = 1
  Values = 1
  PoolSize = 1
  Hours = 2
  Minutes = {0, 1}
  MaxQueries = 2
  LimitRate = 2
  LimitInterval = 2
  LimitTime = 6
  Closure = 1
  MaxOvertime = 2
  TraceTime = 2
  MaxCrashes = 1
  Host = {"a", "b"}
  Rows <- MCRows
  TimeShare = 50
  TimeoutShare = 50
  Half = 65536
  MaxOps = 3
  MaxChanges = 1
  MaxRequests = 2
  MaxVersion = 2
  FewFaults = 1
  MaxFaults = 2
INVARIANTS
  PropertyKept OrdersKept AnswersTrue ConfigKept CountedOnce RightConnection ContainersKept
CHECK_DEADLOCK FALSE
