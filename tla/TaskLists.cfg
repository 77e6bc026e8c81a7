SPECIFICATION FairSpec
CONSTANTS
  Tasks = {t1, t2}
  NoTask = NoTask
  Len = 2
  EachNum = 1
  MaxThreads = 5
  Kinds = {"serial", "parallel", "elegant", "elegantSerial"}
  DbFails = FALSE
  Commands = {"patch", "restart", "plain"}
INVARIANTS BatchesApart FailureStops FlowHeldBack OneRolling FinishedIsDone
PROPERTIES ListEnds
CHECK_DEADLOCK FALSE
