SPECIFICATION Spec
CONSTANTS
  Tasks = {t1, t2}
  NoTask = NoTask
  Len = 3
  EachNum = 2
  MaxThreads = 5
  Kinds = {"elegant"}
  DbFails = TRUE
  Commands = {"patch"}
INVARIANTS OneRollingAtAll
