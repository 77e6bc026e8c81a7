SPECIFICATION FairSpec
CONSTANTS
  Handler = {h1, h2}
  Report = {r1}
  Db = {d1}
  Interval = 4
  Grace = 2
  MaxFaults = 2
INVARIANTS StatInv StoredOnce SkippedOnlyIfLate
PROPERTIES TablesDrain
CONSTRAINTS Parted Unsettled
CHECK_DEADLOCK FALSE
