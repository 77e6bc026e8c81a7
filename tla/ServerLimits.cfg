SPECIFICATION LimitsSpec
CONSTANTS
  Limits <- MCLimits
  Ancient = 5
  MaxRequested = 2
  MaxStop = 2
  CoreInterval = 2
  CoreExpired = 2
INVARIANTS BurstBound CoreOK
PROPERTIES PunishmentEnds CoreReopens
CHECK_DEADLOCK FALSE
