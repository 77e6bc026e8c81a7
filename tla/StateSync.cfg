SPECIFICATION FairSpec
CONSTANTS
  Node = {n1}
  Direct = {d1}
  AsyncAfter = 1
  Window = 1
  FullEvery = 2
  ProtectRate = 30
  MaxFaults = 1
  MaxFaultsProtected = 0
INVARIANTS SyncInv
PROPERTIES ActiveListed DeadUnlisted StoppedUnlisted
