SPECIFICATION Spec
CONSTANTS
  Files = {f1}
  Readers = {r1, r2}
  NoReader = NoReader
  MemNum = 2
  MaxVersion = 2
  Faults = {"io"}
INVARIANTS ServedIsLoaded
