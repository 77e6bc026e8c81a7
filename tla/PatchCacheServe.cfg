SPECIFICATION Spec
CONSTANTS
  Files = {f1, f2}
  Readers = {r1, r2}
  NoReader = NoReader
  MemNum = 2
  MaxVersion = 2
  Faults = {"malloc", "io"}
INVARIANTS CacheInv HeldIsMine CopiesWhatItAsked
