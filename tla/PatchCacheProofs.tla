-------------------------- MODULE PatchCacheProofs --------------------------
(***************************************************************************)
(* Proofs about PatchCache: a block is never taken away from the downloads *)
(* that hold it, and MemCount counts them, for any number of files,        *)
(* downloads, blocks and versions.                                         *)
(***************************************************************************)
EXTENDS PatchCache, FiniteSetTheorems, TLAPS

\* What _mapFiles holds for a file without a block is no block's number.
LEMMA Codes == /\ Unmapped \notin Block /\ Dangling \notin Block
               /\ Block \subseteq 0..MemNum + 1
               /\ Unmapped \in 0..MemNum + 1 /\ Dangling \in 0..MemNum + 1
BY PatchCacheAssumption DEF Unmapped, Dangling, Block

\* The allocated blocks are blocks.
LEMMA AllocatedBlocks == TypeOK => 1..allocated \subseteq Block
BY PatchCacheAssumption DEF TypeOK, Block

\* A block that one more download holds, as it was or loaded with c.
LEMMA BlockTyped ==
    ASSUME NEW x \in MemState
    PROVE  /\ [x EXCEPT !.count = x.count + 1, !.expired = FALSE] \in MemState
           /\ \A c \in Content :
                [x EXCEPT !.count = x.count + 1, !.expired = FALSE,
                          !.load = "LOADED", !.content = c] \in MemState
<1>1. x.count + 1 \in Nat
  BY DEF MemState
<1>2. ASSUME NEW n \in Nat, NEW c \in Content
      PROVE  /\ [x EXCEPT !.count = n, !.expired = FALSE] \in MemState
             /\ [x EXCEPT !.count = n, !.expired = FALSE,
                          !.load = "LOADED", !.content = c] \in MemState
  BY DEF MemState
<1>3. Torn \in Content
  BY DEF Content
<1> QED
  BY <1>1, <1>2, <1>3

\* A block that is being loaded for a file.
LEMMA LoadingTyped ==
    ASSUME TypeOK, NEW b \in Block, NEW f \in Files, mem' = Loading(b, f)
    PROVE  mem' \in [Block -> MemState]
BY DEF TypeOK, Loading, MemState, Version

\* The start of a download.
LEMMA StartTyped ==
    ASSUME TypeOK, NEW r \in Readers, NEW f \in Files, NEW b \in Block,
           NEW pc \in {"open", "copy"}, Start(r, f, b, pc)
    PROVE  reader' \in [Readers -> ReaderType]
BY DEF TypeOK, Start, ReaderType, Content

\* The steps of load keep every variable's type.
LEMMA LoadKeepsType ==
    ASSUME TypeOK, NEW r \in Readers, NEW f \in Files, load(r, f)
    PROVE  TypeOK'
<1> USE PatchCacheAssumption, Codes
<1>1. CASE LoadDangling(r, f)
  BY <1>1 DEF LoadDangling, TypeOK
<1>2. CASE LoadReuse(r, f)
  <2>1. reader' \in [Readers -> ReaderType]
    BY <1>2, StartTyped DEF LoadReuse
  <2>2. mem' \in [Block -> MemState]
    <3> DEFINE m == [mem[mapFiles[f]] EXCEPT !.count = mem[mapFiles[f]].count + 1,
                                             !.expired = FALSE]
    <3>1. m \in MemState
      BY <1>2, BlockTyped DEF LoadReuse, TypeOK
    <3>2. mem' = [mem EXCEPT ![mapFiles[f]] = m]
      BY <1>2 DEF LoadReuse
    <3> HIDE DEF m
    <3> QED
      BY <3>1, <3>2 DEF TypeOK
  <2> QED
    BY <1>2, <2>1, <2>2 DEF LoadReuse, TypeOK
<1>3. CASE LoadReload(r, f)
  <2>1. reader' \in [Readers -> ReaderType]
    BY <1>3, StartTyped DEF LoadReload
  <2>2. mem' \in [Block -> MemState]
    BY <1>3 DEF LoadReload, TypeOK, MemState, Version
  <2> QED
    BY <1>3, <2>1, <2>2 DEF LoadReload, TypeOK
<1>4. CASE LoadEvicting(r, f)
  <2>1. PICK b \in 1..allocated :
          /\ mapFiles' = [mapFiles EXCEPT ![mem[b].file] = Unmapped, ![f] = b]
          /\ mem' = Loading(b, f)
          /\ Start(r, f, b, "open")
    BY <1>4 DEF LoadEvicting
  <2>2. b \in Block
    BY AllocatedBlocks
  <2>3. reader' \in [Readers -> ReaderType]
    BY <2>1, <2>2, StartTyped
  <2>4. mem' \in [Block -> MemState]
    BY <2>1, <2>2, LoadingTyped
  <2>5. mapFiles' \in [Files -> 0..MemNum + 1]
    BY <2>1, <2>2 DEF TypeOK
  <2> QED
    BY <1>4, <2>3, <2>4, <2>5 DEF LoadEvicting, TypeOK
<1>5. CASE LoadAllocating(r, f)
  <2>1. allocated + 1 \in Block
    BY <1>5 DEF LoadAllocating
  <2>2. reader' \in [Readers -> ReaderType]
    BY <1>5, <2>1, StartTyped DEF LoadAllocating
  <2>3. mem' \in [Block -> MemState]
    BY <1>5, <2>1, LoadingTyped DEF LoadAllocating
  <2>4. mapFiles' \in [Files -> 0..MemNum + 1] /\ allocated' \in 0..MemNum
    BY <1>5, <2>1 DEF LoadAllocating, TypeOK, Block
  <2> QED
    BY <1>5, <2>2, <2>3, <2>4 DEF LoadAllocating, TypeOK
<1>6. CASE LoadMallocFails(r, f)
  BY <1>6 DEF LoadMallocFails, TypeOK
<1> QED
  BY <1>1, <1>2, <1>3, <1>4, <1>5, <1>6 DEF load

\* A load that failed.
LEMMA LoadFailedTyped ==
    ASSUME TypeOK, LoadsAlone, NEW r \in Readers, NEW c \in Content,
           reader[r].pc \in {"open", "read"}, LoadFailed(r, c),
           UNCHANGED <<disk, allocated, mapFiles>>
    PROVE  TypeOK'
<1>1. reader[r].block \in Block
  BY AllocatedBlocks DEF LoadsAlone
<1>2. mem' \in [Block -> MemState]
  BY <1>1 DEF LoadFailed, TypeOK, MemState
<1>3. reader' \in [Readers -> ReaderType]
  BY DEF LoadFailed, TypeOK, ReaderType
<1> QED
  BY <1>2, <1>3 DEF LoadFailed, TypeOK

\* A block that somebody holds has a positive MemCount.
LEMMA HeldIsCounted ==
    ASSUME TypeOK, HeldIsMapped, RefCount, NEW r \in Readers,
           reader[r].pc \in {"copy", "release"}
    PROVE  mem[reader[r].block].count \in Nat \ {0}
<1> DEFINE b == reader[r].block
<1>1. b \in 1..allocated /\ b \in Block
  BY AllocatedBlocks DEF HeldIsMapped
<1>2. IsFiniteSet(Holding(b)) /\ r \in Holding(b)
  BY PatchCacheAssumption, FS_Subset DEF Holding
<1>3. Cardinality(Holding(b)) # 0
  BY <1>2, FS_EmptySet
<1> QED
  BY <1>1, <1>3 DEF RefCount, TypeOK, MemState

\* The steps of a download keep every variable's type.
LEMMA DownloadKeepsType ==
    ASSUME TypeOK, LoadsAlone, HeldIsMapped, RefCount,
           NEW r \in Readers, Download(r)
    PROVE  TypeOK'
<1>1. CASE LoadOpen(r)
  <2>1. reader[r].block \in Block /\ mem[reader[r].block].content \in Content
    BY <1>1, AllocatedBlocks DEF LoadOpen, LoadsAlone, TypeOK, MemState
  <2>2. CASE /\ mem' = [mem EXCEPT ![reader[r].block].content = Torn]
             /\ reader' = [reader EXCEPT ![r].pc = "read"]
             /\ UNCHANGED mutex
    <3>1. mem' \in [Block -> MemState]
      BY <2>1, <2>2 DEF TypeOK, MemState, Content
    <3>2. reader' \in [Readers -> ReaderType]
      BY <2>2 DEF TypeOK, ReaderType
    <3> QED
      BY <1>1, <2>2, <3>1, <3>2 DEF LoadOpen, TypeOK
  <2>3. CASE LoadFailed(r, mem[reader[r].block].content)
    BY <1>1, <2>1, <2>3, LoadFailedTyped DEF LoadOpen
  <2> QED
    BY <1>1, <2>2, <2>3 DEF LoadOpen
<1>2. CASE LoadRead(r)
  <2>1. reader[r].block \in Block
    BY <1>2, AllocatedBlocks DEF LoadRead, LoadsAlone
  <2>2. CASE LoadFailed(r, Torn)
    BY <1>2, <2>2, LoadFailedTyped DEF LoadRead, Content
  <2>3. ASSUME NEW c \in Content,
               mem' = [mem EXCEPT ![reader[r].block] =
                         [@ EXCEPT !.count = mem[reader[r].block].count + 1, !.expired = FALSE,
                                   !.load = "LOADED", !.content = c]],
               mutex' = NoReader,
               reader' = [reader EXCEPT ![r].pc = "copy"]
        PROVE  TypeOK'
    <3> DEFINE m == [mem[reader[r].block] EXCEPT !.count = mem[reader[r].block].count + 1,
                                                 !.expired = FALSE,
                                                 !.load = "LOADED", !.content = c]
    <3>0. m \in MemState
      BY <2>1, BlockTyped DEF TypeOK
    <3>1. mem' \in [Block -> MemState]
      <4>1. mem' = [mem EXCEPT ![reader[r].block] = m]
        BY <2>3
      <4> HIDE DEF m
      <4> QED
        BY <2>1, <3>0, <4>1 DEF TypeOK
    <3>2. reader' \in [Readers -> ReaderType]
      BY <2>3 DEF TypeOK, ReaderType
    <3> QED
      BY <1>2, <2>3, <3>1, <3>2 DEF LoadRead, TypeOK
  <2>4. Torn \in Content /\ Fetched(reader[r].file, disk[reader[r].file]) \subseteq Content
    <3>1. reader[r].file \in Files /\ disk[reader[r].file] \in Version
      BY DEF TypeOK, ReaderType
    <3>2. \A f \in Files, v \in Version : Package(f, v) \in Content /\ Cut(f, v) \in Content
      BY DEF Content, Package, Cut
    <3> QED
      BY <3>1, <3>2 DEF Content, Fetched
  <2>5. \/ LoadFailed(r, Torn)
        \/ /\ \E c \in Content :
                mem' = [mem EXCEPT ![reader[r].block] =
                          [@ EXCEPT !.count = mem[reader[r].block].count + 1, !.expired = FALSE,
                                    !.load = "LOADED", !.content = c]]
           /\ mutex' = NoReader
           /\ reader' = [reader EXCEPT ![r].pc = "copy"]
    BY <1>2, <2>4, Zenon DEF LoadRead
  <2> QED
    BY <2>2, <2>3, <2>5
<1>3. CASE Copy(r)
  <2>1. mem[reader[r].block].content \in Content
    BY <1>3, AllocatedBlocks DEF Copy, HeldIsMapped, TypeOK, MemState
  <2> QED
    BY <1>3, <2>1 DEF Copy, TypeOK, ReaderType
<1>4. CASE release(r)
  <2>1. /\ mapFiles[reader[r].file] = reader[r].block
        /\ reader[r].block \in Block
        /\ mem[reader[r].block].count - 1 \in Nat
    BY <1>4, AllocatedBlocks, HeldIsCounted DEF release, HeldIsMapped
  <2>2. mem' \in [Block -> MemState]
    BY <1>4, <2>1 DEF release, TypeOK, MemState
  <2>3. reader' \in [Readers -> ReaderType]
    BY <1>4 DEF release, TypeOK, ReaderType
  <2> QED
    BY <1>4, <2>2, <2>3 DEF release, TypeOK
<1> QED
  BY <1>1, <1>2, <1>3, <1>4 DEF Download

\* So does a package being replaced, and time passing.
LEMMA OutsideKeepsType ==
    ASSUME TypeOK, \/ \E f \in Files : preparePatchFile(f)
                   \/ \E b \in Block : Expire(b)
                   \/ UNCHANGED vars
    PROVE  TypeOK'
<1>1. ASSUME NEW f \in Files, preparePatchFile(f)
      PROVE  TypeOK'
  <2>1. disk[f] + 1 \in Version
    BY <1>1, PatchCacheAssumption DEF preparePatchFile, TypeOK, Version
  <2> QED
    BY <1>1, <2>1 DEF preparePatchFile, TypeOK
<1>2. ASSUME NEW b \in Block, Expire(b)
      PROVE  TypeOK'
  BY <1>2 DEF Expire, TypeOK, MemState
<1>3. CASE UNCHANGED vars
  BY <1>3 DEF vars, TypeOK
<1> QED
  BY <1>1, <1>2, <1>3

-----------------------------------------------------------------------------
\* load keeps _mapFiles and the blocks' names inverse of each other, and takes
\* no block from a download.
LEMMA LoadKeepsMap ==
    ASSUME CacheInv, TypeOK', NEW r \in Readers, NEW f \in Files, load(r, f)
    PROVE  Mapped' /\ LoadsAlone' /\ HeldIsMapped'
<1> USE PatchCacheAssumption, Codes, AllocatedBlocks DEF CacheInv
<1>1. CASE LoadDangling(r, f)
  BY <1>1 DEF LoadDangling, TypeOK, Mapped, LoadsAlone, HeldIsMapped, ReaderType,
     MemState
<1>2. CASE LoadReuse(r, f)
  <2>1. \A b \in Block : mem'[b].file = mem[b].file
    BY <1>2 DEF LoadReuse, TypeOK, MemState
  <2>2. Mapped'
    BY <1>2, <2>1 DEF LoadReuse, TypeOK, Mapped
  <2>3. reader'[r].pc = "copy" /\ reader'[r].file = f /\ reader'[r].block = mapFiles[f]
    BY <1>2 DEF LoadReuse, Start, TypeOK
  <2>4. \A s \in Readers \ {r} : reader'[s] = reader[s]
    BY <1>2 DEF LoadReuse, Start, TypeOK
  <2>5. mapFiles[f] \in 1..allocated
    BY <1>2 DEF LoadReuse, TypeOK, Mapped, Block
  <2> QED
    BY <1>2, <2>2, <2>3, <2>4, <2>5 DEF LoadReuse, LoadsAlone, HeldIsMapped
<1>3. CASE LoadReload(r, f)
  <2>1. \A b \in Block : mem'[b].file = mem[b].file
    BY <1>3 DEF LoadReload, TypeOK, MemState
  <2>2. Mapped'
    BY <1>3, <2>1 DEF LoadReload, TypeOK, Mapped
  <2>3. reader'[r].pc = "open" /\ reader'[r].file = f /\ reader'[r].block = mapFiles[f]
    BY <1>3 DEF LoadReload, Start, TypeOK
  <2>4. \A s \in Readers \ {r} : reader'[s] = reader[s]
    BY <1>3 DEF LoadReload, Start, TypeOK
  <2>5. mapFiles[f] \in 1..allocated
    BY <1>3 DEF LoadReload, TypeOK, Mapped, Block
  <2> QED
    BY <1>3, <2>2, <2>3, <2>4, <2>5 DEF LoadReload, LoadsAlone, HeldIsMapped
<1>4. ASSUME NEW b \in Block,
             mapFiles' = [mapFiles EXCEPT ![mem[b].file] = Unmapped, ![f] = b],
             mem' = Loading(b, f), Start(r, f, b, "open"), LoadEvicting(r, f),
             b <= allocated, Evictable(b)
      PROVE  Mapped' /\ LoadsAlone' /\ HeldIsMapped'
  <2>1. mem'[b].file = f /\ \A c \in Block \ {b} : mem'[c].file = mem[c].file
    BY <1>4 DEF Loading, TypeOK, MemState
  <2>2. mem[b].file \in Files /\ mapFiles[mem[b].file] = b /\ mapFiles[f] = Unmapped
    BY <1>4 DEF LoadEvicting, TypeOK, MemState, Mapped, Block
  <2>3. /\ mapFiles'[f] = b /\ mapFiles'[mem[b].file] = Unmapped
        /\ \A g \in Files \ {f, mem[b].file} : mapFiles'[g] = mapFiles[g]
    BY <1>4, <2>2 DEF TypeOK
  <2>4. \A c \in 1..allocated : c # b =>
            mem[c].file \in Files /\ mem[c].file # f /\ mem[c].file # mem[b].file
    BY <2>2 DEF Mapped, TypeOK, MemState
  <2>5. allocated' = allocated /\ mutex = NoReader /\ mutex' = r
    BY <1>4 DEF LoadEvicting
  <2>6. Mapped'
    <3>1. \A g \in Files : mapFiles'[g] \in Block =>
              mapFiles'[g] <= allocated' /\ mem'[mapFiles'[g]].file = g
      <4>1. ASSUME NEW g \in Files \ {f, mem[b].file}, mapFiles'[g] \in Block
            PROVE  mapFiles'[g] <= allocated' /\ mem'[mapFiles'[g]].file = g
        <5>1. /\ mapFiles[g] \in Block /\ mapFiles[g] <= allocated
              /\ mem[mapFiles[g]].file = g
          BY <2>3, <4>1 DEF Mapped
        <5>2. mapFiles[g] # b
          BY <5>1
        <5> QED
          BY <2>1, <2>3, <2>5, <4>1, <5>1, <5>2
      <4>2. mapFiles'[f] <= allocated' /\ mem'[mapFiles'[f]].file = f
        BY <1>4, <2>1, <2>3, <2>5
      <4>3. mapFiles'[mem[b].file] \notin Block
        BY <2>3
      <4> QED
        BY <4>1, <4>2, <4>3
    <3>2. \A c \in 1..allocated' : mapFiles'[mem'[c].file] = c
      BY <2>1, <2>2, <2>3, <2>4, <2>5 DEF Mapped
    <3> QED
      BY <3>1, <3>2 DEF Mapped
  <2>7. reader'[r].pc = "open" /\ reader'[r].file = f /\ reader'[r].block = b
    BY <1>4 DEF Start, TypeOK
  <2>8. \A s \in Readers \ {r} : reader'[s] = reader[s]
    BY <1>4 DEF Start, TypeOK
  <2>9. \A s \in Readers : reader[s].pc \notin {"open", "read"}
    BY <2>5 DEF LoadsAlone
  <2>10. ASSUME NEW s \in Readers, reader[s].pc \in {"copy", "release"}
         PROVE  reader[s].block # b
    <3>1. SUFFICES ASSUME reader[s].block = b
                   PROVE  FALSE
      OBVIOUS
    <3>2. Cardinality(Holding(b)) # 0
      <4>1. IsFiniteSet(Holding(b)) /\ s \in Holding(b)
        BY <2>10, <3>1, FS_Subset DEF Holding
      <4> QED
        BY <4>1, FS_EmptySet
    <3> QED
      BY <1>4, <3>2 DEF RefCount, Evictable, Block
  <2>11. LoadsAlone'
    BY <1>4, <2>3, <2>5, <2>7, <2>8, <2>9 DEF LoadsAlone, Block
  <2>12. HeldIsMapped'
    <3>1. ASSUME NEW s \in Readers, reader'[s].pc \in {"copy", "release"}
          PROVE  /\ reader'[s].block \in 1..allocated'
                 /\ mapFiles'[reader'[s].file] = reader'[s].block
      <4>1. s # r /\ reader'[s] = reader[s]
        BY <2>7, <2>8, <3>1
      <4>2. reader[s].block \in 1..allocated /\ reader[s].block # b
            /\ mapFiles[reader[s].file] = reader[s].block
            /\ reader[s].file \in Files
        BY <2>10, <3>1, <4>1 DEF HeldIsMapped, TypeOK, ReaderType
      <4> QED
        BY <2>2, <2>3, <2>5, <4>1, <4>2
    <3> QED
      BY <3>1 DEF HeldIsMapped
  <2> QED
    BY <2>6, <2>11, <2>12
<1>5. CASE LoadAllocating(r, f)
  <2> DEFINE b == allocated + 1
  <2>1. /\ b \in Block /\ b \notin 1..allocated /\ allocated' = b
        /\ 1..b = 1..allocated \cup {b} /\ mutex = NoReader /\ mutex' = r
    BY <1>5 DEF LoadAllocating, TypeOK
  <2>2. mem'[b].file = f /\ \A c \in Block \ {b} : mem'[c].file = mem[c].file
    BY <1>5, <2>1 DEF LoadAllocating, Loading, TypeOK, MemState
  <2>3. /\ mapFiles[f] = Unmapped /\ mapFiles'[f] = b
        /\ \A g \in Files \ {f} : mapFiles'[g] = mapFiles[g]
    BY <1>5 DEF LoadAllocating, TypeOK
  <2>4. reader'[r].pc = "open" /\ reader'[r].file = f /\ reader'[r].block = b
    BY <1>5 DEF LoadAllocating, Start, TypeOK
  <2>5. \A s \in Readers \ {r} : reader'[s] = reader[s]
    BY <1>5 DEF LoadAllocating, Start, TypeOK
  <2>6. Mapped'
    <3>1. \A g \in Files : mapFiles'[g] \in Block =>
              mapFiles'[g] <= b /\ mem'[mapFiles'[g]].file = g
      <4>1. ASSUME NEW g \in Files, g # f, mapFiles'[g] \in Block
            PROVE  mapFiles'[g] <= b /\ mem'[mapFiles'[g]].file = g
        <5>1. /\ mapFiles[g] \in Block /\ mapFiles[g] <= allocated
              /\ mem[mapFiles[g]].file = g
          BY <2>3, <4>1 DEF Mapped
        <5>2. mapFiles[g] # b /\ mapFiles[g] <= b
          BY <5>1 DEF TypeOK, Block
        <5> QED
          BY <2>2, <2>3, <4>1, <5>1, <5>2
      <4> QED
        BY <2>1, <2>2, <2>3, <4>1 DEF Block
    <3>2. \A c \in 1..b : mapFiles'[mem'[c].file] = c
      <4>1. ASSUME NEW c \in 1..allocated
            PROVE  mapFiles'[mem'[c].file] = c
        <5>1. c \in Block /\ c # b /\ mapFiles[mem[c].file] = c /\ mem[c].file \in Files
          BY <2>1 DEF Mapped, TypeOK, MemState
        <5> QED
          BY <2>2, <2>3, <5>1
      <4> QED
        BY <2>1, <2>2, <2>3, <4>1
    <3> QED
      BY <2>1, <3>1, <3>2 DEF Mapped
  <2>7. LoadsAlone'
    BY <2>1, <2>3, <2>4, <2>5 DEF LoadsAlone
  <2>8. HeldIsMapped'
    <3>1. ASSUME NEW s \in Readers, reader'[s].pc \in {"copy", "release"}
          PROVE  /\ reader'[s].block \in 1..allocated'
                 /\ mapFiles'[reader'[s].file] = reader'[s].block
      <4>1. s # r /\ reader'[s] = reader[s]
        BY <2>4, <2>5, <3>1
      <4>2. reader[s].block \in 1..allocated
            /\ mapFiles[reader[s].file] = reader[s].block
            /\ reader[s].file \in Files
        BY <3>1, <4>1 DEF HeldIsMapped, TypeOK, ReaderType
      <4> QED
        BY <2>1, <2>3, <4>1, <4>2
    <3> QED
      BY <3>1 DEF HeldIsMapped
  <2> QED
    BY <2>6, <2>7, <2>8
<1>6. CASE LoadMallocFails(r, f)
  BY <1>6 DEF LoadMallocFails, TypeOK, Mapped, LoadsAlone, HeldIsMapped, ReaderType,
     MemState
<1>7. CASE LoadEvicting(r, f)
  <2>1. PICK b \in 1..allocated :
          /\ Evictable(b)
          /\ mapFiles' = [mapFiles EXCEPT ![mem[b].file] = Unmapped, ![f] = b]
          /\ mem' = Loading(b, f)
          /\ Start(r, f, b, "open")
    BY <1>7 DEF LoadEvicting
  <2>2. b \in Block /\ b <= allocated
    BY DEF TypeOK
  <2> QED
    BY <1>4, <1>7, <2>1, <2>2
<1> QED
  BY <1>1, <1>2, <1>3, <1>5, <1>6, <1>7 DEF load

\* __loadFile changes no name; it only counts the download when it succeeds.
LEMMA LoadFileEffect ==
    ASSUME TypeOK, LoadsAlone, NEW r \in Readers, LoadOpen(r) \/ LoadRead(r)
    PROVE  /\ \A b \in Block : mem'[b].file = mem[b].file
           /\ \A b \in Block \ {reader[r].block} : mem'[b] = mem[b]
           /\ mem'[reader[r].block].count =
                  IF reader'[r].pc = "copy" THEN mem[reader[r].block].count + 1
                                            ELSE mem[reader[r].block].count
           /\ \A s \in Readers \ {r} : reader'[s] = reader[s]
           /\ reader'[r].file = reader[r].file /\ reader'[r].block = reader[r].block
           /\ \/ /\ reader[r].pc = "open" /\ reader'[r].pc = "read"
                 /\ mutex' = mutex
              \/ /\ reader[r].pc \in {"open", "read"} /\ reader'[r].pc = "idle"
                 /\ mutex' = NoReader
              \/ /\ reader[r].pc = "read" /\ reader'[r].pc = "copy"
                 /\ mutex' = NoReader
<1> DEFINE b == reader[r].block
<1>1. b \in Block /\ mem[b] \in MemState /\ reader[r].pc \in {"open", "read"}
  BY AllocatedBlocks DEF LoadOpen, LoadRead, LoadsAlone, TypeOK
<1>2. ASSUME NEW m, mem' = [mem EXCEPT ![b] = m], m.file = mem[b].file,
             NEW pc, reader' = [reader EXCEPT ![r].pc = pc]
      PROVE  /\ \A c \in Block : mem'[c].file = mem[c].file
             /\ \A c \in Block \ {b} : mem'[c] = mem[c]
             /\ mem'[b] = m
             /\ \A s \in Readers \ {r} : reader'[s] = reader[s]
             /\ reader'[r].file = reader[r].file /\ reader'[r].block = b
             /\ reader'[r].pc = pc
  BY <1>1, <1>2 DEF TypeOK, ReaderType
<1>3. ASSUME NEW c, LoadFailed(r, c)
      PROVE  /\ \A d \in Block : mem'[d].file = mem[d].file
             /\ \A d \in Block \ {b} : mem'[d] = mem[d]
             /\ mem'[b].count = mem[b].count
             /\ \A s \in Readers \ {r} : reader'[s] = reader[s]
             /\ reader'[r].file = reader[r].file /\ reader'[r].block = b
             /\ reader'[r].pc = "idle" /\ mutex' = NoReader
  <2> DEFINE m == [mem[b] EXCEPT !.load = "NLOAD", !.expired = TRUE, !.content = c]
  <2>1. mem' = [mem EXCEPT ![b] = m] /\ reader' = [reader EXCEPT ![r].pc = "idle"]
        /\ mutex' = NoReader
    BY <1>3 DEF LoadFailed
  <2>2. m.file = mem[b].file /\ m.count = mem[b].count
    BY <1>1 DEF MemState
  <2> HIDE DEF m
  <2> QED
    BY <1>2, <2>1, <2>2
<1>4. ASSUME mem' = [mem EXCEPT ![b].content = Torn],
             reader' = [reader EXCEPT ![r].pc = "read"],
             LoadOpen(r), UNCHANGED mutex
      PROVE  /\ \A d \in Block : mem'[d].file = mem[d].file
             /\ \A d \in Block \ {b} : mem'[d] = mem[d]
             /\ mem'[b].count = mem[b].count
             /\ \A s \in Readers \ {r} : reader'[s] = reader[s]
             /\ reader'[r].file = reader[r].file /\ reader'[r].block = b
             /\ reader'[r].pc = "read"
  <2> DEFINE m == [mem[b] EXCEPT !.content = Torn]
  <2>1. mem' = [mem EXCEPT ![b] = m]
    BY <1>4
  <2>2. m.file = mem[b].file /\ m.count = mem[b].count
    BY <1>1 DEF MemState
  <2> HIDE DEF m
  <2> QED
    BY <1>2, <1>4, <2>1, <2>2
<1>5. ASSUME NEW c, mem' = [mem EXCEPT ![b] =
                              [@ EXCEPT !.count = mem[b].count + 1, !.expired = FALSE,
                                        !.load = "LOADED", !.content = c]],
             reader' = [reader EXCEPT ![r].pc = "copy"]
      PROVE  /\ \A d \in Block : mem'[d].file = mem[d].file
             /\ \A d \in Block \ {b} : mem'[d] = mem[d]
             /\ mem'[b].count = mem[b].count + 1
             /\ \A s \in Readers \ {r} : reader'[s] = reader[s]
             /\ reader'[r].file = reader[r].file /\ reader'[r].block = b
             /\ reader'[r].pc = "copy"
  <2> DEFINE m == [mem[b] EXCEPT !.count = mem[b].count + 1, !.expired = FALSE,
                                 !.load = "LOADED", !.content = c]
  <2>1. mem' = [mem EXCEPT ![b] = m]
    BY <1>5
  <2>2. m.file = mem[b].file /\ m.count = mem[b].count + 1
    BY <1>1 DEF MemState
  <2> HIDE DEF m
  <2> QED
    BY <1>2, <1>5, <2>1, <2>2
<1>6. CASE LoadOpen(r)
  <2>1. CASE LoadFailed(r, mem[b].content)
    BY <1>1, <1>3, <2>1
  <2> QED
    BY <1>1, <1>4, <1>6, <2>1 DEF LoadOpen
<1>7. CASE LoadRead(r)
  <2>1. CASE LoadFailed(r, Torn)
    BY <1>1, <1>3, <2>1
  <2> QED
    BY <1>5, <1>7, <2>1 DEF LoadRead
<1> QED
  BY <1>6, <1>7

\* The steps of a download change no name and no entry of _mapFiles.
LEMMA DownloadKeepsMap ==
    ASSUME CacheInv, TypeOK', NEW r \in Readers, Download(r)
    PROVE  Mapped' /\ LoadsAlone' /\ HeldIsMapped'
<1> USE AllocatedBlocks DEF CacheInv
<1>1. UNCHANGED <<allocated, mapFiles>>
  BY DEF Download, LoadOpen, LoadRead, Copy, release
<1>2. \A b \in Block : mem'[b].file = mem[b].file
  <2>1. CASE LoadOpen(r)
    BY <2>1, LoadFileEffect
  <2>2. CASE LoadRead(r)
    BY <2>2, LoadFileEffect
  <2>3. CASE Copy(r)
    BY <2>3 DEF Copy
  <2>4. CASE release(r)
    BY <2>4 DEF release, TypeOK, MemState
  <2> QED
    BY <2>1, <2>2, <2>3, <2>4 DEF Download
<1>3. /\ \A s \in Readers : /\ reader'[s].file = reader[s].file
                            /\ reader'[s].block = reader[s].block
      /\ \A s \in Readers \ {r} : reader'[s] = reader[s]
  <2>1. CASE LoadOpen(r) \/ LoadRead(r)
    BY <2>1, LoadFileEffect
  <2>2. CASE Copy(r)
    BY <2>2 DEF Copy, TypeOK, ReaderType
  <2>3. CASE release(r)
    BY <2>3 DEF release, TypeOK, ReaderType
  <2> QED
    BY <2>1, <2>2, <2>3 DEF Download
<1>4. Mapped'
  BY <1>1, <1>2 DEF Mapped
<1>5. \/ /\ reader[r].pc = "open" /\ reader'[r].pc = "read" /\ mutex' = mutex
      \/ /\ reader[r].pc \in {"open", "read"} /\ reader'[r].pc \in {"idle", "copy"}
         /\ mutex' = NoReader
      \/ /\ reader[r].pc = "copy" /\ reader'[r].pc = "release" /\ mutex' = mutex
      \/ /\ reader[r].pc = "release" /\ reader'[r].pc = "idle" /\ mutex' = mutex
  <2>1. CASE LoadOpen(r) \/ LoadRead(r)
    BY <2>1, LoadFileEffect
  <2>2. CASE Copy(r)
    BY <2>2 DEF Copy, TypeOK, ReaderType
  <2>3. CASE release(r)
    BY <2>3 DEF release, TypeOK, ReaderType
  <2> QED
    BY <2>1, <2>2, <2>3 DEF Download
<1>6. LoadsAlone'
  BY <1>1, <1>3, <1>5, PatchCacheAssumption DEF LoadsAlone
<1>7. HeldIsMapped'
  BY <1>1, <1>3, <1>5 DEF HeldIsMapped, LoadsAlone
<1> QED
  BY <1>4, <1>6, <1>7

\* Nor do a replaced package and the passing of time.
LEMMA OutsideKeepsMap ==
    ASSUME CacheInv, \/ \E f \in Files : preparePatchFile(f)
                     \/ \E b \in Block : Expire(b)
                     \/ UNCHANGED vars
    PROVE  Mapped' /\ LoadsAlone' /\ HeldIsMapped' /\ RefCount'
<1> USE AllocatedBlocks DEF CacheInv
<1>1. /\ UNCHANGED <<allocated, mapFiles, mutex, reader>>
      /\ \A b \in Block : mem'[b].file = mem[b].file /\ mem'[b].count = mem[b].count
  BY DEF preparePatchFile, Expire, vars, TypeOK, MemState
<1>2. Mapped'
  BY <1>1 DEF Mapped
<1>3. LoadsAlone' /\ HeldIsMapped'
  BY <1>1 DEF LoadsAlone, HeldIsMapped
<1>4. RefCount'
  BY <1>1 DEF RefCount, Holding
<1> QED
  BY <1>2, <1>3, <1>4

-----------------------------------------------------------------------------
\* A download holds its block from the end of load to release, and load and
\* release count it.
LEMMA Held ==
    ASSUME TypeOK, TypeOK', NEW r \in Readers,
           \A s \in Readers \ {r} : reader'[s] = reader[s],
           NEW b \in Block
    PROVE  /\ IsFiniteSet(Holding(b))
           /\ Holding(b)' = IF /\ reader'[r].pc \in {"copy", "release"}
                               /\ reader'[r].block = b
                            THEN Holding(b) \cup {r}
                            ELSE Holding(b) \ {r}
<1>1. IsFiniteSet(Holding(b))
  BY PatchCacheAssumption, FS_Subset DEF Holding
<1> QED
  BY <1>1 DEF Holding

\* What that makes of the number of downloads.
LEMMA HeldNumber ==
    ASSUME TypeOK, TypeOK', NEW r \in Readers,
           \A s \in Readers \ {r} : reader'[s] = reader[s],
           NEW b \in Block
    PROVE  LET before == /\ reader[r].pc \in {"copy", "release"}
                         /\ reader[r].block = b
               after  == /\ reader'[r].pc \in {"copy", "release"}
                         /\ reader'[r].block = b
               n      == Cardinality(Holding(b))
           IN  /\ n \in Nat
               /\ before <=> after => Cardinality(Holding(b)') = n
               /\ ~before /\ after => Cardinality(Holding(b)') = n + 1
               /\ before /\ ~after => Cardinality(Holding(b)') = n - 1
<1>1. IsFiniteSet(Holding(b)) /\ Cardinality(Holding(b)) \in Nat
  BY Held, FS_CardinalityType
<1>2. r \in Holding(b) <=> /\ reader[r].pc \in {"copy", "release"}
                           /\ reader[r].block = b
  BY DEF Holding
<1>3. /\ r \in Holding(b) => Holding(b) \cup {r} = Holding(b)
      /\ r \notin Holding(b) => Holding(b) \ {r} = Holding(b)
  OBVIOUS
<1>4. /\ Cardinality(Holding(b) \cup {r}) =
            IF r \in Holding(b) THEN Cardinality(Holding(b))
                                ELSE Cardinality(Holding(b)) + 1
      /\ Cardinality(Holding(b) \ {r}) =
            IF r \in Holding(b) THEN Cardinality(Holding(b)) - 1
                                ELSE Cardinality(Holding(b))
  BY <1>1, FS_AddElement, FS_RemoveElement
<1>5. Holding(b)' = IF /\ reader'[r].pc \in {"copy", "release"}
                       /\ reader'[r].block = b
                    THEN Holding(b) \cup {r}
                    ELSE Holding(b) \ {r}
  BY Held
<1> QED
  BY <1>1, <1>2, <1>4, <1>5

\* load counts the download it lets at the block.
LEMMA LoadCounts ==
    ASSUME CacheInv, TypeOK', NEW r \in Readers, NEW f \in Files, load(r, f)
    PROVE  RefCount'
<1> USE AllocatedBlocks, Codes DEF CacheInv
<1>1. \A s \in Readers \ {r} : reader'[s] = reader[s]
  BY DEF load, LoadDangling, LoadReuse, LoadReload, LoadEvicting, LoadAllocating,
         LoadMallocFails, Start, TypeOK
<1>2. reader[r].pc = "idle"
  BY DEF load, LoadDangling, LoadReuse, LoadReload, LoadEvicting, LoadAllocating,
         LoadMallocFails
<1>3. CASE LoadDangling(r, f) \/ LoadMallocFails(r, f)
  BY <1>3 DEF LoadDangling, LoadMallocFails, RefCount, Holding
<1>4. CASE LoadReuse(r, f)
  <2> DEFINE b == mapFiles[f]
  <2>1. /\ b \in Block /\ reader'[r].pc = "copy" /\ reader'[r].block = b
        /\ allocated' = allocated
    BY <1>4 DEF LoadReuse, Start, TypeOK
  <2>2. /\ mem'[b].count = mem[b].count + 1
        /\ \A c \in Block \ {b} : mem'[c].count = mem[c].count
    BY <1>4, <2>1 DEF LoadReuse, TypeOK, MemState
  <2>3. ASSUME NEW c \in 1..allocated
        PROVE  mem'[c].count = Cardinality(Holding(c)')
    BY <1>1, <1>2, <2>1, <2>2, HeldNumber DEF RefCount
  <2> QED
    BY <2>1, <2>3 DEF RefCount, Holding
<1>5. ASSUME reader'[r].pc = "open", allocated' = allocated,
             \A c \in 1..allocated : mem'[c].count = mem[c].count
      PROVE  RefCount'
  <2>1. ASSUME NEW c \in 1..allocated
        PROVE  mem'[c].count = Cardinality(Holding(c)')
    BY <1>1, <1>2, <1>5, <2>1, HeldNumber DEF RefCount
  <2> QED
    BY <1>5, <2>1 DEF RefCount, Holding
<1>6. CASE LoadReload(r, f)
  BY <1>5, <1>6 DEF LoadReload, Start, TypeOK, MemState
<1>7. CASE LoadEvicting(r, f)
  <2>1. PICK b \in 1..allocated : /\ Evictable(b)
                                  /\ mem' = Loading(b, f)
                                  /\ Start(r, f, b, "open")
    BY <1>7 DEF LoadEvicting
  <2>2. \A c \in 1..allocated : mem'[c].count = mem[c].count
    BY <2>1 DEF Evictable, Loading, TypeOK, MemState
  <2>3. reader'[r].pc = "open"
    BY <2>1 DEF Start, TypeOK
  <2> QED
    BY <1>5, <1>7, <2>2, <2>3 DEF LoadEvicting
<1>8. CASE LoadAllocating(r, f)
  <2>0. PICK b \in Block : b = allocated + 1
    BY <1>8 DEF LoadAllocating
  <2>1. /\ b \in Block /\ b \notin 1..allocated /\ allocated' = b
        /\ 1..b = 1..allocated \cup {b}
    BY <1>8, <2>0 DEF LoadAllocating, TypeOK
  <2>2. mem'[b].count = 0 /\ \A c \in Block \ {b} : mem'[c].count = mem[c].count
    BY <1>8, <2>0, <2>1 DEF LoadAllocating, Loading, TypeOK, MemState
  <2>3. reader'[r].pc = "open"
    BY <1>8 DEF LoadAllocating, Start, TypeOK
  <2>4. Holding(b)' = {}
    BY <1>1, <2>1, <2>3 DEF Holding, HeldIsMapped
  <2>5. ASSUME NEW c \in 1..allocated
        PROVE  mem'[c].count = Cardinality(Holding(c)')
    BY <1>1, <1>2, <2>1, <2>2, <2>3, HeldNumber DEF RefCount
  <2>6. mem'[b].count = Cardinality(Holding(b)')
    BY <2>2, <2>4, FS_EmptySet
  <2> QED
    BY <2>1, <2>5, <2>6 DEF RefCount, Holding
<1> QED
  BY <1>3, <1>4, <1>6, <1>7, <1>8 DEF load

\* The end of a load counts the download, release discounts it.
LEMMA DownloadCounts ==
    ASSUME CacheInv, TypeOK', NEW r \in Readers, Download(r)
    PROVE  RefCount'
<1> USE AllocatedBlocks DEF CacheInv
<1> DEFINE b == reader[r].block
<1>1. \A s \in Readers \ {r} : reader'[s] = reader[s]
  <2>1. CASE LoadOpen(r) \/ LoadRead(r)
    BY <2>1, LoadFileEffect
  <2>2. CASE Copy(r)
    BY <2>2 DEF Copy, TypeOK, ReaderType
  <2>3. CASE release(r)
    BY <2>3 DEF release, TypeOK, ReaderType
  <2> QED
    BY <2>1, <2>2, <2>3 DEF Download
<1>2. allocated' = allocated /\ reader'[r].block = b
  <2>1. CASE LoadOpen(r) \/ LoadRead(r)
    BY <2>1, LoadFileEffect DEF LoadOpen, LoadRead
  <2>2. CASE Copy(r)
    BY <2>2 DEF Copy, TypeOK, ReaderType
  <2>3. CASE release(r)
    BY <2>3 DEF release, TypeOK, ReaderType
  <2> QED
    BY <2>1, <2>2, <2>3 DEF Download
<1>3. b \in 1..allocated /\ b \in Block /\ mapFiles[reader[r].file] = b
  BY DEF Download, LoadOpen, LoadRead, Copy, release, LoadsAlone, HeldIsMapped
<1>4. \/ /\ reader[r].pc \in {"open", "read"} /\ reader'[r].pc \in {"idle", "read"}
         /\ mem'[b].count = mem[b].count
      \/ /\ reader[r].pc = "read" /\ reader'[r].pc = "copy"
         /\ mem'[b].count = mem[b].count + 1
      \/ /\ reader[r].pc = "copy" /\ reader'[r].pc = "release"
         /\ mem'[b].count = mem[b].count
      \/ /\ reader[r].pc = "release" /\ reader'[r].pc = "idle"
         /\ mem'[b].count = mem[b].count - 1
  <2>1. CASE LoadOpen(r)
    BY <1>3, <2>1, LoadFileEffect DEF LoadOpen
  <2>2. CASE LoadRead(r)
    BY <1>3, <2>2, LoadFileEffect DEF LoadRead
  <2>3. CASE Copy(r)
    BY <2>3 DEF Copy, TypeOK, ReaderType
  <2>4. CASE release(r)
    BY <1>3, <2>4 DEF release, TypeOK, ReaderType, MemState
  <2> QED
    BY <2>1, <2>2, <2>3, <2>4 DEF Download
<1>5. \A c \in Block \ {b} : mem'[c].count = mem[c].count
  <2>1. CASE LoadOpen(r) \/ LoadRead(r)
    BY <2>1, LoadFileEffect
  <2>2. CASE Copy(r)
    BY <2>2 DEF Copy
  <2>3. CASE release(r)
    BY <1>3, <2>3 DEF release, TypeOK, MemState
  <2> QED
    BY <2>1, <2>2, <2>3 DEF Download
<1>6. ASSUME NEW c \in 1..allocated
      PROVE  mem'[c].count = Cardinality(Holding(c)')
  BY <1>1, <1>2, <1>4, <1>5, HeldNumber DEF RefCount
<1> QED
  BY <1>2, <1>6 DEF RefCount, Holding

-----------------------------------------------------------------------------
\* The inductive invariant holds in every reachable state.
THEOREM CacheInvariant == Spec => []CacheInv
<1>1. Init => CacheInv
  <2>1. ASSUME Init
        PROVE  TypeOK
    BY <2>1, Codes, PatchCacheAssumption
       DEF Init, TypeOK, MemState, ReaderType, Content, Version
  <2>2. ASSUME Init
        PROVE  Mapped /\ LoadsAlone /\ HeldIsMapped /\ RefCount
    BY <2>2, Codes DEF Init, Mapped, LoadsAlone, HeldIsMapped, RefCount
  <2> QED
    BY <2>1, <2>2 DEF CacheInv
<1>2. CacheInv /\ [Next]_vars => CacheInv'
  <2>1. ASSUME CacheInv, NEW r \in Readers, Download(r)
        PROVE  CacheInv'
    BY <2>1, DownloadKeepsType, DownloadKeepsMap, DownloadCounts DEF CacheInv
  <2>2. ASSUME CacheInv, NEW r \in Readers, NEW f \in Files, load(r, f)
        PROVE  CacheInv'
    BY <2>2, LoadKeepsType, LoadKeepsMap, LoadCounts DEF CacheInv
  <2>3. ASSUME CacheInv, \/ \E f \in Files : preparePatchFile(f)
                         \/ \E b \in Block : Expire(b)
                         \/ UNCHANGED vars
        PROVE  CacheInv'
    BY <2>3, OutsideKeepsType, OutsideKeepsMap DEF CacheInv
  <2> QED
    BY <2>1, <2>2, <2>3 DEF Next
<1> QED
  BY <1>1, <1>2, PTL DEF Spec

\* Whatever is loaded, released, replaced and fails meanwhile, no block is given
\* to another file while a download holds it.
THEOREM HeldBlocksAreKept == Spec => []HeldIsMine
<1>1. CacheInv => HeldIsMine
  <2>1. ASSUME CacheInv, NEW r \in Readers, reader[r].pc \in {"copy", "release"}
        PROVE  /\ mapFiles[reader[r].file] = reader[r].block
               /\ mem[reader[r].block].file = reader[r].file
    <3>1. /\ reader[r].block \in Block /\ reader[r].file \in Files
          /\ mapFiles[reader[r].file] = reader[r].block
      BY <2>1, AllocatedBlocks DEF CacheInv, HeldIsMapped, TypeOK, ReaderType
    <3> QED
      BY <2>1, <3>1 DEF CacheInv, Mapped
  <2> QED
    BY <2>1 DEF HeldIsMine
<1> QED
  BY <1>1, CacheInvariant, PTL

-----------------------------------------------------------------------------
(***************************************************************************)
(* What is copied out of a block.  Versions only grow, on the disk, in a   *)
(* block as long as it is held, and hence between a download and both.     *)
(***************************************************************************)
Same(b) == /\ mem'[b].file = mem[b].file /\ mem'[b].version = mem[b].version
           /\ mem'[b].load = mem[b].load /\ mem'[b].content = mem[b].content

Older == \A b \in 1..allocated : mem[b].version <= disk[mem[b].file]

Whole == \A b \in 1..allocated :
            mem[b].load = "LOADED" /\ mem[b].version = disk[mem[b].file] =>
                mem[b].content \in Fetched(mem[b].file, mem[b].version)

BeingLoaded ==
  \A r \in Readers : reader[r].pc \in {"open", "read"} =>
      mem[reader[r].block].version = reader[r].version /\ mem[reader[r].block].load # "LOADED"

BeingCopied ==
  \A r \in Readers : reader[r].pc = "copy" =>
      reader[r].version <= mem[reader[r].block].version

CopyInv == Older /\ Whole /\ BeingLoaded /\ BeingCopied

\* Whose block it is.
LEMMA BlockOf ==
  ASSUME CacheInv, NEW r \in Readers, reader[r].pc # "idle"
  PROVE  /\ reader[r].block \in 1..allocated /\ reader[r].block \in Block
         /\ reader[r].file \in Files /\ mem[reader[r].block].file = reader[r].file
         /\ mapFiles[reader[r].file] = reader[r].block
         /\ reader[r].version \in Int /\ mem[reader[r].block].version \in Int
         /\ disk[reader[r].file] \in Int
<1>1. /\ reader[r].pc \in {"idle", "open", "read", "copy", "release"}
      /\ reader[r].file \in Files /\ reader[r].version \in Int
  BY DEF CacheInv, TypeOK, ReaderType, Version
<1>2. reader[r].block \in 1..allocated /\ mapFiles[reader[r].file] = reader[r].block
  BY <1>1 DEF CacheInv, LoadsAlone, HeldIsMapped
<1>3. reader[r].block \in Block
  BY <1>2, AllocatedBlocks DEF CacheInv
<1>4. mem[reader[r].block].version \in Int /\ disk[reader[r].file] \in Int
  BY <1>1, <1>3 DEF CacheInv, TypeOK, MemState, Version
<1>5. mem[reader[r].block].file = reader[r].file
  BY <1>1, <1>2, <1>3 DEF CacheInv, Mapped
<1>6. QED
  BY <1>1, <1>2, <1>3, <1>4, <1>5

\* A step that leaves the blocks' packages alone.
LEMMA QuietCopies ==
  ASSUME CacheInv, CacheInv', CopyInv, \A b \in Block : Same(b), disk' = disk,
         allocated' = allocated, NEW r \in Readers,
         \A s \in Readers \ {r} : reader'[s] = reader[s],
         \/ reader'[r] = reader[r]
         \/ reader'[r].pc \in {"idle", "release"}
         \/ reader'[r].pc = "copy" /\ reader'[r].version <= mem[reader'[r].block].version
  PROVE  CopyInv'
<1>1. \A b \in 1..allocated : b \in Block
  BY AllocatedBlocks DEF CacheInv
<1>2. Older' /\ Whole'
  BY <1>1 DEF CopyInv, Older, Whole, Same
<1>3. BeingLoaded'
  <2>1. ASSUME NEW s \in Readers, reader'[s].pc \in {"open", "read"}
        PROVE  mem'[reader'[s].block].version = reader'[s].version
               /\ mem'[reader'[s].block].load # "LOADED"
    <3>1. reader'[s] = reader[s]
      BY <2>1
    <3>2. reader[s].block \in Block
      BY <2>1, <3>1, BlockOf
    <3>3. QED
      BY <2>1, <3>1, <3>2 DEF CopyInv, BeingLoaded, Same
  <2>2. QED
    BY <2>1 DEF BeingLoaded
<1>4. BeingCopied'
  <2>1. ASSUME NEW s \in Readers, reader'[s].pc = "copy"
        PROVE  reader'[s].version <= mem'[reader'[s].block].version
    <3>1. reader'[s].block \in Block
      <4>1. reader'[s].block \in 1..allocated
        BY <2>1 DEF CacheInv, HeldIsMapped
      <4>2. QED
        BY <1>1, <4>1
    <3>2. mem'[reader'[s].block].version = mem[reader'[s].block].version
      BY <3>1 DEF Same
    <3>3. reader'[s] = reader[s] \/ reader'[s].version <= mem[reader'[s].block].version
      BY <2>1
    <3>4. QED
      BY <2>1, <3>2, <3>3 DEF CopyInv, BeingCopied
  <2>2. QED
    BY <2>1 DEF BeingCopied
<1>5. QED
  BY <1>2, <1>3, <1>4 DEF CopyInv

\* A load begins: its block gets the version of the disk.
LEMMA BeginCopies ==
  ASSUME CacheInv, CacheInv', CopyInv, NEW r \in Readers, NEW f \in Files, NEW b \in Block,
         \A c \in Block \ {b} : Same(c), disk' = disk, mutex' = r,
         allocated' = allocated \/ (allocated' = b /\ b = allocated + 1),
         mem'[b].file = f, mem'[b].version = disk[f], mem'[b].load # "LOADED",
         \A s \in Readers \ {r} : reader'[s] = reader[s],
         reader'[r].pc = "open", reader'[r].block = b, reader'[r].version = disk[f]
  PROVE  CopyInv'
<1>1. /\ \A c \in 1..allocated' : c \in Block /\ (c = b \/ c \in 1..allocated)
      /\ disk[f] \in Int
  BY AllocatedBlocks DEF CacheInv, TypeOK, Version, Block
<1>2. Older'
  BY <1>1 DEF CopyInv, Older, Same
<1>3. Whole'
  BY <1>1 DEF CopyInv, Whole, Same
<1>4. BeingLoaded'
  <2>1. \A s \in Readers \ {r} : reader'[s].pc \notin {"open", "read"}
    BY DEF CacheInv, LoadsAlone
  <2>2. QED
    BY <2>1 DEF BeingLoaded
<1>5. BeingCopied'
  <2>1. ASSUME NEW s \in Readers, reader'[s].pc = "copy"
        PROVE  reader'[s].version <= mem'[reader'[s].block].version
    <3>1. s # r /\ reader'[s] = reader[s]
      BY <2>1
    <3>2. reader[s].block \in Block /\ reader[s].version <= mem[reader[s].block].version
      BY <2>1, <3>1, BlockOf DEF CopyInv, BeingCopied
    <3>3. CASE reader[s].block # b
      BY <3>1, <3>2, <3>3 DEF Same
    <3>4. CASE reader[s].block = b
      <4>1. mem[b].file = reader[s].file /\ mem[b].version <= disk[mem[b].file]
        BY <2>1, <3>1, <3>4, BlockOf DEF CopyInv, Older
      <4>2. mem'[b].file = reader[s].file
        <5>1. mapFiles'[reader[s].file] = b /\ b \in 1..allocated'
          BY <2>1, <3>1, <3>4 DEF CacheInv, HeldIsMapped
        <5>2. reader[s].file \in Files
          BY <2>1, <3>1, BlockOf
        <5>3. QED
          BY <5>1, <5>2 DEF CacheInv, Mapped
      <4>3. reader[s].version <= disk[f]
        <5>1. reader[s].version \in Int /\ mem[b].version \in Int
          BY <2>1, <3>1, <3>4, BlockOf
        <5>2. QED
          BY <1>1, <3>2, <3>4, <4>1, <4>2, <5>1
      <4>4. QED
        BY <3>1, <3>4, <4>3
    <3>5. QED
      BY <3>3, <3>4
  <2>2. QED
    BY <2>1 DEF BeingCopied
<1>6. QED
  BY <1>2, <1>3, <1>4, <1>5 DEF CopyInv

LEMMA LoadCopies ==
  ASSUME CacheInv, CacheInv', CopyInv, NEW r \in Readers, NEW f \in Files, load(r, f)
  PROVE  CopyInv'
<1>1. \A s \in Readers \ {r} : reader'[s] = reader[s]
  BY DEF load, LoadDangling, LoadReuse, LoadReload, LoadEvicting, LoadAllocating,
         LoadMallocFails, Start, CacheInv, TypeOK
<1>2. CASE LoadDangling(r, f) \/ LoadMallocFails(r, f)
  <2>1. (\A b \in Block : Same(b)) /\ disk' = disk /\ allocated' = allocated /\ reader' = reader
    BY <1>2 DEF LoadDangling, LoadMallocFails, Same
  <2>2. QED
    BY <1>1, <2>1, QuietCopies
<1>3. CASE LoadReuse(r, f)
  <2>1. /\ mapFiles[f] \in Block /\ mem[mapFiles[f]].version = disk[f]
        /\ disk' = disk /\ allocated' = allocated /\ disk[f] \in Int
    BY <1>3 DEF LoadReuse, CacheInv, TypeOK, Version
  <2>2. \A b \in Block : Same(b)
    BY <1>3 DEF LoadReuse, Same, CacheInv, TypeOK, MemState
  <2>3. /\ reader'[r].pc = "copy" /\ reader'[r].version = disk[f]
        /\ reader'[r].block = mapFiles[f]
    BY <1>3 DEF LoadReuse, Start, CacheInv, TypeOK
  <2>4. reader'[r].version <= mem[reader'[r].block].version
    BY <2>1, <2>3
  <2>5. QED
    BY <1>1, <2>1, <2>2, <2>3, <2>4, QuietCopies
<1>4. CASE LoadReload(r, f)
  <2>1. PICK b \in Block : b = mapFiles[f]
    BY <1>4 DEF LoadReload
  <2>2. /\ \A c \in Block \ {b} : Same(c)
        /\ mem'[b].file = mem[b].file /\ mem'[b].version = disk[f] /\ mem'[b].load # "LOADED"
    BY <1>4, <2>1 DEF LoadReload, Same, CacheInv, TypeOK, MemState
  <2>3. mem[b].file = f
    BY <2>1 DEF CacheInv, Mapped
  <2>4. /\ reader'[r].pc = "open" /\ reader'[r].version = disk[f] /\ reader'[r].block = b
        /\ disk' = disk /\ allocated' = allocated /\ mutex' = r
    BY <1>4, <2>1 DEF LoadReload, Start, CacheInv, TypeOK
  <2>5. mem'[b].file = f
    BY <2>2, <2>3
  <2>6. QED
    BY <1>1, <2>2, <2>4, <2>5, BeginCopies
<1>5. ASSUME NEW b \in Block, mem' = Loading(b, f), Start(r, f, b, "open")
      PROVE  /\ \A c \in Block \ {b} : Same(c)
             /\ mem'[b].file = f /\ mem'[b].version = disk[f] /\ mem'[b].load # "LOADED"
             /\ reader'[r].pc = "open" /\ reader'[r].version = disk[f] /\ reader'[r].block = b
  BY <1>5 DEF Loading, Start, Same, CacheInv, TypeOK, MemState
<1>6. CASE LoadEvicting(r, f)
  <2>1. PICK b \in 1..allocated : mem' = Loading(b, f) /\ Start(r, f, b, "open")
    BY <1>6 DEF LoadEvicting
  <2>2. b \in Block /\ disk' = disk /\ allocated' = allocated /\ mutex' = r
    BY <1>6, AllocatedBlocks DEF LoadEvicting, CacheInv
  <2>3. /\ \A c \in Block \ {b} : Same(c)
        /\ mem'[b].file = f /\ mem'[b].version = disk[f] /\ mem'[b].load # "LOADED"
        /\ reader'[r].pc = "open" /\ reader'[r].version = disk[f] /\ reader'[r].block = b
    BY <1>5, <2>1, <2>2
  <2>4. QED
    BY <1>1, <2>2, <2>3, BeginCopies
<1>7. CASE LoadAllocating(r, f)
  <2>1. PICK b \in Block : b = allocated + 1
    BY <1>7 DEF LoadAllocating
  <2>2. /\ mem' = Loading(b, f) /\ Start(r, f, b, "open")
        /\ disk' = disk /\ allocated' = b /\ mutex' = r
    BY <1>7, <2>1 DEF LoadAllocating
  <2>3. QED
    BY <1>1, <1>5, <2>1, <2>2, BeginCopies
<1>8. QED
  BY <1>2, <1>3, <1>4, <1>6, <1>7 DEF load

\* A load goes on: its block is whole only if the disk has not changed since.
LEMMA DownloadCopies ==
  ASSUME CacheInv, CacheInv', CopyInv, NEW r \in Readers, Download(r)
  PROVE  CopyInv'
<1>1. CASE Copy(r)
  <2>1. /\ \A b \in Block : Same(b)
        /\ disk' = disk /\ allocated' = allocated
        /\ \A s \in Readers \ {r} : reader'[s] = reader[s]
        /\ reader'[r].pc = "release"
    BY <1>1 DEF Copy, Same, CacheInv, TypeOK, ReaderType
  <2>2. QED
    BY <2>1, QuietCopies
<1>2. CASE release(r)
  <2>1. /\ disk' = disk /\ allocated' = allocated
        /\ \A s \in Readers \ {r} : reader'[s] = reader[s]
        /\ reader'[r].pc = "idle"
    BY <1>2 DEF release, CacheInv, TypeOK, ReaderType
  <2>2. \A b \in Block : Same(b)
    BY <1>2 DEF release, Same, CacheInv, TypeOK, MemState
  <2>3. QED
    BY <2>1, <2>2, QuietCopies
<1>3. CASE LoadOpen(r) \/ LoadRead(r)
  <2>0. PICK b : b = reader[r].block
    OBVIOUS
  <2>1. /\ reader[r].pc \in {"open", "read"} /\ b \in 1..allocated /\ b \in Block
        /\ mem[b].file = reader[r].file /\ mem[b].version = reader[r].version
        /\ mem[b].load # "LOADED" /\ mem[b] \in MemState
        /\ disk' = disk /\ allocated' = allocated
    BY <1>3, <2>0, BlockOf DEF LoadOpen, LoadRead, CopyInv, BeingLoaded, CacheInv, TypeOK
  <2>2. /\ \A c \in Block : mem'[c].file = mem[c].file
        /\ \A c \in Block \ {b} : mem'[c] = mem[c]
        /\ \A s \in Readers \ {r} : reader'[s] = reader[s]
        /\ reader'[r].file = reader[r].file /\ reader'[r].block = b
    BY <1>3, <2>0, LoadFileEffect DEF CacheInv
  <2>3. /\ mem'[b].version = mem[b].version
        /\ reader'[r].version = reader[r].version
        /\ \/ mem'[b].load # "LOADED" /\ reader'[r].pc \in {"idle", "read"}
           \/ /\ reader'[r].pc = "copy"
              /\ mem'[b].content \in Fetched(reader[r].file, disk[reader[r].file])
                 \/ disk[reader[r].file] # reader[r].version
    <3>1. ASSUME NEW c, LoadFailed(r, c)
          PROVE  /\ mem'[b].version = mem[b].version /\ mem'[b].load # "LOADED"
                 /\ reader'[r].version = reader[r].version /\ reader'[r].pc = "idle"
      <4> DEFINE m == [mem[b] EXCEPT !.load = "NLOAD", !.expired = TRUE, !.content = c]
      <4>1. mem' = [mem EXCEPT ![b] = m] /\ reader' = [reader EXCEPT ![r].pc = "idle"]
        BY <2>0, <3>1 DEF LoadFailed
      <4>2. m.version = mem[b].version /\ m.load = "NLOAD"
        BY <2>1 DEF MemState
      <4> HIDE DEF m
      <4>3. mem'[b] = m
        BY <2>1, <4>1 DEF CacheInv, TypeOK
      <4>4. reader'[r].version = reader[r].version /\ reader'[r].pc = "idle"
        BY <4>1 DEF CacheInv, TypeOK, ReaderType
      <4>5. QED
        BY <4>2, <4>3, <4>4
    <3>2. CASE /\ LoadOpen(r) /\ mem' = [mem EXCEPT ![b].content = Torn]
               /\ reader' = [reader EXCEPT ![r].pc = "read"]
      BY <2>1, <3>2 DEF CacheInv, TypeOK, ReaderType, MemState
    <3>3. ASSUME NEW c \in Fetched(reader[r].file, disk[reader[r].file]) \cup
                           {t \in {Torn} : disk[reader[r].file] # reader[r].version},
                 mem' = [mem EXCEPT ![b] =
                           [@ EXCEPT !.count = mem[b].count + 1, !.expired = FALSE,
                                     !.load = "LOADED", !.content = c]],
                 reader' = [reader EXCEPT ![r].pc = "copy"]
          PROVE  /\ mem'[b].version = mem[b].version
                 /\ reader'[r].version = reader[r].version /\ reader'[r].pc = "copy"
                 /\ mem'[b].content \in Fetched(reader[r].file, disk[reader[r].file])
                    \/ disk[reader[r].file] # reader[r].version
      <4> DEFINE m == [mem[b] EXCEPT !.count = mem[b].count + 1, !.expired = FALSE,
                                     !.load = "LOADED", !.content = c]
      <4>1. mem' = [mem EXCEPT ![b] = m]
        BY <3>3
      <4>2. m.version = mem[b].version /\ m.content = c
        BY <2>1 DEF MemState
      <4> HIDE DEF m
      <4>3. mem'[b] = m
        BY <2>1, <4>1 DEF CacheInv, TypeOK
      <4>4. reader'[r].version = reader[r].version /\ reader'[r].pc = "copy"
        BY <3>3 DEF CacheInv, TypeOK, ReaderType
      <4>5. QED
        BY <3>3, <4>2, <4>3, <4>4
    <3>4. CASE LoadOpen(r)
      BY <2>0, <3>1, <3>2, <3>4 DEF LoadOpen
    <3>5. CASE LoadRead(r)
      BY <2>0, <3>1, <3>3, <3>5 DEF LoadRead
    <3>6. QED
      BY <1>3, <3>4, <3>5
  <2>4. \A c \in 1..allocated : c \in Block
    BY AllocatedBlocks DEF CacheInv
  <2>5. Older'
    BY <2>1, <2>2, <2>3, <2>4 DEF CopyInv, Older
  <2>6. Whole'
    BY <2>1, <2>2, <2>3, <2>4 DEF CopyInv, Whole
  <2>7. BeingLoaded'
    <3>1. \A s \in Readers \ {r} : reader[s].pc \notin {"open", "read"}
      BY <2>1 DEF CacheInv, LoadsAlone
    <3>2. QED
      BY <2>1, <2>2, <2>3, <3>1 DEF BeingLoaded
  <2>8. BeingCopied'
    <3>1. ASSUME NEW s \in Readers, reader'[s].pc = "copy"
          PROVE  reader'[s].version <= mem'[reader'[s].block].version
      <4>1. CASE s = r
        <5>1. reader[r].version \in Int
          BY <2>1, BlockOf
        <5>2. QED
          BY <2>1, <2>2, <2>3, <4>1, <5>1
      <4>2. CASE s # r
        <5>1. /\ reader'[s] = reader[s] /\ reader[s].block \in Block
              /\ reader[s].version <= mem[reader[s].block].version
          BY <2>2, <3>1, <4>2, BlockOf DEF CopyInv, BeingCopied
        <5>2. mem'[reader[s].block].version = mem[reader[s].block].version
          BY <2>2, <2>3, <5>1
        <5>3. QED
          BY <5>1, <5>2
      <4>3. QED
        BY <4>1, <4>2
    <3>2. QED
      BY <3>1 DEF BeingCopied
  <2>9. QED
    BY <2>5, <2>6, <2>7, <2>8 DEF CopyInv
<1>4. QED
  BY <1>1, <1>2, <1>3 DEF Download

LEMMA OutsideCopies ==
  ASSUME CacheInv, CacheInv', CopyInv, \/ \E f \in Files : preparePatchFile(f)
                                       \/ \E b \in Block : Expire(b)
                                       \/ UNCHANGED vars
  PROVE  CopyInv'
<1>1. ASSUME NEW f \in Files, preparePatchFile(f)
      PROVE  CopyInv'
  <2>1. /\ \A g \in Files : disk[g] \in Int /\ (disk'[g] = disk[g] \/ disk'[g] = disk[g] + 1)
        /\ UNCHANGED <<mem, allocated, reader>>
    BY <1>1 DEF preparePatchFile, CacheInv, TypeOK, Version
  <2>2. \A b \in 1..allocated : mem[b].file \in Files /\ mem[b].version \in Int
    BY AllocatedBlocks DEF CacheInv, TypeOK, MemState, Version
  <2>3. Older'
    BY <2>1, <2>2 DEF CopyInv, Older
  <2>4. Whole'
    <3>1. \A b \in 1..allocated :
             mem[b].version = disk'[mem[b].file] => mem[b].version = disk[mem[b].file]
      BY <2>1, <2>2 DEF CopyInv, Older
    <3>2. QED
      BY <2>1, <3>1 DEF CopyInv, Whole
  <2>5. BeingLoaded' /\ BeingCopied'
    BY <2>1 DEF CopyInv, BeingLoaded, BeingCopied
  <2>6. QED
    BY <2>3, <2>4, <2>5 DEF CopyInv
<1>2. ASSUME NEW b \in Block, Expire(b)
      PROVE  CopyInv'
  <2>1. /\ \A c \in Block : Same(c)
        /\ UNCHANGED <<disk, allocated, reader>>
    BY <1>2 DEF Expire, Same, CacheInv, TypeOK, MemState
  <2>2. \A c \in 1..allocated : c \in Block
    BY AllocatedBlocks DEF CacheInv
  <2>3. Older' /\ Whole'
    BY <2>1, <2>2 DEF CopyInv, Older, Whole, Same
  <2>4. BeingLoaded' /\ BeingCopied'
    BY <2>1, BlockOf DEF CopyInv, BeingLoaded, BeingCopied, Same
  <2>5. QED
    BY <2>3, <2>4 DEF CopyInv
<1>3. CASE UNCHANGED vars
  BY <1>3 DEF vars, CopyInv, Older, Whole, BeingLoaded, BeingCopied
<1>4. QED
  BY <1>1, <1>2, <1>3

\* A download copies what a read of the package it asked for has fetched, unless
\* the package was replaced since: whoever loads and evicts meanwhile, with any
\* number of packages, blocks and downloads.
THEOREM CopiesAreFetched == Spec => []CopiesWhatItAsked
<1>1. Init => CopyInv
  BY DEF Init, CopyInv, Older, Whole, BeingLoaded, BeingCopied
<1>2. CacheInv /\ CacheInv' /\ CopyInv /\ [Next]_vars => CopyInv'
  BY LoadCopies, DownloadCopies, OutsideCopies DEF Next
<1>3. CacheInv /\ CopyInv => CopiesWhatItAsked
  <2> SUFFICES ASSUME CacheInv, CopyInv, NEW r \in Readers, reader[r].pc = "copy",
                      mem[reader[r].block].load = "LOADED",
                      disk[reader[r].file] = reader[r].version
               PROVE  mem[reader[r].block].content \in Fetched(reader[r].file, reader[r].version)
    BY DEF CopiesWhatItAsked
  <2>1. PICK b : b = reader[r].block
    OBVIOUS
  <2>2. /\ b \in 1..allocated /\ mem[b].file = reader[r].file
        /\ mem[b].version \in Int /\ reader[r].version \in Int
    BY <2>1, BlockOf
  <2>3. reader[r].version <= mem[b].version /\ mem[b].version <= disk[mem[b].file]
    BY <2>1, <2>2 DEF CopyInv, BeingCopied, Older
  <2>4. mem[b].version = reader[r].version
    BY <2>2, <2>3
  <2>5. QED
    BY <2>1, <2>2, <2>4 DEF CopyInv, Whole
<1>4. QED
  BY <1>1, <1>2, <1>3, CacheInvariant, PTL DEF Spec
=============================================================================
