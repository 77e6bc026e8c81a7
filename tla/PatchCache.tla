----------------------------- MODULE PatchCache -----------------------------
(***************************************************************************)
(* The memory cache of tarspatch (src/PatchServer/PatchCache.cpp) and the  *)
(* downloads that read it (PatchImp::__downloadFromMem), while packages    *)
(* are replaced on the disk (PatchImp::preparePatchFile).                  *)
(*                                                                         *)
(* load runs under the cache's mutex, the copy of a chunk out of the       *)
(* buffer does not: between load and release a download only has the       *)
(* block's MemCount to protect what it reads.  A package is a version of   *)
(* its file, standing for its bytes and for the size, time and inode that  *)
(* lstat returns.  A file whose lstat or size load rejects, and one for    *)
(* which no memory is left, is read from the disk without touching the     *)
(* cache: those loads are not steps of this module.                        *)
(*                                                                         *)
(* X_Wrong is X with a plausible mistake, kept to see what it breaks.      *)
(***************************************************************************)
EXTENDS Naturals, FiniteSets

CONSTANTS
    Files,       \* the packages
    Readers,     \* the threads that serve download requests
    NoReader,    \* the mutex is free
    MemNum,      \* _MemNum: how many blocks may be allocated
    MaxVersion,  \* bound on the versions of a package
    Faults       \* "malloc": an allocation may fail; "io": opening or reading may,
                 \* or a read may be cut short

ASSUME PatchCacheAssumption ==
    /\ Files # {}
    /\ IsFiniteSet(Readers)
    /\ NoReader \notin Readers
    /\ MemNum \in Nat
    /\ MaxVersion \in Nat \ {0}
    /\ Faults \subseteq {"malloc", "io"}

VARIABLES
    disk,       \* the version of each package on the disk
    mem,        \* the blocks; the first allocated of them make up _vecMems
    allocated,  \* _vecMems.size()
    mapFiles,   \* _mapFiles: the block of each file
    mutex,      \* holder of _mutex
    reader      \* the downloads

vars == <<disk, mem, allocated, mapFiles, mutex, reader>>

Version == 1..MaxVersion
Block == 1..MemNum

\* What _mapFiles holds for a file: nothing, a block, or a MemState whose buffer
\* could not be allocated and which _vecMems has forgotten.
Unmapped == 0
Dangling == MemNum + 1

\* The bytes of a buffer: those of a version of a file, only the first of them
\* with older bytes behind, or those of no one version (uninitialised memory, a
\* buffer being overwritten).
Package(f, v) == [file |-> f, version |-> v, whole |-> TRUE]
Cut(f, v)     == [file |-> f, version |-> v, whole |-> FALSE]
Torn          == [file |-> "none", version |-> 0, whole |-> FALSE]
Content == {Torn} \cup [file : Files, version : Version, whole : BOOLEAN]

MemState ==
    [file : Files, version : Version,   \* FileName; FileSize, FileInode, FileTime
     load : {"NLOAD", "LOADING", "RELOAD", "LOADED"},
     count : Nat,
     expired : BOOLEAN,                 \* MemTime + ExpireTime <= now
     content : Content]                 \* MemBuf

\* copy and release: the download holds its block.
ReaderType ==
    [pc : {"idle", "open", "read", "copy", "release"},
     file : Files, version : Version, block : Block \cup {Unmapped}]

TypeOK ==
    /\ disk \in [Files -> Version]
    /\ mem \in [Block -> MemState]
    /\ allocated \in 0..MemNum
    /\ mapFiles \in [Files -> 0..MemNum + 1]
    /\ mutex \in Readers \cup {NoReader}
    /\ reader \in [Readers -> ReaderType]

Init ==
    /\ disk = [f \in Files |-> 1]
    /\ mem = [b \in Block |->
                [file |-> CHOOSE f \in Files : TRUE, version |-> 1,
                 load |-> "NLOAD", count |-> 0, expired |-> TRUE,
                 content |-> Torn]]
    /\ allocated = 0
    /\ mapFiles = [f \in Files |-> Unmapped]
    /\ mutex = NoReader
    /\ reader = [r \in Readers |->
                   [pc |-> "idle", file |-> CHOOSE f \in Files : TRUE,
                    version |-> 1, block |-> Unmapped]]

Holding(b) == {r \in Readers : /\ reader[r].pc \in {"copy", "release"}
                               /\ reader[r].block = b}

-----------------------------------------------------------------------------
(***************************************************************************)
(* load                                                                    *)
(***************************************************************************)
Start(r, f, b, pc) ==
    reader' = [reader EXCEPT ![r] = [pc |-> pc, file |-> f, version |-> disk[f],
                                     block |-> b]]

\* An allocation that failed earlier has left the file in the loading state;
\* it is forgotten and this load fails.
LoadDangling(r, f) ==
    /\ reader[r].pc = "idle"
    /\ mutex = NoReader
    /\ mapFiles[f] = Dangling
    /\ mapFiles' = [mapFiles EXCEPT ![f] = Unmapped]
    /\ UNCHANGED <<disk, mem, allocated, mutex, reader>>

\* The file is in memory and lstat has not changed: whatever MemLoad says, the
\* block is used again.
LoadReuse(r, f) ==
    LET b == mapFiles[f]
    IN  /\ reader[r].pc = "idle"
        /\ mutex = NoReader
        /\ b \in Block
        /\ mem[b].version = disk[f]
        /\ mem' = [mem EXCEPT ![b] = [@ EXCEPT !.count = mem[b].count + 1,
                                                !.expired = FALSE]]
        /\ Start(r, f, b, "copy")
        /\ UNCHANGED <<disk, allocated, mapFiles, mutex>>

\* The package on the disk has been replaced: its block is loaded again, even
\* if somebody is reading it.
LoadReload(r, f) ==
    LET b == mapFiles[f]
    IN  /\ reader[r].pc = "idle"
        /\ mutex = NoReader
        /\ b \in Block
        /\ mem[b].version # disk[f]
        /\ mem' = [mem EXCEPT ![b].version = disk[f], ![b].load = "RELOAD"]
        /\ mutex' = r
        /\ Start(r, f, b, "open")
        /\ UNCHANGED <<disk, allocated, mapFiles>>

Evictable_Wrong(b) ==
    /\ mem[b].load \in {"NLOAD", "LOADED"}
    /\ mem[b].expired

\* __getMem takes the first block that nobody uses and that is old enough, ...
Evictable(b) ==
    /\ mem[b].load \in {"NLOAD", "LOADED"}
    /\ mem[b].count = 0
    /\ mem[b].expired

Loading(b, f) ==
    [mem EXCEPT ![b] = [@ EXCEPT !.file = f, !.version = disk[f],
                                 !.load = "LOADING", !.count = 0]]

LoadEvicting(r, f) ==
    /\ reader[r].pc = "idle"
    /\ mutex = NoReader
    /\ mapFiles[f] = Unmapped
    /\ \E b \in 1..allocated :
         /\ Evictable(b)
         /\ \A c \in 1..b - 1 : ~Evictable(c)
         /\ mapFiles' = [mapFiles EXCEPT ![mem[b].file] = Unmapped, ![f] = b]
         /\ mem' = Loading(b, f)
         /\ Start(r, f, b, "open")
    /\ mutex' = r
    /\ UNCHANGED <<disk, allocated>>

\* ... or allocates one, unless there are MemNum of them ...
LoadAllocating(r, f) ==
    LET b == allocated + 1
    IN  /\ reader[r].pc = "idle"
        /\ mutex = NoReader
        /\ mapFiles[f] = Unmapped
        /\ \A c \in 1..allocated : ~Evictable(c)
        /\ b \in Block
        /\ allocated' = b
        /\ mapFiles' = [mapFiles EXCEPT ![f] = b]
        /\ mem' = Loading(b, f)
        /\ mutex' = r
        /\ Start(r, f, b, "open")
        /\ UNCHANGED disk

\* ... or malloc returns NULL.
LoadMallocFails(r, f) ==
    /\ "malloc" \in Faults
    /\ reader[r].pc = "idle"
    /\ mutex = NoReader
    /\ mapFiles[f] = Unmapped
    /\ \A c \in 1..allocated : ~Evictable(c)
    /\ allocated < MemNum
    /\ mapFiles' = [mapFiles EXCEPT ![f] = Dangling]
    /\ UNCHANGED <<disk, mem, allocated, mutex, reader>>

-----------------------------------------------------------------------------
(***************************************************************************)
(* __loadFile, still under the mutex                                       *)
(***************************************************************************)
LoadFailed(r, content) ==
    /\ mem' = [mem EXCEPT ![reader[r].block] =
                 [@ EXCEPT !.load = "NLOAD", !.expired = TRUE, !.content = content]]
    /\ mutex' = NoReader
    /\ reader' = [reader EXCEPT ![r].pc = "idle"]

\* fopen; from here on the buffer is being overwritten.
LoadOpen(r) ==
    LET b == reader[r].block
    IN  /\ reader[r].pc = "open"
        /\ \/ /\ mem' = [mem EXCEPT ![b].content = Torn]
              /\ reader' = [reader EXCEPT ![r].pc = "read"]
              /\ UNCHANGED mutex
           \/ "io" \in Faults /\ LoadFailed(r, mem[b].content)
        /\ UNCHANGED <<disk, allocated, mapFiles>>

\* One byte is enough for fread to have succeeded: a read that an error cuts
\* short is taken for the package.
Fetched(f, v) == {Package(f, v)} \cup {c \in {Cut(f, v)} : "io" \in Faults}

\* fread; a package replaced since lstat is read as it is now, or half of each,
\* or found empty.
LoadRead(r) ==
    LET b == reader[r].block
        f == reader[r].file
        replaced == disk[f] # reader[r].version
    IN  /\ reader[r].pc = "read"
        /\ \/ /\ \E c \in Fetched(f, disk[f]) \cup {t \in {Torn} : replaced} :
                   mem' = [mem EXCEPT ![b] =
                             [@ EXCEPT !.count = mem[b].count + 1, !.expired = FALSE,
                                       !.load = "LOADED", !.content = c]]
              /\ mutex' = NoReader
              /\ reader' = [reader EXCEPT ![r].pc = "copy"]
           \/ /\ "io" \in Faults \/ replaced
              /\ LoadFailed(r, Torn)
        /\ UNCHANGED <<disk, allocated, mapFiles>>

-----------------------------------------------------------------------------
\* memcpy of the block's content, without the mutex.
Copy(r) ==
    /\ reader[r].pc = "copy"
    /\ reader' = [reader EXCEPT ![r].pc = "release"]
    /\ UNCHANGED <<disk, mem, allocated, mapFiles, mutex>>

\* release looks the file up again and decrements the block it finds.
release_Wrong(r) ==
    /\ reader[r].pc = "release"
    /\ mutex = NoReader
    /\ reader' = [reader EXCEPT ![r].pc = "idle"]
    /\ UNCHANGED <<disk, mem, allocated, mapFiles, mutex>>

release(r) ==
    LET b == mapFiles[reader[r].file]
    IN  /\ reader[r].pc = "release"
        /\ mutex = NoReader
        /\ IF b \in Block
           THEN mem' = [mem EXCEPT ![b].count = @ - 1]
           ELSE UNCHANGED mem
        /\ reader' = [reader EXCEPT ![r].pc = "idle"]
        /\ UNCHANGED <<disk, allocated, mapFiles, mutex>>

\* preparePatchFile copies another upload over the package.
preparePatchFile(f) ==
    /\ disk[f] < MaxVersion
    /\ disk' = [disk EXCEPT ![f] = @ + 1]
    /\ UNCHANGED <<mem, allocated, mapFiles, mutex, reader>>

\* ExpireTime has passed since a block was last loaded.
Expire(b) ==
    /\ ~mem[b].expired
    /\ mem' = [mem EXCEPT ![b].expired = TRUE]
    /\ UNCHANGED <<disk, allocated, mapFiles, mutex, reader>>

load(r, f) ==
    \/ LoadDangling(r, f) \/ LoadReuse(r, f) \/ LoadReload(r, f)
    \/ LoadEvicting(r, f) \/ LoadAllocating(r, f) \/ LoadMallocFails(r, f)

Download(r) == LoadOpen(r) \/ LoadRead(r) \/ Copy(r) \/ release(r)

Next ==
    \/ \E r \in Readers : Download(r) \/ \E f \in Files : load(r, f)
    \/ \E f \in Files : preparePatchFile(f)
    \/ \E b \in Block : Expire(b)

Spec == Init /\ [][Next]_vars

-----------------------------------------------------------------------------
(***************************************************************************)
(* Properties                                                              *)
(***************************************************************************)

\* A block in use is never given to another file: as long as a download holds
\* its block, the block is its file's.
HeldIsMine ==
    \A r \in Readers :
        reader[r].pc \in {"copy", "release"} =>
            /\ mapFiles[reader[r].file] = reader[r].block
            /\ mem[reader[r].block].file = reader[r].file

\* MemCount is the number of downloads that hold the block: none is lost, which
\* would let the block go while it is read, and none left over, which would
\* keep it for ever.
RefCount == \A b \in 1..allocated : mem[b].count = Cardinality(Holding(b))

\* What a download is about to copy out of a loaded block is what a read of the
\* package it asked for has fetched, unless that package has been replaced since
\* it looked: neither an eviction nor a load of another download gets in between.
\* It is the whole package where no read is cut short.
CopiesWhatItAsked ==
    \A r \in Readers :
        LET d == reader[r]
        IN  /\ d.pc = "copy"
            /\ mem[d.block].load = "LOADED"
            /\ disk[d.file] = d.version
            => mem[d.block].content \in Fetched(d.file, d.version)

\* MemLoad says whether a block has been loaded successfully, and only such a
\* block serves downloads.
ServedIsLoaded ==
    \A r \in Readers : reader[r].pc = "copy" /\ mutex = NoReader =>
        mem[reader[r].block].load = "LOADED"

\* The inductive invariant behind HeldIsMine and RefCount: _mapFiles and the
\* blocks' names are inverses of each other, and a file is only loaded under the
\* mutex.
Mapped ==
    /\ \A f \in Files : mapFiles[f] \in Block =>
            mapFiles[f] <= allocated /\ mem[mapFiles[f]].file = f
    /\ \A b \in 1..allocated : mapFiles[mem[b].file] = b

LoadsAlone ==
    \A r \in Readers : reader[r].pc \in {"open", "read"} =>
        /\ mutex = r
        /\ reader[r].block \in 1..allocated
        /\ mapFiles[reader[r].file] = reader[r].block

HeldIsMapped ==
    \A r \in Readers : reader[r].pc \in {"copy", "release"} =>
        /\ reader[r].block \in 1..allocated
        /\ mapFiles[reader[r].file] = reader[r].block

CacheInv == TypeOK /\ Mapped /\ LoadsAlone /\ HeldIsMapped /\ RefCount
=============================================================================
