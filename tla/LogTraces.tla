------------------------------ MODULE LogTraces -----------------------------
(***************************************************************************)
(* The call chains of tarslog.  One thread, of TimerTaskQueue, reads the   *)
(* new lines of the day's log, posts them to Elasticsearch, puts them      *)
(* together to traces, releases a trace that is old enough into the graphs *)
(* of calls and posts it, and takes snapshots, which another thread writes *)
(* to the disk.  After a crash the last snapshot is read back and the log  *)
(* read on from where it had been read.                                    *)
(*                                                                         *)
(* A trace is one call: the lines of the caller (cs, cr) and of the callee *)
(* (sr, ss), each from a machine of its own.  A post that fails is         *)
(* repeated from memory, at most eleven times.                             *)
(***************************************************************************)
EXTENDS Naturals, Sequences

CONSTANTS
  Trace,
  Closure, Max,  \* closureOvertime_, maxOvertime_
  MaxTime, MaxCrashes, MaxFaults  \* bounds: the clock, crashes, failing posts

VARIABLES
  now,
  file,     \* the day's log
  mem,      \* the reader's seek, the traces and the graphs
  writing,  \* a snapshot on its way to the disk
  disk,     \* the snapshot file
  es,       \* what Elasticsearch has: lines, traces, graphs
  pending,  \* posts to be repeated
  lost,     \* posts given up, or forgotten in a crash
  crashes, faults

vars == <<now, file, mem, writing, disk, es, pending, lost, crashes, faults>>

Kind == {"cs", "cr", "sr", "ss"}
Line == Trace \X Kind
Nothing == [t \in Trace |-> {}]

\* part: the lines of a trace in memory, none when it is not there; gone: those
\* of it that have been released, in so many parts; counted: the calls of it in
\* the graphs.
NoMem ==
  [seek |-> 0, part |-> Nothing, born |-> [t \in Trace |-> 0], gone |-> Nothing,
   parts |-> [t \in Trace |-> 0], counted |-> [t \in Trace |-> 0]]
NoSnapshot == [taken |-> FALSE, mem |-> NoMem]
NoPosts == [lines |-> {}, traces |-> {}]

TypeOK ==
  /\ now \in 0 .. MaxTime /\ crashes \in 0 .. MaxCrashes /\ faults \in 0 .. MaxFaults
  /\ file \in Seq(Line)
  /\ \A m \in {mem, writing.mem, disk.mem} :
       /\ m.seek \in 0 .. Len(file) /\ m.born \in [Trace -> 0 .. MaxTime]
       /\ m.part \in [Trace -> SUBSET Kind] /\ m.gone \in [Trace -> SUBSET Kind]
       /\ m.parts \in [Trace -> 0 .. 4] /\ m.counted \in [Trace -> 0 .. 4]
  /\ es.lines \subseteq Line /\ es.trace \in [Trace -> SUBSET Kind]
  /\ es.graph \in [Trace -> 0 .. 4]
  /\ \A p \in {pending, lost} : p.lines \subseteq Line /\ p.traces \subseteq Trace \X SUBSET Kind

Init ==
  /\ now = 0 /\ file = <<>> /\ crashes = 0 /\ faults = 0
  /\ mem = NoMem /\ writing = NoSnapshot /\ disk = NoSnapshot
  /\ es = [lines |-> {}, trace |-> Nothing, graph |-> [t \in Trace |-> 0]]
  /\ pending = NoPosts /\ lost = NoPosts

-----------------------------------------------------------------------------
Logged(t) == {k \in Kind : \E i \in 1 .. Len(file) : file[i] = <<t, k>>}

Write(t, k) ==
  /\ k \notin Logged(t)
  /\ k = "cr" => "cs" \in Logged(t)
  /\ k = "ss" => "sr" \in Logged(t)
  /\ file' = Append(file, <<t, k>>)
  /\ UNCHANGED <<now, mem, writing, disk, es, pending, lost, crashes, faults>>

Tick ==
  /\ now < MaxTime /\ now' = now + 1
  /\ UNCHANGED <<file, mem, writing, disk, es, pending, lost, crashes, faults>>

Thread == UNCHANGED <<now, file, disk, crashes>>
Posted == UNCHANGED <<pending, lost, faults>>
Fails == faults < MaxFaults /\ faults' = faults + 1 /\ UNCHANGED <<es, lost>>

New == {file[i] : i \in mem.seek + 1 .. Len(file)}
NewOf(t) == {k \in Kind : <<t, k>> \in New}

\* updateTime is the time of a trace's first line, and stays.
pushRawLog ==
  mem' = [mem EXCEPT !.seek = Len(file),
            !.part = [t \in Trace |-> mem.part[t] \cup NewOf(t)],
            !.born = [t \in Trace |-> IF mem.part[t] = {} /\ NewOf(t) # {} THEN now
                                      ELSE mem.born[t]]]

onModify ==
  /\ mem.seek < Len(file) /\ pushRawLog
  /\ \/ es' = [es EXCEPT !.lines = @ \cup New] /\ Posted
     \/ pending' = [pending EXCEPT !.lines = @ \cup New] /\ Fails
  /\ Thread /\ UNCHANGED writing

\* The call is in the graph of the traces like it if the trace has its root, and
\* the callee both of its times.
Calls(part) ==
  IF {"sr", "ss"} \subseteq part /\ part \cap {"cs", "cr"} # {} THEN 1 ELSE 0

\* A trace whose call has ended waits longer for lines that are missing.
Overtime(part) == IF "cr" \in part /\ part # Kind THEN Max ELSE Closure

checkAndUpdateITrace(t) ==
  LET part == mem.part[t]
  IN  /\ part # {} /\ mem.born[t] + Overtime(part) < now
      /\ mem' = [mem EXCEPT !.part[t] = {}, !.gone[t] = @ \cup part, !.parts[t] = @ + 1,
                            !.counted[t] = @ + Calls(part)]
      /\ \/ es' = [es EXCEPT !.trace[t] = part] /\ Posted
         \/ pending' = [pending EXCEPT !.traces = @ \cup {<<t, part>>}] /\ Fails
      /\ Thread /\ UNCHANGED writing

\* The whole graph is posted again every five minutes.
checkAndUpdateIGraph ==
  /\ es' = [es EXCEPT !.graph = mem.counted]
  /\ Thread /\ UNCHANGED <<mem, writing>> /\ Posted

RetryLines ==
  /\ pending.lines # {} /\ pending' = [pending EXCEPT !.lines = {}]
  /\ \/ es' = [es EXCEPT !.lines = @ \cup pending.lines] /\ UNCHANGED lost
     \/ lost' = [lost EXCEPT !.lines = @ \cup pending.lines] /\ UNCHANGED es
  /\ Thread /\ UNCHANGED <<mem, writing, faults>>

RetryTrace(p) ==
  /\ p \in pending.traces /\ pending' = [pending EXCEPT !.traces = @ \ {p}]
  /\ \/ es' = [es EXCEPT !.trace[p[1]] = p[2]] /\ UNCHANGED lost
     \/ lost' = [lost EXCEPT !.traces = @ \cup {p}] /\ UNCHANGED es
  /\ Thread /\ UNCHANGED <<mem, writing, faults>>

-----------------------------------------------------------------------------
\* Reader and traces are dumped by the thread that changes them.
createSnapshot ==
  /\ ~writing.taken /\ writing' = [taken |-> TRUE, mem |-> mem]
  /\ Thread /\ UNCHANGED <<mem, es>> /\ Posted

save2file ==
  /\ writing.taken /\ disk' = writing /\ writing' = NoSnapshot
  /\ UNCHANGED <<now, file, mem, es, pending, lost, crashes, faults>>

restore_Wrong(snapshot) ==
  mem' = [snapshot.mem EXCEPT !.seek = 0, !.born = [t \in Trace |-> now]]

\* The traces are young again.
restore(snapshot) ==
  mem' = [snapshot.mem EXCEPT !.born = [t \in Trace |-> now]]

\* A snapshot that was being written may be cut off: such a file is not read.
Crash ==
  /\ crashes < MaxCrashes /\ crashes' = crashes + 1
  /\ disk' \in {disk} \cup (IF writing.taken THEN {NoSnapshot} ELSE {})
  /\ restore(disk') /\ writing' = NoSnapshot
  /\ pending' = NoPosts
  /\ lost' = [lines |-> lost.lines \cup pending.lines, traces |-> lost.traces \cup pending.traces]
  /\ UNCHANGED <<now, file, es, faults>>

Next ==
  \/ \E t \in Trace, k \in Kind : Write(t, k)
  \/ \E t \in Trace : checkAndUpdateITrace(t)
  \/ Tick \/ onModify \/ checkAndUpdateIGraph
  \/ RetryLines \/ \E p \in pending.traces : RetryTrace(p)
  \/ createSnapshot \/ save2file \/ Crash

Spec == Init /\ [][Next]_vars

-----------------------------------------------------------------------------
Read(t) == {k \in Kind : \E i \in 1 .. mem.seek : file[i] = <<t, k>>}

\* Across crashes each line that has been read is in memory or in a released part
\* of its trace, never in both, so that no call is counted twice in a graph, not
\* in the posted one either; a line that has been read and a trace that has been
\* released as a whole are in Elasticsearch, unless their posts are under way,
\* were given up, or were forgotten in a crash.
CountedOnce ==
  /\ \A t \in Trace :
       /\ mem.part[t] \cap mem.gone[t] = {}
       /\ mem.part[t] \cup mem.gone[t] = Read(t)
       /\ mem.counted[t] <= 1 /\ es.graph[t] <= 1
       /\ mem.parts[t] = 1 /\ mem.gone[t] = Kind =>
            \/ es.trace[t] = mem.gone[t]
            \/ <<t, mem.gone[t]>> \in pending.traces \cup lost.traces
  /\ \A i \in 1 .. mem.seek : file[i] \in es.lines \cup pending.lines \cup lost.lines
=============================================================================
