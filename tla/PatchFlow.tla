----------------------------- MODULE PatchFlow ------------------------------
(***************************************************************************)
(* A patch from the task to the servers' files.  A task item has the       *)
(* package copied to where tarspatch serves it from, has the node patch    *)
(* its server and asks for the progress until it is told of success.  The  *)
(* threads of BatchPatchThread download the package, check its md5 and     *)
(* unpack it.                                                              *)
(*                                                                         *)
(* The servers of a group on one node: the served file and the downloaded  *)
(* one have no version in their names, and the whole group shares them.    *)
(* A patch asked for directly may name an ostype: its file has the version *)
(* in its name and is served from a directory that others fill.            *)
(* What patching does to a server's state is in ServerLifecycle, how the   *)
(* file is served in PatchCache.                                           *)
(***************************************************************************)
EXTENDS Naturals

CONSTANTS
  Server, Version, Task,
  MaxFaults  \* bound: failing steps, lost answers, restarts of tarsnode

VARIABLES
  served,  \* the package in tarspatch's TARSBatchPatching directory
  local,   \* the package in the node's download directory
  server,  \* patching, _patchInfo, what is installed, and what the thread does
  task,    \* the items of tasks, and the patches asked for directly
  faults

vars == <<served, local, server, task, faults>>

None == "none"
Package == Version \cup {None}
Stage == {"idle", "queued", "download", "unpack", "update", "result", "patched"}

TypeOK ==
  /\ served \in Package /\ local \in Package /\ faults \in 0 .. MaxFaults
  /\ server \in [Server -> [patching : BOOLEAN, full : BOOLEAN, succ : BOOLEAN, ok : BOOLEAN,
                            installed : Package, version : Package, ostype : BOOLEAN,
                            stage : Stage, swapped : BOOLEAN]]
  /\ task \in [Task -> [stage : {"new", "prepare", "push", "poll", "success", "failed"},
                        server : Server \cup {None}, version : Package,
                        ostype : BOOLEAN, overtaken : BOOLEAN, right : BOOLEAN, swapped : BOOLEAN]]

\* full: iPercent is 100; ok: the thread has met no error; swapped: the
\* package was replaced between its check and its unpacking.
Fresh(installed) ==
  [patching |-> FALSE, full |-> FALSE, succ |-> FALSE, ok |-> TRUE, installed |-> installed,
   version |-> None, ostype |-> FALSE, stage |-> "idle", swapped |-> FALSE]

Init ==
  /\ served = None /\ local = None /\ faults = 0
  /\ server = [s \in Server |-> Fresh(None)]
  /\ task = [t \in Task |-> [stage |-> "new", server |-> None, version |-> None,
                             ostype |-> FALSE, overtaken |-> FALSE, right |-> TRUE, swapped |-> FALSE]]

Fault == faults < MaxFaults /\ faults' = faults + 1
Go(t, stage) == task' = [task EXCEPT ![t].stage = stage]

-----------------------------------------------------------------------------
\* Asked for by a task, which names no ostype, or directly.
addTask(t) ==
  /\ task[t].stage = "new"
  /\ \E s \in Server, v \in Version, os \in BOOLEAN :
       task' = [task EXCEPT ![t].stage = "prepare", ![t].server = s, ![t].version = v,
                            ![t].ostype = os]
  /\ UNCHANGED <<served, local, server, faults>>

\* preparePatchFile overwrites the package another task may still need.
preparePatch(t) ==
  /\ task[t].stage = "prepare"
  /\ \/ served' = task[t].version /\ Go(t, "push") /\ UNCHANGED faults
     \/ Fault /\ Go(t, "failed") /\ UNCHANGED served
  /\ UNCHANGED <<local, server>>

patchPro_Wrong(s, v, os) ==
  server' = [server EXCEPT ![s].patching = TRUE, ![s].version = v, ![s].ostype = os,
                           ![s].stage = "queued"]

\* The node presets the server and queues the patch.
patchPro(s, v, os) ==
  server' = [server EXCEPT ![s].patching = TRUE, ![s].full = FALSE, ![s].version = v,
                           ![s].ostype = os, ![s].stage = "queued"]

\* A server that is being patched refuses; the answer may be lost.
batchPatch(t) ==
  LET s == task[t].server
  IN  /\ task[t].stage = "push"
      /\ IF server[s].patching
         THEN Go(t, "failed") /\ UNCHANGED <<server, faults>>
         ELSE /\ patchPro(s, task[t].version, task[t].ostype)
              /\ \E lost \in BOOLEAN :
                   /\ IF lost THEN Fault ELSE UNCHANGED faults
                   /\ task' = [u \in Task |->
                        IF u = t THEN [task[t] EXCEPT !.stage = IF lost THEN "failed" ELSE "poll"]
                        ELSE [task[u] EXCEPT !.overtaken = @ \/ task[u].server = s]]
  /\ UNCHANGED <<served, local>>

\* getPatchPercent fails when the last patch did and none is under way; the task
\* takes 100 per cent and bSucc for success, of whichever version.
getPatchPercent(t) ==
  LET s == server[task[t].server]
  IN  /\ task[t].stage = "poll"
      /\ CASE ~s.succ /\ ~s.patching -> Go(t, "failed")
           [] s.succ /\ s.full ->
                task' = [task EXCEPT ![t].stage = "success",
                                     ![t].right = s.installed = task[t].version,
                                     ![t].swapped = s.swapped]
           [] OTHER -> FALSE
  /\ UNCHANGED <<served, local, server, faults>>

\* patch_wait_timeout, or a failing call.
GiveUp(t) ==
  /\ task[t].stage = "poll" /\ Fault /\ Go(t, "failed")
  /\ UNCHANGED <<served, local, server>>

-----------------------------------------------------------------------------
Patching == UNCHANGED <<served, task>>
To(s, stage) == server' = [server EXCEPT ![s].stage = stage]
Fail(s) == server' = [server EXCEPT ![s].stage = "result", ![s].ok = FALSE]

canExecute(s) ==
  /\ server[s].stage = "queued"
  /\ server' = [server EXCEPT ![s].stage = "download", ![s].full = FALSE, ![s].succ = TRUE,
                              ![s].ok = TRUE, ![s].swapped = FALSE]
  /\ UNCHANGED <<local, faults>> /\ Patching

\* A thread about to unpack the file that the group shares.
Unpacks(u) == server[u].stage = "unpack" /\ ~server[u].ostype

\* The downloaded package is now f: a thread behind its check may unpack that.
Replace(s, f, stage, ok) ==
  /\ local' = f
  /\ server' = [u \in Server |->
       IF u = s THEN [server[u] EXCEPT !.stage = stage, !.ok = ok]
       ELSE [server[u] EXCEPT !.swapped = @ \/ (Unpacks(u) /\ f # local)]]

download_Wrong(s) ==
  Replace(s, IF local = server[s].version THEN local ELSE served, "unpack", TRUE)

\* Under the lock of the local file: it is fetched unless it is the one, and its
\* md5 is checked.
download(s) ==
  IF local = server[s].version \/ served = server[s].version
  THEN Replace(s, server[s].version, "unpack", TRUE)
  ELSE Replace(s, served, "result", FALSE)

\* With an ostype a failed download does not end the patch: it is remembered, and
\* the file of that name is unpacked if there is one.
DownloadOs(s) ==
  \E ok \in BOOLEAN : server' = [server EXCEPT ![s].stage = "unpack", ![s].ok = ok]

Download(s) ==
  /\ server[s].stage = "download"
  /\ \/ ~server[s].ostype /\ download(s) /\ UNCHANGED faults
     \/ ~server[s].ostype /\ Fault /\ \E f \in {local, None} : Replace(s, f, "result", FALSE)
     \/ server[s].ostype /\ DownloadOs(s) /\ UNCHANGED <<local, faults>>
  /\ Patching

\* The lock is gone: another server's patch may have replaced the shared file.  A
\* file with the version in its name is that version when its download succeeded,
\* and whatever was put under that name before when it did not.
Unpacked(s) ==
  IF ~server[s].ostype THEN {local}
  ELSE IF server[s].ok THEN {server[s].version} ELSE Package

\* The result is only reported after a download that succeeded.
install(s, f) ==
  server' = [server EXCEPT ![s].stage = IF server[s].ok THEN "update" ELSE "result",
                           ![s].installed = f]

Unpack(s) ==
  /\ server[s].stage = "unpack"
  /\ \/ /\ \E f \in Unpacked(s) : IF f = None THEN Fail(s) ELSE install(s, f)
        /\ UNCHANGED faults
     \/ Fault /\ Fail(s)
  /\ UNCHANGED local /\ Patching

updatePatchResult(s) ==
  /\ server[s].stage = "update"
  /\ \/ To(s, "result") /\ UNCHANGED faults
     \/ Fault /\ Fail(s)
  /\ UNCHANGED local /\ Patching

setPatchResult(s) ==
  /\ server[s].stage = "result"
  /\ server' = [server EXCEPT ![s].stage = "patched", ![s].succ = server[s].ok]
  /\ UNCHANGED <<local, faults>> /\ Patching

\* The state from before the patch is put back behind it.
setPatched(s) ==
  /\ server[s].stage = "patched"
  /\ server' = [server EXCEPT ![s].stage = "idle", ![s].full = TRUE, ![s].patching = FALSE]
  /\ UNCHANGED <<local, faults>> /\ Patching

Restart ==
  /\ Fault /\ server' = [s \in Server |-> Fresh(server[s].installed)]
  /\ UNCHANGED local /\ Patching

Next ==
  \/ \E t \in Task : addTask(t) \/ preparePatch(t) \/ batchPatch(t) \/ getPatchPercent(t)
                     \/ GiveUp(t)
  \/ \E s \in Server : canExecute(s) \/ Download(s) \/ Unpack(s) \/ updatePatchResult(s)
                       \/ setPatchResult(s) \/ setPatched(s)
  \/ Restart

Spec == Init /\ [][Next]_vars

-----------------------------------------------------------------------------
\* A task that is told of success has its version installed, unless another
\* task's patch of the server came after its own, or a patch of another server
\* of the group replaced the downloaded package between its check and its use.
\* In particular nobody takes the result of an earlier patch for its own, and
\* nobody is told of success when what was there was unpacked after a download
\* that failed.
PatchedAsTold ==
  \A t \in Task : task[t].stage = "success" =>
     task[t].right \/ task[t].overtaken \/ task[t].swapped
=============================================================================
