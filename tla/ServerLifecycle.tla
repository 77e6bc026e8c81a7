--------------------------- MODULE ServerLifecycle ---------------------------
(***************************************************************************)
(* The life of one server managed by tarsnode (src/NodeServer): the state  *)
(* of its ServerObject, the commands that change it (CommandLoad,          *)
(* CommandStart, CommandStop, CommandPatch), the threads that run them     *)
(* (the RPC handlers of ServerManager, the KeepAliveThread, the            *)
(* BatchPatchThreads), the heartbeats the server's processes send to       *)
(* ServerImp, and the operating-system processes themselves.               *)
(*                                                                         *)
(* ServerObject's methods lock the object one call at a time, so one       *)
(* action is one locked region, or one unlocked read or write; what a      *)
(* command reads in one action and uses in a later one may be stale, as it *)
(* may be in the code.  ServerFactory's lock is held across the whole of   *)
(* CommandLoad and is modelled by factoryLock.                             *)
(*                                                                         *)
(* The server is a native (not containerised) tars_cpp server without a    *)
(* start or stop script.  Time is abstract: every timer is an age that a   *)
(* clock action may advance at any moment.                                 *)
(*                                                                         *)
(* A definition called X_Wrong is not part of the specification: it is X   *)
(* with a plausible mistake, kept to see which property the mistake breaks. *)
(***************************************************************************)
EXTENDS Naturals, FiniteSets

CONSTANTS
    Handlers,      \* RPC threads that run ServerManager's operations
    KeepAlive,     \* the KeepAliveThread
    Patchers,      \* the BatchPatchThreads (/tars/node<bpthreads>, 2 by default)
    Pids,          \* process identifiers the operating system hands out
    NoPid,         \* _pid = 0
    NoThread,      \* ServerFactory's lock is free
    Ops,           \* the operations the registry requests in this instance
    MaxRequests,   \* bound on the number of requests
    Faults         \* what may go wrong in this instance, among AllFaults

Threads == Handlers \cup {KeepAlive}

AllOps == {"start", "stop", "patch"}

\* outage: the registry is unreachable.  late: a heartbeat is handled after its
\* sender has died.  fork: fork fails.  limit: the Activator punishes too many
\* starts.  stall: a patch makes no progress for 600 seconds.  noExe: the
\* executable has never been installed.
AllFaults == {"outage", "late", "fork", "limit", "stall", "noExe"}

ASSUME LifecycleAssumption ==
    /\ KeepAlive \notin Handlers
    /\ NoThread \notin Threads
    /\ NoPid \notin Pids
    /\ Ops \subseteq AllOps
    /\ MaxRequests \in Nat
    /\ Faults \subseteq AllFaults

VARIABLES
    obj,          \* the ServerObject
    proc,         \* the server's operating-system processes
    exeExists,    \* the server's executable is on the disk
    registry,     \* setting_state in the registry, and tarsnode's cached copy
    thread,       \* where each handler and the KeepAliveThread are
    factoryLock,  \* holder of ServerFactory's lock
    queued,       \* BatchPatch holds a request for the server (_patchIng)
    patcher,      \* where each BatchPatchThread is
    requests      \* number of requests received (bounded by MaxRequests)

vars == <<obj, proc, exeExists, registry, thread, factoryLock, queued, patcher,
          requests>>

-----------------------------------------------------------------------------
(***************************************************************************)
(* ServerObject.  startAge: 0 up to 5 seconds after startFinish, 1 up to   *)
(* the activating timeout, 2 beyond.  silent: a heartbeat is overdue       *)
(* (isTimeOut).  patchStale: no patch progress for 600 seconds.            *)
(***************************************************************************)
InternalServerState == {"Inactive", "Activating", "Active", "Deactivating",
                        "Loading", "BatchPatching"}

\* toStringState(_state).find("ing") != npos
IsTransitional(s) == s \in {"Activating", "Deactivating", "Loading",
                            "BatchPatching"}

\* The states a command may capture and give back later.
Restorable == {"Inactive", "Activating", "Active"}

Setting == {"active", "inactive"}

ObjectType ==
    [state: InternalServerState, lastState: Restorable, pid: Pids \cup {NoPid},
     enabled: BOOLEAN, settingState: Setting, patched: BOOLEAN,
     isStarting: BOOLEAN, started: BOOLEAN, startAge: 0..2, silent: BOOLEAN,
     patchStale: BOOLEAN, limited: BOOLEAN]

\* What becomes of a process that ends; "dead": its last heartbeat is on its way.
Ended == {"free"} \cup (IF "late" \in Faults THEN {"dead"} ELSE {})

Up == {p \in Pids : proc[p] = "up"}

\* checkPid() == 0: kill(_pid, 0) succeeds.
CheckPid == obj.pid \in Up

isStartTimeOut == obj.startAge = 2

\* isAutoStart, the state already being known not to be transitional
isAutoStart_Wrong == obj.enabled /\ obj.patched /\ ~obj.limited /\ obj.started
isAutoStart == obj.enabled /\ obj.patched /\ ~obj.limited

\* The handlers and the KeepAliveThread.
ThreadPc == {"idle", "fetch", "load", "loading", "unloaded", "ctor", "canStart",
             "activate", "setPid", "verify", "finish", "dtor", "canStop",
             "wait", "kill", "waitKilled", "stopped", "preset", "push",
             "reconcile", "zombie", "autoStart", "synCache"}

ThreadType ==
    [pc: ThreadPc, op: AllOps \cup {"none"},
     desc: Setting \cup {"none"},   \* settingState of the descriptor just read
     saved: Restorable,             \* StatExChange's _state2
     pidOk: BOOLEAN,                \* result of the last checkPid
     child: Pids \cup {NoPid},      \* process forked by this start
     useAdmin: BOOLEAN]             \* CommandStop's _useAdmin

PatcherType == [pc: {"idle", "canExecute", "execute", "restore"},
                saved: Restorable]

TypeOK ==
    /\ obj \in ObjectType
    /\ proc \in [Pids -> {"free", "up", "dead"}]
    /\ exeExists \in BOOLEAN
    /\ registry \in [setting: Setting, cache: Setting]
    /\ thread \in [Threads -> ThreadType]
    /\ factoryLock \in Handlers \cup {NoThread}
    /\ queued \in BOOLEAN
    /\ patcher \in [Patchers -> PatcherType]
    /\ requests \in 0..MaxRequests

\* The server has been loaded by loadAllServers and no process runs yet.
Init ==
    /\ \E s \in Setting, e \in {TRUE} \cup (IF "noExe" \in Faults THEN {FALSE} ELSE {}) :
         /\ registry = [setting |-> s, cache |-> s]
         /\ exeExists = e
         /\ obj = [state |-> "Inactive", lastState |-> "Inactive",
                   pid |-> NoPid, enabled |-> (s = "active"),
                   settingState |-> s, patched |-> TRUE, isStarting |-> FALSE,
                   started |-> FALSE, startAge |-> 2, silent |-> FALSE,
                   patchStale |-> FALSE, limited |-> FALSE]
    /\ proc = [p \in Pids |-> "free"]
    /\ thread = [t \in Threads |->
                   [pc |-> "idle", op |-> "none", desc |-> "none",
                    saved |-> "Inactive", pidOk |-> FALSE, child |-> NoPid,
                    useAdmin |-> TRUE]]
    /\ factoryLock = NoThread
    /\ queued = FALSE
    /\ patcher = [q \in Patchers |-> [pc |-> "idle", saved |-> "Inactive"]]
    /\ requests = 0

At(t, pc) == thread[t].pc = pc
Goto(t, pc) == thread' = [thread EXCEPT ![t].pc = pc]

\* The operation is over: the handler is free, or the KeepAliveThread goes on.
Return(t) ==
    thread' = [thread EXCEPT
                 ![t] = [@ EXCEPT !.pc = IF t = KeepAlive THEN "synCache"
                                                          ELSE "idle",
                                  !.op = "none", !.desc = "none",
                                  !.saved = "Inactive", !.pidOk = FALSE,
                                  !.child = NoPid, !.useAdmin = TRUE]]

-----------------------------------------------------------------------------
(***************************************************************************)
(* Requests.  tarsAdminRegistry writes setting_state before it calls the   *)
(* node, except that the stop half of a restart leaves it as it is; the    *)
(* start half of the restart is a "start" request of its own.              *)
(***************************************************************************)
Request(h) ==
    /\ At(h, "idle")
    /\ requests < MaxRequests
    /\ requests' = requests + 1
    /\ \E op \in Ops :
         /\ thread' = [thread EXCEPT ![h].op = op,
                         ![h].pc = IF op = "stop" THEN "canStop" ELSE "fetch"]
         /\ \/ op = "start" /\ registry' = [registry EXCEPT !.setting = "active"]
            \/ op = "stop" /\ registry' = [registry EXCEPT !.setting = "inactive"]
            \/ op \in {"stop", "patch"} /\ UNCHANGED registry
    /\ UNCHANGED <<obj, proc, exeExists, factoryLock, queued, patcher>>

-----------------------------------------------------------------------------
(***************************************************************************)
(* ServerFactory::loadServer                                               *)
(***************************************************************************)

\* getServerFromRegistry, and getServerFromCache for the operations that
\* enable the cache.  No lock is held: the descriptor may be out of date when
\* it is used.
FetchDescriptor(h) ==
    /\ At(h, "fetch")
    /\ \/ /\ thread' = [thread EXCEPT ![h].desc = registry.setting,
                                      ![h].pc = "load"]
          /\ registry' = [registry EXCEPT !.cache = registry.setting]
       \/ /\ "outage" \in Faults
          /\ thread[h].op \in {"start", "patch"}
          /\ thread' = [thread EXCEPT ![h].desc = registry.cache,
                                      ![h].pc = "load"]
          /\ UNCHANGED registry
       \/ /\ "outage" \in Faults
          /\ thread[h].op = "stop"
          /\ Goto(h, "unloaded")
          /\ UNCHANGED registry
    /\ UNCHANGED <<obj, proc, exeExists, factoryLock, queued, patcher, requests>>

\* createServer: setServerDescriptor overwrites _enabled and resets the
\* heartbeat timers, then CommandLoad::canExecute refuses a server in
\* transition or shelters its state in a StatExChange.
CreateServer(h) ==
    LET described == [obj EXCEPT !.settingState = thread[h].desc,
                                 !.enabled = (thread[h].desc = "active"),
                                 !.silent = FALSE]
    IN  /\ At(h, "load")
        /\ factoryLock = NoThread
        /\ IF IsTransitional(obj.state) /\ obj.state # "Activating"
           THEN /\ obj' = described
                /\ Goto(h, "unloaded")
                /\ UNCHANGED factoryLock
           ELSE /\ obj' = [described EXCEPT !.state = "Loading"]
                /\ thread' = [thread EXCEPT ![h].saved = obj.state,
                                            ![h].pc = "loading"]
                /\ factoryLock' = h
        /\ UNCHANGED <<proc, exeExists, registry, queued, patcher, requests>>

LoadDone_Wrong(h) ==
    /\ At(h, "loading")
    /\ factoryLock' = NoThread
    /\ Goto(h, "unloaded")
    /\ UNCHANGED <<obj, proc, exeExists, registry, queued, patcher, requests>>

\* CommandLoad::execute has succeeded or failed; its StatExChange gives the
\* captured state back, whatever the state has become, and the factory's lock
\* is released.
LoadDone(h) ==
    /\ At(h, "loading")
    /\ obj' = [obj EXCEPT !.state = thread[h].saved]
    /\ factoryLock' = NoThread
    /\ \/ thread[h].op = "start" /\ Goto(h, "ctor")
       \/ thread[h].op = "patch" /\ Goto(h, "preset")
       \/ thread[h].op = "stop" /\ Return(h)
       \/ Goto(h, "unloaded")
    /\ UNCHANGED <<proc, exeExists, registry, queued, patcher, requests>>

\* loadServer returned NULL: startServer still enables the server.
LoadFailed(h) ==
    /\ At(h, "unloaded")
    /\ factoryLock = NoThread
    /\ obj' = [obj EXCEPT !.enabled = @ \/ thread[h].op = "start"]
    /\ Return(h)
    /\ UNCHANGED <<proc, exeExists, registry, factoryLock, queued, patcher,
                   requests>>

-----------------------------------------------------------------------------
(***************************************************************************)
(* CommandStart, run by startServer and by checkServer                     *)
(***************************************************************************)

\* The constructor marks the server as starting.
StartConstruct(t) ==
    /\ At(t, "ctor")
    /\ obj' = [obj EXCEPT !.isStarting = TRUE]
    /\ Goto(t, "canStart")
    /\ UNCHANGED <<proc, exeExists, registry, factoryLock, queued, patcher,
                   requests>>

\* canExecute: a request enables the server; the KeepAliveThread only starts
\* an enabled one.  Only an Inactive server whose executable exists is started.
StartCanExecute(t) ==
    LET byNode   == t \in Handlers
        enabled  == obj.enabled \/ byNode
        asked    == [obj EXCEPT !.enabled = enabled]
        startable == enabled /\ obj.state = "Inactive"
    IN  /\ At(t, "canStart")
        /\ \/ /\ ~startable
              /\ obj' = asked
              /\ Goto(t, "dtor")
           \/ /\ startable
              /\ ~exeExists
              /\ obj' = [asked EXCEPT !.patched = FALSE]
              /\ Goto(t, "dtor")
           \/ /\ startable
              /\ exeExists
              /\ obj' = [asked EXCEPT !.patched = TRUE, !.state = "Activating"]
              /\ Goto(t, "activate")
        /\ UNCHANGED <<proc, exeExists, registry, factoryLock, queued, patcher,
                       requests>>

\* addActivatingRecord may limit further automatic starts (module Activator).
MayLimit ==
    \E l \in {FALSE} \cup (IF "limit" \in Faults THEN {TRUE} ELSE {}) :
        obj' = [obj EXCEPT !.limited = @ \/ l]

\* The pids the system may hand out: free, and not the last one known.
FreePids == {p \in Pids : /\ proc[p] = "free" /\ p # obj.pid
                          /\ \A u \in Threads : thread[u].child # p}

\* Activator::activate forks the process (a pid nobody remembers) or throws,
\* which it also does when the process table is full.
ActivateOk(t) ==
    /\ At(t, "activate")
    /\ \E p \in FreePids :
         /\ proc' = [proc EXCEPT ![p] = "up"]
         /\ thread' = [thread EXCEPT ![t].child = p, ![t].pc = "setPid"]
    /\ MayLimit
    /\ UNCHANGED <<exeExists, registry, factoryLock, queued, patcher, requests>>

ActivateThrows(t) ==
    /\ At(t, "activate")
    /\ "fork" \in Faults \/ FreePids = {}
    /\ MayLimit
    /\ thread' = [thread EXCEPT ![t].pidOk = FALSE, ![t].pc = "finish"]
    /\ UNCHANGED <<proc, exeExists, registry, factoryLock, queued, patcher,
                   requests>>

\* startNormal stores the pid found in the .pid file ...
StartSetPid(t) ==
    /\ At(t, "setPid")
    /\ obj' = [obj EXCEPT !.pid = thread[t].child]
    /\ thread' = [thread EXCEPT ![t].child = NoPid, ![t].pc = "verify"]
    /\ UNCHANGED <<proc, exeExists, registry, factoryLock, queued, patcher,
                   requests>>

\* ... and succeeds when that process exists.
StartVerify(t) ==
    /\ At(t, "verify")
    /\ thread' = [thread EXCEPT ![t].pidOk = CheckPid, ![t].pc = "finish"]
    /\ UNCHANGED <<obj, proc, exeExists, registry, factoryLock, queued, patcher,
                   requests>>

\* startFinish: success leaves the state alone and restarts the timers.
StartFinish(t) ==
    /\ At(t, "finish")
    /\ \/ /\ thread[t].pidOk
          /\ obj' = [obj EXCEPT !.silent = FALSE, !.started = TRUE,
                                !.startAge = 0]
       \/ /\ ~thread[t].pidOk
          /\ obj' = [obj EXCEPT !.pid = NoPid, !.state = "Inactive",
                                !.started = FALSE]
    /\ thread' = [thread EXCEPT ![t].pidOk = FALSE, ![t].pc = "dtor"]
    /\ UNCHANGED <<proc, exeExists, registry, factoryLock, queued, patcher,
                   requests>>

\* The destructor clears the mark, whoever set it.
StartDestruct(t) ==
    /\ At(t, "dtor")
    /\ obj' = [obj EXCEPT !.isStarting = FALSE]
    /\ Return(t)
    /\ UNCHANGED <<proc, exeExists, registry, factoryLock, queued, patcher,
                   requests>>

-----------------------------------------------------------------------------
(***************************************************************************)
(* CommandStop, run by stopServer and twice by checkServer                 *)
(***************************************************************************)

AfterStop_Wrong(t) == IF t \in Handlers THEN "idle"
                      ELSE IF thread[t].useAdmin THEN "autoStart" ELSE "zombie"

\* Where a thread goes when its stop command has returned: stopServer reloads
\* the server, checkServer goes on.
AfterStop(t) == IF t \in Handlers THEN "fetch"
                ELSE IF thread[t].useAdmin THEN "autoStart" ELSE "zombie"

\* canExecute: a request disables the server.  A server being patched is only
\* stopped when the patch has made no progress for a long time.
StopCanExecute(t) ==
    LET asked  == [obj EXCEPT !.enabled = @ /\ t \notin Handlers]
        refuse == \/ obj.state = "Inactive"
                  \/ obj.state = "BatchPatching" /\ ~obj.patchStale
    IN  /\ At(t, "canStop")
        /\ t \in Handlers => factoryLock = NoThread
        /\ \/ /\ refuse
              /\ obj' = asked
              /\ Goto(t, AfterStop(t))
           \/ /\ ~refuse
              /\ obj' = [asked EXCEPT !.state = "Deactivating"]
              /\ Goto(t, IF thread[t].useAdmin THEN "wait" ELSE "kill")
        /\ UNCHANGED <<proc, exeExists, registry, factoryLock, queued, patcher,
                       requests>>

StopWait_Wrong(t) ==
    /\ At(t, "wait")
    /\ Goto(t, "stopped")
    /\ UNCHANGED <<obj, proc, exeExists, registry, factoryLock, queued, patcher,
                   requests>>

\* The process has been asked to shut down; poll until its pid is gone, or
\* give up and kill.
StopWait(t) ==
    /\ At(t, "wait")
    /\ \/ ~CheckPid /\ Goto(t, "stopped")
       \/ CheckPid /\ Goto(t, "kill")
    /\ UNCHANGED <<obj, proc, exeExists, registry, factoryLock, queued, patcher,
                   requests>>

\* deactivate: kill -9 of whatever _pid is now.
StopKill(t) ==
    /\ At(t, "kill")
    /\ IF CheckPid
       THEN \E s \in Ended :
               proc' = [proc EXCEPT ![obj.pid] = s]
       ELSE UNCHANGED proc
    /\ Goto(t, "waitKilled")
    /\ UNCHANGED <<obj, exeExists, registry, factoryLock, queued, patcher,
                   requests>>

\* Poll again; when _pid still names a process after the wait, the command
\* fails and leaves the state as it is.
StopWaitKilled(t) ==
    /\ At(t, "waitKilled")
    /\ \/ ~CheckPid /\ Goto(t, "stopped")
       \/ CheckPid /\ Goto(t, AfterStop(t))
    /\ UNCHANGED <<obj, proc, exeExists, registry, factoryLock, queued, patcher,
                   requests>>

Stopped(t) ==
    /\ At(t, "stopped")
    /\ obj' = [obj EXCEPT !.pid = NoPid, !.state = "Inactive", !.started = FALSE]
    /\ Goto(t, AfterStop(t))
    /\ UNCHANGED <<proc, exeExists, registry, factoryLock, queued, patcher,
                   requests>>

-----------------------------------------------------------------------------
(***************************************************************************)
(* ServerManager::patchPro, BatchPatch and CommandPatch                    *)
(***************************************************************************)

\* The state is remembered for the end of the patch; a server in transition
\* (Activating excepted) or a bad parameter is refused.
PatchPreset(h) ==
    /\ At(h, "preset")
    /\ \/ /\ IsTransitional(obj.state) => obj.state = "Activating"
          /\ obj' = [obj EXCEPT !.lastState = obj.state,
                                !.state = "BatchPatching", !.patchStale = FALSE]
          /\ Goto(h, "push")
       \/ /\ UNCHANGED obj
          /\ Return(h)
    /\ UNCHANGED <<proc, exeExists, registry, factoryLock, queued, patcher,
                   requests>>

\* BatchPatch::push_back; a request that is already queued makes it throw,
\* and patchPro leaves the state as it is.
PatchPush(h) ==
    /\ At(h, "push")
    /\ queued' = TRUE
    /\ Return(h)
    /\ UNCHANGED <<obj, proc, exeExists, registry, factoryLock, patcher, requests>>

\* BatchPatch::pop_front forgets the request before it is executed.
PatchPop(q) ==
    /\ patcher[q].pc = "idle"
    /\ queued
    /\ queued' = FALSE
    /\ patcher' = [patcher EXCEPT ![q].pc = "canExecute"]
    /\ UNCHANGED <<obj, proc, exeExists, registry, thread, factoryLock, requests>>

PatchCanExecute_Wrong(q) ==
    /\ patcher[q].pc = "canExecute"
    /\ patcher' = [patcher EXCEPT ![q] = [pc |-> "execute", saved |-> obj.state]]
    /\ obj' = [obj EXCEPT !.state = "BatchPatching", !.patchStale = FALSE]
    /\ UNCHANGED <<proc, exeExists, registry, thread, factoryLock, queued,
                   requests>>

\* CommandPatch::canExecute never refuses.
PatchCanExecute(q) ==
    /\ patcher[q].pc = "canExecute"
    /\ patcher' = [patcher EXCEPT ![q] = [pc |-> "execute",
                                          saved |-> obj.lastState]]
    /\ obj' = [obj EXCEPT !.state = "BatchPatching", !.patchStale = FALSE]
    /\ UNCHANGED <<proc, exeExists, registry, thread, factoryLock, queued,
                   requests>>

\* The package is downloaded, unpacked and copied, or not; the server counts
\* as patched in both cases.
PatchExecute(q) ==
    /\ patcher[q].pc = "execute"
    /\ patcher' = [patcher EXCEPT ![q].pc = "restore"]
    /\ \E ok \in BOOLEAN : exeExists' = (exeExists \/ ok)
    /\ obj' = [obj EXCEPT !.patched = TRUE]
    /\ UNCHANGED <<proc, registry, thread, factoryLock, queued, requests>>

\* The end of doPatchRequest destroys the StatExChange.
PatchRestore(q) ==
    /\ patcher[q].pc = "restore"
    /\ obj' = [obj EXCEPT !.state = patcher[q].saved]
    /\ patcher' = [patcher EXCEPT ![q] = [pc |-> "idle", saved |-> "Inactive"]]
    /\ UNCHANGED <<proc, exeExists, registry, thread, factoryLock, queued,
                   requests>>

-----------------------------------------------------------------------------
(***************************************************************************)
(* ServerObject::checkServer, run by the KeepAliveThread in a loop         *)
(***************************************************************************)

\* Nothing is checked while a start is marked or was finished less than five
\* seconds ago; otherwise checkPid is remembered.
CheckServer ==
    LET t == KeepAlive
        skip == \/ obj.state = "Inactive" /\ obj.settingState = "inactive"
                \/ obj.isStarting
                \/ obj.startAge = 0
    IN  /\ At(t, "idle")
        /\ IF skip
           THEN Goto(t, "synCache")
           ELSE thread' = [thread EXCEPT ![t].pidOk = CheckPid,
                                         ![t].pc = "reconcile"]
        /\ UNCHANGED <<obj, proc, exeExists, registry, factoryLock, queued,
                       patcher, requests>>

\* No process: the state becomes Inactive, unless the server is being patched
\* or is starting and may still report.  A process that stays Activating for
\* too long after a start is killed without being asked.
Reconcile ==
    LET t    == KeepAlive
        gone == /\ ~thread[t].pidOk
                /\ obj.state \notin {"Inactive", "BatchPatching"}
                /\ obj.state = "Activating" => isStartTimeOut
        hung == /\ thread[t].pidOk
                /\ obj.state = "Activating" /\ obj.started /\ isStartTimeOut
    IN  /\ At(t, "reconcile")
        /\ \/ /\ gone
              /\ obj' = [obj EXCEPT !.state = "Inactive"]
           \/ ~gone /\ UNCHANGED obj
        /\ thread' = [thread EXCEPT ![t].pidOk = FALSE, ![t].useAdmin = ~hung,
                                    ![t].pc = IF hung THEN "canStop" ELSE "zombie"]
        /\ UNCHANGED <<proc, exeExists, registry, factoryLock, queued, patcher,
                       requests>>

CheckZombie_Wrong ==
    /\ At(KeepAlive, "zombie")
    /\ Goto(KeepAlive, "autoStart")
    /\ UNCHANGED <<obj, proc, exeExists, registry, factoryLock, queued, patcher,
                   requests>>

\* An Active server whose heartbeats are overdue is stopped.
CheckZombie ==
    LET t == KeepAlive
    IN  /\ At(t, "zombie")
        /\ thread' = [thread EXCEPT ![t].useAdmin = TRUE, ![t].pc =
                         IF obj.state = "Active" /\ obj.silent
                         THEN "canStop" ELSE "autoStart"]
        /\ UNCHANGED <<obj, proc, exeExists, registry, factoryLock, queued,
                       patcher, requests>>

\* An Inactive server is started again when it may be.
CheckAutoStart ==
    LET t == KeepAlive
    IN  /\ At(t, "autoStart")
        /\ IF obj.state = "Inactive" /\ isAutoStart
           THEN Goto(t, "ctor")
           ELSE Goto(t, "synCache")
        /\ UNCHANGED <<obj, proc, exeExists, registry, factoryLock, queued,
                       patcher, requests>>

\* checkAlive goes on; every _synInterval seconds it saves the server's
\* enabled flag in the cached descriptor.
SynCache ==
    LET t == KeepAlive
    IN  /\ At(t, "synCache")
        /\ \/ registry' = [registry EXCEPT !.cache =
                             IF obj.enabled THEN "active" ELSE "inactive"]
           \/ UNCHANGED registry
        /\ thread' = [thread EXCEPT ![t].pc = "idle"]
        /\ UNCHANGED <<obj, proc, exeExists, factoryLock, queued, patcher,
                       requests>>

-----------------------------------------------------------------------------
(***************************************************************************)
(* The server's processes and their heartbeats                             *)
(***************************************************************************)

\* The sender is alive, or has died after it sent this last heartbeat.
\* ServerImp finds the server under the factory's lock.
Beat(p) ==
    /\ factoryLock = NoThread
    /\ proc[p] \in {"up", "dead"}
    /\ proc' = [proc EXCEPT ![p] = IF @ = "dead" THEN "free" ELSE @]
    /\ UNCHANGED <<exeExists, registry, thread, factoryLock, queued, patcher,
                   requests>>

\* ServerObject::keepAlive: a heartbeat makes the server Active unless it is
\* in a transition other than Activating.
keepAlive(p) ==
    /\ Beat(p)
    /\ obj' = [obj EXCEPT
                 !.silent = FALSE,
                 !.patched = TRUE,
                 !.pid = IF ~CheckPid \/ obj.state # "Active" THEN p ELSE @,
                 !.state = IF IsTransitional(@) /\ @ # "Activating"
                           THEN @ ELSE "Active"]

\* ServerObject::keepActiving makes it Activating from any state.
keepActiving(p) ==
    /\ Beat(p)
    /\ obj' = [obj EXCEPT !.silent = FALSE, !.pid = p, !.state = "Activating"]

\* The process ends, by itself or because it was asked to shut down; its last
\* heartbeat may still be on its way, and may be lost.
Exit(p) ==
    /\ \/ /\ proc[p] = "up"
          /\ \E s \in Ended :
                proc' = [proc EXCEPT ![p] = s]
       \/ /\ proc[p] = "dead"
          /\ proc' = [proc EXCEPT ![p] = "free"]
    /\ UNCHANGED <<obj, exeExists, registry, thread, factoryLock, queued, patcher,
                   requests>>

-----------------------------------------------------------------------------
(***************************************************************************)
(* Time                                                                    *)
(***************************************************************************)
Age ==
    /\ obj.startAge < 2
    /\ obj' = [obj EXCEPT !.startAge = @ + 1]
    /\ UNCHANGED <<proc, exeExists, registry, thread, factoryLock, queued,
                   patcher, requests>>

\* Only an Active server's heartbeats matter.  startFinish restarts the heartbeat
\* timer too: a heartbeat cannot be overdue in the first seconds after it.
FallSilent ==
    /\ obj.state = "Active"
    /\ obj.startAge > 0
    /\ ~obj.silent
    /\ obj' = [obj EXCEPT !.silent = TRUE]
    /\ UNCHANGED <<proc, exeExists, registry, thread, factoryLock, queued,
                   patcher, requests>>

\* The punishment interval of the Activator ends.
Unlimit ==
    /\ obj.limited
    /\ obj' = [obj EXCEPT !.limited = FALSE]
    /\ UNCHANGED <<proc, exeExists, registry, thread, factoryLock, queued,
                   patcher, requests>>

\* A patch makes no progress for 600 seconds, ...
PatchStalls ==
    /\ "stall" \in Faults
    /\ obj.state = "BatchPatching"
    /\ ~obj.patchStale
    /\ obj' = [obj EXCEPT !.patchStale = TRUE]
    /\ UNCHANGED <<proc, exeExists, registry, thread, factoryLock, queued,
                   patcher, requests>>

\* ... or its download goes on.
PatchProgress(q) ==
    /\ patcher[q].pc = "execute"
    /\ obj.patchStale
    /\ obj' = [obj EXCEPT !.patchStale = FALSE]
    /\ UNCHANGED <<proc, exeExists, registry, thread, factoryLock, queued,
                   patcher, requests>>

-----------------------------------------------------------------------------
HandlerStep(h) ==
    \/ FetchDescriptor(h) \/ CreateServer(h) \/ LoadDone(h) \/ LoadFailed(h)
    \/ PatchPreset(h) \/ PatchPush(h)

StartStep(t) ==
    \/ StartConstruct(t) \/ StartCanExecute(t) \/ ActivateOk(t)
    \/ ActivateThrows(t) \/ StartSetPid(t) \/ StartVerify(t) \/ StartFinish(t)
    \/ StartDestruct(t)

StopStep(t) ==
    \/ StopCanExecute(t) \/ StopWait(t) \/ StopKill(t) \/ StopWaitKilled(t)
    \/ Stopped(t)

CheckStep ==
    CheckServer \/ Reconcile \/ CheckZombie \/ CheckAutoStart \/ SynCache

PatchStep(q) ==
    PatchPop(q) \/ PatchCanExecute(q) \/ PatchExecute(q) \/ PatchRestore(q)

ProcessStep(p) == keepAlive(p) \/ keepActiving(p) \/ Exit(p)

ClockStep ==
    \/ Age \/ FallSilent \/ Unlimit \/ PatchStalls
    \/ \E q \in Patchers : PatchProgress(q)

Next ==
    \/ \E h \in Handlers : Request(h) \/ HandlerStep(h)
    \/ \E t \in Threads : StartStep(t) \/ StopStep(t)
    \/ CheckStep
    \/ \E q \in Patchers : PatchStep(q)
    \/ \E p \in Pids : ProcessStep(p)
    \/ ClockStep

Spec == Init /\ [][Next]_vars

\* Every thread keeps running, time passes, and the punishment ends.  A fork
\* may fail, but not every time it is tried.  Nothing is assumed of the
\* server's processes: they may crash, hang or never report.
Fairness ==
    /\ \A h \in Handlers : WF_vars(HandlerStep(h))
    /\ \A t \in Threads : WF_vars(StartStep(t)) /\ WF_vars(StopStep(t))
                          /\ SF_vars(ActivateOk(t))
    /\ WF_vars(CheckStep)
    /\ \A q \in Patchers : WF_vars(PatchStep(q))
    /\ WF_vars(Age) /\ WF_vars(Unlimit) /\ WF_vars(FallSilent)

FairSpec == Spec /\ Fairness

-----------------------------------------------------------------------------
(***************************************************************************)
(* Properties                                                              *)
(***************************************************************************)

\* A server is never left in Loading: whoever put it there still holds the
\* factory's lock and will give the captured state back.
LoadingOwned ==
    obj.state = "Loading" =>
        /\ factoryLock \in Handlers
        /\ At(factoryLock, "loading")

\* A server is never left in BatchPatching: a patch of it is about to be
\* queued, is queued or is being executed, and will give the state back, even
\* when push_back rejects the request as a duplicate.
PatchOwned ==
    obj.state = "BatchPatching" =>
        \/ \E h \in Handlers : At(h, "push")
        \/ queued
        \/ \E q \in Patchers : patcher[q].pc # "idle"

\* The inductive invariant behind the two: only the holder of the factory's lock
\* loads, and a descriptor is there when it is used.
LockOwned == \A h \in Handlers : At(h, "loading") <=> factoryLock = h
Described == \A h \in Handlers : At(h, "load") => thread[h].desc \in Setting
LoadingLocked == obj.state = "Loading" => factoryLock \in Handlers

LifecycleInv == TypeOK /\ LockOwned /\ Described /\ LoadingLocked /\ PatchOwned

\* Two processes of the server would compete for its ports.
OneProcess == Cardinality(Up) <= 1

\* Monitoring alone never runs two of them, however its checks interleave with
\* crashes and reports: only a request that overlaps a check can, or a report of
\* a process that has ended ("late"), which puts its pid back.
MonitorStartsOne == requests = 0 => OneProcess

\* Between requests the object is enabled exactly when the registry's
\* setting_state says so.
EnabledAgrees ==
    (\A h \in Handlers : At(h, "idle"))
        => (obj.enabled <=> registry.setting = "active")

\* A patch always ends.
PatchEnds == obj.state = "BatchPatching" ~> obj.state # "BatchPatching"

\* Self-healing: a server that stays enabled and patched is started again
\* whenever it has no process, whatever state the races left it in.
Recovery ==
    <>[](obj.enabled /\ obj.patched) => []<>(Up # {})

\* An Active server that has stopped reporting does not stay so.
HungIsStopped ==
    (obj.state = "Active" /\ obj.silent)
        ~> (obj.state # "Active" \/ ~obj.silent)

\* Stopping a server: once it stays disabled, it ends up without a process.
StopHolds == <>[](~obj.enabled) => <>[](Up = {})
=============================================================================
