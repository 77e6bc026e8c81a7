----------------------- MODULE ServerLifecycleProofs -----------------------
(***************************************************************************)
(* Proofs about ServerLifecycle, for any number of handlers, patch threads *)
(* and processes, any set of operations and faults, and any number of      *)
(* requests: the type invariant; that a transitional state always has an   *)
(* owner that will end it (LoadingOwned, PatchOwned); that monitoring      *)
(* alone never runs two processes (MonitorStartsOne); and that requests    *)
(* that come in turn keep the enabled flag in step with the registry       *)
(* (EnabledAgrees).  The last two each exclude one fault by name.          *)
(*                                                                         *)
(* First what each group of actions does to the types, then what it does   *)
(* to the rest of LifecycleInv, and the theorems that follow from it; then *)
(* the same for the inductive invariants MonitorInv and SerialInv.         *)
(***************************************************************************)
EXTENDS ServerLifecycle, FiniteSetTheorems, TLAPS

\* A thread that becomes a well-typed record.
LEMMA ThreadSet ==
    ASSUME TypeOK, NEW t \in Threads, NEW r \in ThreadType,
           thread' = [thread EXCEPT ![t] = r]
    PROVE  thread' \in [Threads -> ThreadType]
BY DEF TypeOK

\* A thread that moves and remembers the result of a checkPid.
LEMMA PidOkSet ==
    ASSUME TypeOK, NEW t \in Threads, NEW b \in BOOLEAN, NEW pc \in ThreadPc,
           thread' = [thread EXCEPT ![t].pidOk = b, ![t].pc = pc]
    PROVE  thread' \in [Threads -> ThreadType]
<1>1. [thread[t] EXCEPT !.pidOk = b, !.pc = pc] \in ThreadType
  BY DEF TypeOK, ThreadType
<1>2. thread' = [thread EXCEPT ![t] = [thread[t] EXCEPT !.pidOk = b, !.pc = pc]]
  OBVIOUS
<1> QED
  BY <1>1, <1>2, ThreadSet

\* A thread that moves and remembers the process it has forked, or forgets it.
LEMMA ChildSet ==
    ASSUME TypeOK, NEW t \in Threads, NEW c \in Pids \cup {NoPid},
           NEW pc \in ThreadPc,
           thread' = [thread EXCEPT ![t].child = c, ![t].pc = pc]
    PROVE  thread' \in [Threads -> ThreadType]
<1>1. [thread[t] EXCEPT !.child = c, !.pc = pc] \in ThreadType
  BY DEF TypeOK, ThreadType
<1>2. thread' = [thread EXCEPT ![t] = [thread[t] EXCEPT !.child = c, !.pc = pc]]
  OBVIOUS
<1> QED
  BY <1>1, <1>2, ThreadSet

\* addActivatingRecord only changes whether the server is limited.
LEMMA MayLimitTyped ==
    ASSUME TypeOK, MayLimit
    PROVE  obj' \in ObjectType /\ obj'.state = obj.state /\ obj'.enabled = obj.enabled
<1>1. PICK l \in BOOLEAN : obj' = [obj EXCEPT !.limited = @ \/ l]
  BY DEF MayLimit
<1>2. (obj.limited \/ l) \in BOOLEAN
  OBVIOUS
<1> QED
  BY <1>1, <1>2 DEF TypeOK, ObjectType

\* The KeepAliveThread is a thread of its own.
LEMMA HandlersAreThreads ==
    /\ Handlers \subseteq Threads /\ KeepAlive \in Threads
    /\ KeepAlive \notin Handlers /\ NoThread \notin Threads
BY LifecycleAssumption DEF Threads

\* A step that only moves a thread keeps the threads well typed.
LEMMA GotoTyped ==
    ASSUME TypeOK, NEW t \in Threads, NEW pc \in ThreadPc, Goto(t, pc)
    PROVE  thread' \in [Threads -> ThreadType]
BY DEF TypeOK, Goto, ThreadType

\* A step that ends an operation keeps the threads well typed.
LEMMA ReturnTyped ==
    ASSUME TypeOK, NEW t \in Threads, Return(t)
    PROVE  thread' \in [Threads -> ThreadType]
<1>1. thread[t] \in ThreadType
  BY DEF TypeOK
<1>2. [thread[t] EXCEPT !.pc = IF t = KeepAlive THEN "synCache" ELSE "idle",
                        !.op = "none", !.desc = "none", !.saved = "Inactive",
                        !.pidOk = FALSE, !.child = NoPid, !.useAdmin = TRUE]
        \in ThreadType
  BY <1>1 DEF ThreadType, ThreadPc, Restorable
<1> QED
  BY <1>2 DEF TypeOK, Return

\* A request of the registry.
LEMMA RequestTyped == ASSUME TypeOK, NEW h \in Handlers, Request(h) PROVE TypeOK'
<1> USE HandlersAreThreads
<1>1. PICK op \in Ops :
         /\ thread' = [thread EXCEPT ![h].op = op,
                         ![h].pc = IF op = "stop" THEN "canStop" ELSE "fetch"]
         /\ \/ op = "start" /\ registry' = [registry EXCEPT !.setting = "active"]
            \/ op = "stop" /\ registry' = [registry EXCEPT !.setting = "inactive"]
            \/ op \in {"stop", "patch"} /\ UNCHANGED registry
  BY DEF Request
<1>2. op \in AllOps
  BY LifecycleAssumption
<1>3. thread' \in [Threads -> ThreadType]
  BY <1>1, <1>2 DEF TypeOK, ThreadType, ThreadPc
<1>4. registry' \in [setting: Setting, cache: Setting]
  BY <1>1 DEF TypeOK, Setting
<1>5. requests' \in 0..MaxRequests
  BY LifecycleAssumption DEF Request, TypeOK
<1> QED
  BY <1>3, <1>4, <1>5 DEF Request, TypeOK

\* The operations of loadServer; a descriptor must have been read (Described).
LEMMA LoadTyped ==
    ASSUME TypeOK, Described, NEW h \in Handlers,
           FetchDescriptor(h) \/ CreateServer(h) \/ LoadDone(h) \/ LoadFailed(h)
    PROVE  TypeOK'
<1> USE HandlersAreThreads
<1>1. CASE FetchDescriptor(h)
  <2>1. thread' \in [Threads -> ThreadType]
    BY <1>1 DEF FetchDescriptor, TypeOK, ThreadType, ThreadPc, Goto
  <2>2. registry' \in [setting: Setting, cache: Setting]
    BY <1>1 DEF FetchDescriptor, TypeOK
  <2> QED
    BY <1>1, <2>1, <2>2 DEF FetchDescriptor, TypeOK
<1>2. CASE CreateServer(h)
  <2>1. thread[h].desc \in Setting
    BY <1>2 DEF CreateServer, Described
  <2>2. obj' \in ObjectType
    <3> DEFINE b == (thread[h].desc = "active")
               described == [obj EXCEPT !.settingState = thread[h].desc,
                                        !.enabled = b, !.silent = FALSE]
    <3>1. b \in BOOLEAN
      OBVIOUS
    <3>2. described \in ObjectType /\ [described EXCEPT !.state = "Loading"] \in ObjectType
      BY <2>1, <3>1 DEF TypeOK, ObjectType, InternalServerState
    <3>3. obj' = described \/ obj' = [described EXCEPT !.state = "Loading"]
      BY <1>2 DEF CreateServer
    <3> QED
      BY <3>2, <3>3
  <2>3. CASE IsTransitional(obj.state) /\ obj.state # "Activating"
    BY <1>2, <2>2, <2>3, GotoTyped DEF CreateServer, TypeOK, ThreadPc
  <2>4. CASE ~(IsTransitional(obj.state) /\ obj.state # "Activating")
    <3>1. obj.state \in Restorable
      BY <2>4 DEF TypeOK, ObjectType, InternalServerState, IsTransitional,
                  Restorable
    <3>2. thread' \in [Threads -> ThreadType]
      BY <1>2, <2>4, <3>1 DEF CreateServer, TypeOK, ThreadType, ThreadPc
    <3> QED
      BY <1>2, <2>2, <2>4, <3>2 DEF CreateServer, TypeOK
  <2> QED
    BY <2>3, <2>4
<1>3. CASE LoadDone(h)
  <2>1. thread' \in [Threads -> ThreadType]
    BY <1>3, GotoTyped, ReturnTyped DEF LoadDone, ThreadPc
  <2>2. obj' \in ObjectType
    BY <1>3 DEF LoadDone, TypeOK, ObjectType, ThreadType, Restorable,
                InternalServerState
  <2> QED
    BY <1>3, <2>1, <2>2 DEF LoadDone, TypeOK
<1>4. CASE LoadFailed(h)
  <2>1. obj' \in ObjectType
    BY <1>4 DEF LoadFailed, TypeOK, ObjectType
  <2> QED
    BY <1>4, <2>1, ReturnTyped DEF LoadFailed, TypeOK
<1> QED
  BY <1>1, <1>2, <1>3, <1>4

\* CommandStart.
LEMMA StartTyped == ASSUME TypeOK, NEW t \in Threads, StartStep(t) PROVE TypeOK'
<1>1. CASE StartConstruct(t)
  <2>1. obj' \in ObjectType
    BY <1>1 DEF StartConstruct, TypeOK, ObjectType
  <2> QED
    BY <1>1, <2>1, GotoTyped DEF StartConstruct, TypeOK, ThreadPc
<1>2. CASE StartCanExecute(t)
  <2>1. obj' \in ObjectType
    <3> DEFINE asked == [obj EXCEPT !.enabled = obj.enabled \/ t \in Handlers]
    <3>1. asked \in ObjectType
      BY DEF TypeOK, ObjectType
    <3>2. obj' \in {asked, [asked EXCEPT !.patched = FALSE],
                   [asked EXCEPT !.patched = TRUE, !.state = "Activating"]}
      BY <1>2 DEF StartCanExecute
    <3> HIDE DEF asked
    <3> QED
      BY <3>1, <3>2 DEF ObjectType, InternalServerState
  <2>2. thread' \in [Threads -> ThreadType]
    BY <1>2, GotoTyped DEF StartCanExecute, ThreadPc
  <2> QED
    BY <1>2, <2>1, <2>2 DEF StartCanExecute, TypeOK
<1>3. CASE ActivateOk(t)
  <2>1. PICK p \in FreePids :
           /\ proc' = [proc EXCEPT ![p] = "up"]
           /\ thread' = [thread EXCEPT ![t].child = p, ![t].pc = "setPid"]
    BY <1>3 DEF ActivateOk
  <2>2. p \in Pids
    BY DEF FreePids
  <2>3. proc' \in [Pids -> {"free", "up", "dead"}]
    BY <2>1, <2>2 DEF TypeOK
  <2>4. thread' \in [Threads -> ThreadType]
    BY <2>1, <2>2, ChildSet DEF ThreadPc
  <2>5. obj' \in ObjectType
    BY <1>3, MayLimitTyped DEF ActivateOk
  <2> QED
    BY <1>3, <2>3, <2>4, <2>5 DEF ActivateOk, TypeOK
<1>4. CASE ActivateThrows(t)
  <2>1. obj' \in ObjectType
    BY <1>4, MayLimitTyped DEF ActivateThrows
  <2>2. thread' \in [Threads -> ThreadType]
    BY <1>4, PidOkSet DEF ActivateThrows, ThreadPc
  <2> QED
    BY <1>4, <2>1, <2>2 DEF ActivateThrows, TypeOK
<1>5. CASE StartSetPid(t)
  <2>1. obj' \in ObjectType
    BY <1>5 DEF StartSetPid, TypeOK, ObjectType, ThreadType
  <2>2. thread' \in [Threads -> ThreadType]
    BY <1>5, ChildSet DEF StartSetPid, ThreadPc
  <2> QED
    BY <1>5, <2>1, <2>2 DEF StartSetPid, TypeOK
<1>6. CASE StartVerify(t)
  <2>1. CheckPid \in BOOLEAN
    BY DEF CheckPid
  <2>2. thread' \in [Threads -> ThreadType]
    BY <1>6, <2>1, PidOkSet DEF StartVerify, ThreadPc
  <2> QED
    BY <1>6, <2>2 DEF StartVerify, TypeOK
<1>7. CASE StartFinish(t)
  <2>1. obj' \in ObjectType
    <3>1. CASE thread[t].pidOk
      <4>1. obj' = [obj EXCEPT !.silent = FALSE, !.started = TRUE, !.startAge = 0]
        BY <1>7, <3>1 DEF StartFinish
      <4>2. 0 \in 0..2
        OBVIOUS
      <4> QED
        BY <4>1, <4>2 DEF TypeOK, ObjectType
    <3>2. CASE ~thread[t].pidOk
      BY <1>7, <3>2 DEF StartFinish, TypeOK, ObjectType, InternalServerState
    <3> QED
      BY <3>1, <3>2
  <2>2. thread' \in [Threads -> ThreadType]
    BY <1>7, PidOkSet DEF StartFinish, ThreadPc
  <2> QED
    BY <1>7, <2>1, <2>2 DEF StartFinish, TypeOK
<1>8. CASE StartDestruct(t)
  <2>1. obj' \in ObjectType
    BY <1>8 DEF StartDestruct, TypeOK, ObjectType
  <2> QED
    BY <1>8, <2>1, ReturnTyped DEF StartDestruct, TypeOK
<1> QED
  BY <1>1, <1>2, <1>3, <1>4, <1>5, <1>6, <1>7, <1>8 DEF StartStep

\* Whoever ran CommandStop has somewhere to go on.
LEMMA AfterStopTyped == \A t \in Threads : AfterStop(t) \in ThreadPc
BY DEF AfterStop, ThreadPc

\* CommandStop.
LEMMA StopTyped == ASSUME TypeOK, NEW t \in Threads, StopStep(t) PROVE TypeOK'
<1>1. CASE StopCanExecute(t)
  <2>1. obj' \in ObjectType
    BY <1>1 DEF StopCanExecute, TypeOK, ObjectType, InternalServerState
  <2>2. thread' \in [Threads -> ThreadType]
    BY <1>1, GotoTyped, AfterStopTyped DEF StopCanExecute, ThreadPc
  <2> QED
    BY <1>1, <2>1, <2>2 DEF StopCanExecute, TypeOK
<1>2. CASE StopWait(t)
  <2>1. thread' \in [Threads -> ThreadType]
    BY <1>2, GotoTyped DEF StopWait, ThreadPc
  <2> QED
    BY <1>2, <2>1 DEF StopWait, TypeOK
<1>3. CASE StopKill(t)
  <2>1. proc' \in [Pids -> {"free", "up", "dead"}]
    BY <1>3 DEF StopKill, TypeOK, Ended
  <2>2. thread' \in [Threads -> ThreadType]
    BY <1>3, GotoTyped DEF StopKill, ThreadPc
  <2> QED
    BY <1>3, <2>1, <2>2 DEF StopKill, TypeOK
<1>4. CASE StopWaitKilled(t)
  <2>1. thread' \in [Threads -> ThreadType]
    BY <1>4, GotoTyped, AfterStopTyped DEF StopWaitKilled, ThreadPc
  <2> QED
    BY <1>4, <2>1 DEF StopWaitKilled, TypeOK
<1>5. CASE Stopped(t)
  <2>1. obj' \in ObjectType
    BY <1>5 DEF Stopped, TypeOK, ObjectType, InternalServerState
  <2>2. thread' \in [Threads -> ThreadType]
    BY <1>5, GotoTyped, AfterStopTyped DEF Stopped
  <2> QED
    BY <1>5, <2>1, <2>2 DEF Stopped, TypeOK
<1> QED
  BY <1>1, <1>2, <1>3, <1>4, <1>5 DEF StopStep

\* patchPro and CommandPatch.
LEMMA PatchTyped ==
    ASSUME TypeOK,
           \/ \E h \in Handlers : PatchPreset(h) \/ PatchPush(h)
           \/ \E q \in Patchers : PatchStep(q) \/ PatchProgress(q)
    PROVE  TypeOK'
<1> USE HandlersAreThreads
<1>1. ASSUME NEW h \in Handlers, PatchPreset(h)
      PROVE  TypeOK'
  <2>1. obj' \in ObjectType
    <3>1. CASE UNCHANGED obj
      BY <3>1 DEF TypeOK
    <3>2. CASE /\ IsTransitional(obj.state) => obj.state = "Activating"
               /\ obj' = [obj EXCEPT !.lastState = obj.state,
                             !.state = "BatchPatching", !.patchStale = FALSE]
      <4>1. obj.state \in Restorable
        BY <3>2 DEF TypeOK, ObjectType, InternalServerState, Restorable,
                    IsTransitional
      <4> QED
        BY <3>2, <4>1 DEF TypeOK, ObjectType, InternalServerState
    <3> QED
      BY <1>1, <3>1, <3>2 DEF PatchPreset
  <2>2. thread' \in [Threads -> ThreadType]
    BY <1>1, GotoTyped, ReturnTyped DEF PatchPreset, ThreadPc
  <2> QED
    BY <1>1, <2>1, <2>2 DEF PatchPreset, TypeOK
<1>2. ASSUME NEW h \in Handlers, PatchPush(h)
      PROVE  TypeOK'
  BY <1>2, ReturnTyped DEF PatchPush, TypeOK
<1>3. ASSUME NEW q \in Patchers, PatchPop(q)
      PROVE  TypeOK'
  BY <1>3 DEF PatchPop, TypeOK, PatcherType
<1>4. ASSUME NEW q \in Patchers, PatchCanExecute(q)
      PROVE  TypeOK'
  <2>1. obj' \in ObjectType
    BY <1>4 DEF PatchCanExecute, TypeOK, ObjectType, InternalServerState
  <2>2. patcher' \in [Patchers -> PatcherType]
    BY <1>4 DEF PatchCanExecute, TypeOK, ObjectType, PatcherType
  <2> QED
    BY <1>4, <2>1, <2>2 DEF PatchCanExecute, TypeOK
<1>5. ASSUME NEW q \in Patchers, PatchExecute(q)
      PROVE  TypeOK'
  <2>1. obj' \in ObjectType
    BY <1>5 DEF PatchExecute, TypeOK, ObjectType
  <2>2. patcher' \in [Patchers -> PatcherType]
    BY <1>5 DEF PatchExecute, TypeOK, PatcherType
  <2>3. exeExists' \in BOOLEAN
    BY <1>5 DEF PatchExecute
  <2> QED
    BY <1>5, <2>1, <2>2, <2>3 DEF PatchExecute, TypeOK
<1>6. ASSUME NEW q \in Patchers, PatchRestore(q)
      PROVE  TypeOK'
  <2>1. obj' \in ObjectType
    BY <1>6 DEF PatchRestore, TypeOK, ObjectType, PatcherType, Restorable,
                InternalServerState
  <2>2. patcher' \in [Patchers -> PatcherType]
    BY <1>6 DEF PatchRestore, TypeOK, PatcherType, Restorable
  <2> QED
    BY <1>6, <2>1, <2>2 DEF PatchRestore, TypeOK
<1>7. ASSUME NEW q \in Patchers, PatchProgress(q)
      PROVE  TypeOK'
  BY <1>7 DEF PatchProgress, TypeOK, ObjectType
<1> QED
  BY <1>1, <1>2, <1>3, <1>4, <1>5, <1>6, <1>7 DEF PatchStep

\* checkServer.
LEMMA CheckTyped == ASSUME TypeOK, CheckStep PROVE TypeOK'
<1> USE HandlersAreThreads
<1>1. CASE CheckServer
  <2>1. CheckPid \in BOOLEAN
    BY DEF CheckPid
  <2>2. thread' \in [Threads -> ThreadType]
    BY <1>1, <2>1, GotoTyped, PidOkSet DEF CheckServer, ThreadPc
  <2> QED
    BY <1>1, <2>2 DEF CheckServer, TypeOK
<1>2. CASE Reconcile
  <2>1. obj' \in ObjectType
    BY <1>2 DEF Reconcile, TypeOK, ObjectType, InternalServerState
  <2>2. PICK asked \in BOOLEAN, pc \in {"canStop", "zombie"} :
           thread' = [thread EXCEPT ![KeepAlive].pidOk = FALSE,
                        ![KeepAlive].useAdmin = asked, ![KeepAlive].pc = pc]
    <3> DEFINE hung == /\ thread[KeepAlive].pidOk
                       /\ obj.state = "Activating" /\ obj.started /\ isStartTimeOut
    <3>1. (~hung) \in BOOLEAN /\ (IF hung THEN "canStop" ELSE "zombie") \in {"canStop", "zombie"}
      OBVIOUS
    <3> QED
      BY <1>2, <3>1 DEF Reconcile
  <2> DEFINE r == [thread[KeepAlive] EXCEPT !.pidOk = FALSE, !.useAdmin = asked,
                      !.pc = pc]
  <2>3. r \in ThreadType
    <3>1. pc \in ThreadPc /\ thread[KeepAlive] \in ThreadType
      BY DEF TypeOK, ThreadPc
    <3> QED
      BY <3>1 DEF ThreadType
  <2>4. thread' = [thread EXCEPT ![KeepAlive] = r]
    BY <2>2
  <2> HIDE DEF r
  <2>5. thread' \in [Threads -> ThreadType]
    BY <2>3, <2>4, ThreadSet
  <2> QED
    BY <1>2, <2>1, <2>5 DEF Reconcile, TypeOK
<1>3. CASE CheckZombie
  <2> DEFINE r(pc) == [thread[KeepAlive] EXCEPT !.useAdmin = TRUE, !.pc = pc]
  <2>1. r("canStop") \in ThreadType /\ r("autoStart") \in ThreadType
    <3>1. thread[KeepAlive] \in ThreadType
      BY DEF TypeOK
    <3> QED
      BY <3>1 DEF ThreadType, ThreadPc
  <2>2. \/ thread' = [thread EXCEPT ![KeepAlive] = r("canStop")]
        \/ thread' = [thread EXCEPT ![KeepAlive] = r("autoStart")]
    BY <1>3 DEF CheckZombie
  <2> HIDE DEF r
  <2>3. thread' \in [Threads -> ThreadType]
    BY <2>1, <2>2, ThreadSet
  <2> QED
    BY <1>3, <2>3 DEF CheckZombie, TypeOK
<1>4. CASE CheckAutoStart
  <2>1. thread' \in [Threads -> ThreadType]
    BY <1>4, GotoTyped DEF CheckAutoStart, ThreadPc
  <2> QED
    BY <1>4, <2>1 DEF CheckAutoStart, TypeOK
<1>5. CASE SynCache
  <2>1. thread' \in [Threads -> ThreadType]
    BY <1>5 DEF SynCache, TypeOK, ThreadType, ThreadPc
  <2>2. registry' \in [setting: Setting, cache: Setting]
    BY <1>5 DEF SynCache, TypeOK, Setting
  <2> QED
    BY <1>5, <2>1, <2>2 DEF SynCache, TypeOK
<1> QED
  BY <1>1, <1>2, <1>3, <1>4, <1>5 DEF CheckStep

\* A heartbeat of a process, or its end.
LEMMA ProcessTyped == ASSUME TypeOK, NEW p \in Pids, ProcessStep(p) PROVE TypeOK'
<1>1. proc' \in [Pids -> {"free", "up", "dead"}]
  BY DEF ProcessStep, keepAlive, keepActiving, Exit, Beat, Ended, TypeOK
<1>2. CASE keepAlive(p)
  <2>1. obj' \in ObjectType
    BY <1>2 DEF keepAlive, TypeOK, ObjectType, InternalServerState
  <2> QED
    BY <1>1, <1>2, <2>1 DEF keepAlive, Beat, TypeOK
<1>3. CASE keepActiving(p)
  <2>1. obj' \in ObjectType
    BY <1>3 DEF keepActiving, TypeOK, ObjectType, InternalServerState
  <2> QED
    BY <1>1, <1>3, <2>1 DEF keepActiving, Beat, TypeOK
<1>4. CASE Exit(p)
  BY <1>1, <1>4 DEF Exit, TypeOK
<1> QED
  BY <1>2, <1>3, <1>4 DEF ProcessStep

\* The passing of time.
LEMMA ClockTyped ==
    ASSUME TypeOK, Age \/ FallSilent \/ Unlimit \/ PatchStalls
    PROVE  TypeOK'
<1>1. obj' \in ObjectType
  <2>1. CASE Age
    <3>1. obj.startAge \in 0..2 /\ obj.startAge + 1 \in 0..2
      BY <2>1 DEF Age, TypeOK, ObjectType
    <3>2. obj' = [obj EXCEPT !.startAge = obj.startAge + 1]
      BY <2>1 DEF Age
    <3> QED
      BY <3>1, <3>2 DEF TypeOK, ObjectType
  <2>2. CASE FallSilent
    BY <2>2 DEF FallSilent, TypeOK, ObjectType
  <2>3. CASE Unlimit
    BY <2>3 DEF Unlimit, TypeOK, ObjectType
  <2>4. CASE PatchStalls
    BY <2>4 DEF PatchStalls, TypeOK, ObjectType
  <2> QED
    BY <2>1, <2>2, <2>3, <2>4
<1> QED
  BY <1>1 DEF Age, FallSilent, Unlimit, PatchStalls, TypeOK

\* Every step of a run in which descriptors are there when they are used.
LEMMA StepTyped == ASSUME TypeOK, Described, [Next]_vars PROVE TypeOK'
<1>1. CASE UNCHANGED vars
  BY <1>1 DEF vars, TypeOK
<1>2. ASSUME NEW h \in Handlers, Request(h) \/ HandlerStep(h)
      PROVE  TypeOK'
  BY <1>2, RequestTyped, LoadTyped, PatchTyped DEF HandlerStep
<1>3. ASSUME NEW t \in Threads, StartStep(t) \/ StopStep(t)
      PROVE  TypeOK'
  BY <1>3, StartTyped, StopTyped
<1>4. CASE CheckStep
  BY <1>4, CheckTyped
<1>5. ASSUME NEW q \in Patchers, PatchStep(q) \/ PatchProgress(q)
      PROVE  TypeOK'
  BY <1>5, PatchTyped
<1>6. ASSUME NEW p \in Pids, ProcessStep(p)
      PROVE  TypeOK'
  BY <1>6, ProcessTyped
<1>7. CASE Age \/ FallSilent \/ Unlimit \/ PatchStalls
  BY <1>7, ClockTyped
<1> QED
  BY <1>1, <1>2, <1>3, <1>4, <1>5, <1>6, <1>7 DEF Next, ClockStep

-----------------------------------------------------------------------------
\* A step of thread t that neither begins nor ends a load, nor queues a patch,
\* and after which the state is the same or needs no owner.
LEMMA Elsewhere ==
    ASSUME LifecycleInv, TypeOK', NEW t \in Threads,
           \A u \in Threads : u # t => thread'[u] = thread[u],
           \/ thread'[t] = thread[t]
           \/ /\ thread[t].pc \notin {"loading", "push"}
              /\ thread'[t].pc \notin {"load", "loading"},
           factoryLock' = factoryLock, queued' = queued, patcher' = patcher,
           obj'.state = obj.state \/ obj'.state \notin {"Loading", "BatchPatching"}
    PROVE  LifecycleInv'
<1> USE HandlersAreThreads
<1>1. LockOwned'
  BY DEF LifecycleInv, LockOwned, At
<1>2. Described'
  BY DEF LifecycleInv, Described, At
<1>3. LoadingLocked'
  BY DEF LifecycleInv, LoadingLocked
<1>4. PatchOwned'
  <2>1. \A h \in Handlers : At(h, "push") => At(h, "push")'
    BY DEF At
  <2> QED
    BY <2>1 DEF LifecycleInv, PatchOwned
<1> QED
  BY <1>1, <1>2, <1>3, <1>4 DEF LifecycleInv

\* What a thread's move leaves alone.
LEMMA GotoMoves ==
    ASSUME TypeOK, NEW t \in Threads, NEW pc, Goto(t, pc)
    PROVE  thread'[t].pc = pc /\ \A u \in Threads : u # t => thread'[u] = thread[u]
BY DEF TypeOK, Goto, ThreadType

\* What the end of an operation leaves alone.
LEMMA ReturnMoves ==
    ASSUME TypeOK, NEW t \in Threads, Return(t)
    PROVE  /\ thread'[t].pc \in {"idle", "synCache"}
           /\ \A u \in Threads : u # t => thread'[u] = thread[u]
<1>1. thread[t] \in ThreadType
  BY DEF TypeOK
<1> QED
  BY <1>1 DEF TypeOK, Return, ThreadType

\* A request finds its handler idle: it owns nothing.
LEMMA RequestKeeps ==
    ASSUME LifecycleInv, TypeOK', NEW h \in Handlers, Request(h)
    PROVE  LifecycleInv'
<1> USE HandlersAreThreads
<1>1. /\ thread[h].pc = "idle"
      /\ thread'[h].pc \in {"canStop", "fetch"}
      /\ \A u \in Threads : u # h => thread'[u] = thread[u]
  BY DEF Request, LifecycleInv, TypeOK, ThreadType, At
<1>2. UNCHANGED <<obj, factoryLock, queued, patcher>>
  BY DEF Request
<1> QED
  BY <1>1, <1>2, Elsewhere

\* CommandStart never leaves a server in Loading or BatchPatching.
LEMMA StartKeeps ==
    ASSUME LifecycleInv, TypeOK', NEW t \in Threads, StartStep(t)
    PROVE  LifecycleInv'
<1>1. UNCHANGED <<factoryLock, queued, patcher>>
  BY DEF StartStep, StartConstruct, StartCanExecute, ActivateOk, ActivateThrows,
         StartSetPid, StartVerify, StartFinish, StartDestruct
<1>2. thread[t].pc \notin {"loading", "push"}
  BY DEF StartStep, StartConstruct, StartCanExecute, ActivateOk, ActivateThrows,
         StartSetPid, StartVerify, StartFinish, StartDestruct, At
<1>3. /\ thread'[t].pc \notin {"load", "loading"}
      /\ \A u \in Threads : u # t => thread'[u] = thread[u]
  <2> USE DEF LifecycleInv
  <2>1. CASE StartConstruct(t)
    BY <2>1, GotoMoves DEF StartConstruct
  <2>2. CASE StartCanExecute(t)
    BY <2>2, GotoMoves DEF StartCanExecute
  <2>3. CASE ActivateOk(t)
    BY <2>3 DEF ActivateOk, TypeOK, ThreadType
  <2>4. CASE ActivateThrows(t)
    BY <2>4 DEF ActivateThrows, TypeOK, ThreadType
  <2>5. CASE StartSetPid(t)
    BY <2>5 DEF StartSetPid, TypeOK, ThreadType
  <2>6. CASE StartVerify(t)
    BY <2>6 DEF StartVerify, TypeOK, ThreadType
  <2>7. CASE StartFinish(t)
    BY <2>7 DEF StartFinish, TypeOK, ThreadType
  <2>8. CASE StartDestruct(t)
    BY <2>8, ReturnMoves DEF StartDestruct
  <2> QED
    BY <2>1, <2>2, <2>3, <2>4, <2>5, <2>6, <2>7, <2>8 DEF StartStep
<1>4. obj'.state = obj.state \/ obj'.state \in {"Activating", "Inactive"}
  <2> USE DEF LifecycleInv, TypeOK, ObjectType
  <2>1. CASE StartConstruct(t) \/ StartDestruct(t) \/ StartSetPid(t)
    BY <2>1 DEF StartConstruct, StartDestruct, StartSetPid
  <2>2. CASE StartCanExecute(t)
    <3> DEFINE asked == [obj EXCEPT !.enabled = obj.enabled \/ t \in Handlers]
    <3>1. asked \in ObjectType /\ asked.state = obj.state
      BY DEF TypeOK, ObjectType
    <3>2. obj' \in {asked, [asked EXCEPT !.patched = FALSE],
                   [asked EXCEPT !.patched = TRUE, !.state = "Activating"]}
      BY <2>2 DEF StartCanExecute
    <3> HIDE DEF asked
    <3> QED
      BY <3>1, <3>2 DEF ObjectType
  <2>3. CASE ActivateOk(t) \/ ActivateThrows(t)
    BY <2>3, MayLimitTyped DEF ActivateOk, ActivateThrows
  <2>4. CASE StartVerify(t)
    BY <2>4 DEF StartVerify
  <2>5. CASE StartFinish(t)
    <3>1. \/ obj' = [obj EXCEPT !.silent = FALSE, !.started = TRUE, !.startAge = 0]
          \/ obj' = [obj EXCEPT !.pid = NoPid, !.state = "Inactive", !.started = FALSE]
      BY <2>5 DEF StartFinish
    <3>2. obj \in ObjectType
      OBVIOUS
    <3> HIDE DEF LifecycleInv, TypeOK
    <3> QED
      BY <3>1, <3>2
  <2> QED
    BY <2>1, <2>2, <2>3, <2>4, <2>5 DEF StartStep
<1> QED
  BY <1>1, <1>2, <1>3, <1>4, Elsewhere

\* Nor does CommandStop.
LEMMA StopKeeps ==
    ASSUME LifecycleInv, TypeOK', NEW t \in Threads, StopStep(t)
    PROVE  LifecycleInv'
<1>1. UNCHANGED <<factoryLock, queued, patcher>>
  BY DEF StopStep, StopCanExecute, StopWait, StopKill, StopWaitKilled, Stopped
<1>2. thread[t].pc \notin {"loading", "push"}
  BY DEF StopStep, StopCanExecute, StopWait, StopKill, StopWaitKilled, Stopped, At
<1>3. AfterStop(t) \in {"fetch", "autoStart", "zombie"}
  BY DEF AfterStop
<1>4. PICK pc \in {"fetch", "autoStart", "zombie", "wait", "kill", "waitKilled",
                  "stopped"} : Goto(t, pc)
  BY <1>3 DEF StopStep, StopCanExecute, StopWait, StopKill, StopWaitKilled, Stopped
<1>5. /\ thread'[t].pc \notin {"load", "loading"}
      /\ \A u \in Threads : u # t => thread'[u] = thread[u]
  BY <1>4, GotoMoves DEF LifecycleInv
<1>6. obj'.state = obj.state \/ obj'.state \in {"Deactivating", "Inactive"}
  <2> USE DEF LifecycleInv, TypeOK, ObjectType
  <2>1. CASE StopCanExecute(t)
    BY <2>1 DEF StopCanExecute
  <2>2. CASE StopWait(t) \/ StopKill(t) \/ StopWaitKilled(t)
    BY <2>2 DEF StopWait, StopKill, StopWaitKilled
  <2>3. CASE Stopped(t)
    BY <2>3 DEF Stopped
  <2> QED
    BY <2>1, <2>2, <2>3 DEF StopStep
<1> QED
  BY <1>1, <1>2, <1>5, <1>6, Elsewhere

\* Nor does checkServer.
LEMMA CheckKeeps ==
    ASSUME LifecycleInv, TypeOK', CheckStep
    PROVE  LifecycleInv'
<1> USE HandlersAreThreads
<1>1. UNCHANGED <<factoryLock, queued, patcher>>
  BY DEF CheckStep, CheckServer, Reconcile, CheckZombie, CheckAutoStart, SynCache
<1>2. thread[KeepAlive].pc \notin {"loading", "push"}
  BY DEF CheckStep, CheckServer, Reconcile, CheckZombie, CheckAutoStart, SynCache, At
<1>3. /\ thread'[KeepAlive].pc \notin {"load", "loading"}
      /\ \A u \in Threads : u # KeepAlive => thread'[u] = thread[u]
  <2> USE DEF LifecycleInv, TypeOK, ThreadType
  <2>1. CASE CheckServer
    BY <2>1 DEF CheckServer, Goto
  <2>2. CASE Reconcile
    BY <2>2 DEF Reconcile
  <2>3. CASE CheckZombie
    BY <2>3 DEF CheckZombie
  <2>4. CASE CheckAutoStart
    BY <2>4 DEF CheckAutoStart, Goto
  <2>5. CASE SynCache
    BY <2>5 DEF SynCache
  <2> QED
    BY <2>1, <2>2, <2>3, <2>4, <2>5 DEF CheckStep
<1>4. obj'.state = obj.state \/ obj'.state = "Inactive"
  BY DEF CheckStep, CheckServer, Reconcile, CheckZombie, CheckAutoStart, SynCache,
         LifecycleInv, TypeOK, ObjectType
<1> QED
  BY <1>1, <1>2, <1>3, <1>4, Elsewhere

\* The steps that move no thread, no lock and no patch.
LEMMA QuietKeeps ==
    ASSUME LifecycleInv, TypeOK',
           \/ \E p \in Pids : ProcessStep(p)
           \/ Age \/ FallSilent \/ Unlimit \/ PatchStalls
           \/ \E q \in Patchers : PatchProgress(q)
           \/ UNCHANGED vars
    PROVE  LifecycleInv'
<1> USE HandlersAreThreads
<1>1. UNCHANGED <<thread, factoryLock, queued, patcher>>
  BY DEF ProcessStep, keepAlive, keepActiving, Beat, Exit, Age, FallSilent, Unlimit,
         PatchStalls, PatchProgress, vars
<1>2. obj'.state = obj.state \/ obj'.state \in {"Active", "Activating"}
  <2> USE DEF LifecycleInv, TypeOK, ObjectType
  <2>1. ASSUME NEW p \in Pids, ProcessStep(p)
        PROVE  obj'.state = obj.state \/ obj'.state \in {"Active", "Activating"}
    BY <2>1 DEF ProcessStep, keepAlive, keepActiving, Exit
  <2>2. CASE Age \/ FallSilent \/ Unlimit \/ PatchStalls \/ UNCHANGED vars
    BY <2>2 DEF Age, FallSilent, Unlimit, PatchStalls, vars
  <2>3. ASSUME NEW q \in Patchers, PatchProgress(q)
        PROVE  obj'.state = obj.state
    BY <2>3 DEF PatchProgress
  <2> QED
    BY <2>1, <2>2, <2>3
<1> QED
  BY <1>1, <1>2, Elsewhere

\* loadServer takes and releases the factory's lock.
LEMMA LoadKeeps ==
    ASSUME LifecycleInv, TypeOK', NEW h \in Handlers,
           FetchDescriptor(h) \/ CreateServer(h) \/ LoadDone(h) \/ LoadFailed(h)
    PROVE  LifecycleInv'
<1> USE HandlersAreThreads
<1>1. CASE FetchDescriptor(h)
  <2>1. /\ thread[h].pc = "fetch"
        /\ UNCHANGED <<obj, factoryLock, queued, patcher>>
    BY <1>1 DEF FetchDescriptor, At
  <2>2. \A u \in Threads : u # h => thread'[u] = thread[u]
    BY <1>1 DEF FetchDescriptor, Goto, LifecycleInv, TypeOK
  <2>3. \/ thread'[h].pc = "load" /\ thread'[h].desc \in Setting
        \/ thread'[h].pc = "unloaded"
    BY <1>1 DEF FetchDescriptor, Goto, LifecycleInv, TypeOK, ThreadType
  <2>4. LockOwned' /\ Described' /\ LoadingLocked'
    BY <2>1, <2>2, <2>3 DEF LifecycleInv, LockOwned, Described, LoadingLocked, At
  <2>5. PatchOwned'
    BY <2>1, <2>2 DEF LifecycleInv, PatchOwned, At
  <2> QED
    BY <2>4, <2>5 DEF LifecycleInv
<1>2. CASE CreateServer(h)
  <2>1. /\ thread[h].pc = "load" /\ factoryLock = NoThread
        /\ UNCHANGED <<queued, patcher>>
    BY <1>2 DEF CreateServer, At
  <2>2. \A u \in Threads : u # h => thread'[u] = thread[u]
    BY <1>2 DEF CreateServer, Goto, LifecycleInv, TypeOK
  <2>3. \/ /\ thread'[h].pc = "unloaded" /\ UNCHANGED factoryLock
           /\ obj'.state = obj.state
        \/ /\ thread'[h].pc = "loading" /\ factoryLock' = h
           /\ obj'.state = "Loading"
    <3> DEFINE described == [obj EXCEPT !.settingState = thread[h].desc,
                                        !.enabled = (thread[h].desc = "active"),
                                        !.silent = FALSE]
    <3>1. /\ described.state = obj.state
          /\ [described EXCEPT !.state = "Loading"].state = "Loading"
      BY DEF LifecycleInv, TypeOK, ObjectType
    <3>2. CASE IsTransitional(obj.state) /\ obj.state # "Activating"
      <4>1. obj' = described /\ Goto(h, "unloaded") /\ UNCHANGED factoryLock
        BY <1>2, <3>2 DEF CreateServer
      <4> QED
        BY <4>1, <3>1, GotoMoves DEF LifecycleInv
    <3>3. CASE ~(IsTransitional(obj.state) /\ obj.state # "Activating")
      <4>1. /\ obj' = [described EXCEPT !.state = "Loading"] /\ factoryLock' = h
            /\ thread' = [thread EXCEPT ![h].saved = obj.state, ![h].pc = "loading"]
        BY <1>2, <3>3 DEF CreateServer
      <4>2. thread'[h].pc = "loading"
        BY <4>1 DEF LifecycleInv, TypeOK, ThreadType
      <4> QED
        BY <4>1, <4>2, <3>1
    <3> QED
      BY <3>2, <3>3
  <2>4. LockOwned' /\ Described' /\ LoadingLocked'
    BY <2>1, <2>2, <2>3 DEF LifecycleInv, LockOwned, Described, LoadingLocked, At
  <2>5. PatchOwned'
    BY <2>1, <2>2, <2>3 DEF LifecycleInv, PatchOwned, At
  <2> QED
    BY <2>4, <2>5 DEF LifecycleInv
<1>3. CASE LoadDone(h)
  <2>1. /\ thread[h].pc = "loading" /\ factoryLock' = NoThread
        /\ UNCHANGED <<queued, patcher>>
    BY <1>3 DEF LoadDone, At
  <2>2. factoryLock = h
    BY <2>1 DEF LifecycleInv, LockOwned, At
  <2>3. obj'.state \in Restorable
    BY <1>3 DEF LoadDone, LifecycleInv, TypeOK, ObjectType, ThreadType
  <2>4. /\ thread'[h].pc \notin {"load", "loading"}
        /\ \A u \in Threads : u # h => thread'[u] = thread[u]
    BY <1>3, GotoMoves, ReturnMoves DEF LoadDone, LifecycleInv
  <2>5. LockOwned' /\ Described' /\ LoadingLocked'
    BY <2>1, <2>2, <2>3, <2>4 DEF LifecycleInv, LockOwned, Described,
                                  LoadingLocked, Restorable, At
  <2>6. PatchOwned'
    BY <2>3 DEF PatchOwned, Restorable
  <2> QED
    BY <2>5, <2>6 DEF LifecycleInv
<1>4. CASE LoadFailed(h)
  <2>1. /\ thread[h].pc = "unloaded"
        /\ UNCHANGED <<factoryLock, queued, patcher>>
    BY <1>4 DEF LoadFailed, At
  <2>2. /\ thread'[h].pc \in {"idle", "synCache"}
        /\ \A u \in Threads : u # h => thread'[u] = thread[u]
    BY <1>4, ReturnMoves DEF LoadFailed, LifecycleInv
  <2>3. obj'.state = obj.state
    BY <1>4 DEF LoadFailed, LifecycleInv, TypeOK, ObjectType
  <2> QED
    BY <2>1, <2>2, <2>3, Elsewhere
<1> QED
  BY <1>1, <1>2, <1>3, <1>4

\* A patch is passed on from the handler to the queue to a patch thread, and the
\* last of them gives the state back.
LEMMA PatchKeeps ==
    ASSUME LifecycleInv, TypeOK',
           \/ \E h \in Handlers : PatchPreset(h) \/ PatchPush(h)
           \/ \E q \in Patchers : PatchStep(q)
    PROVE  LifecycleInv'
<1> USE HandlersAreThreads
<1>1. ASSUME NEW h \in Handlers, PatchPreset(h)
      PROVE  LifecycleInv'
  <2>1. /\ thread[h].pc = "preset"
        /\ UNCHANGED <<factoryLock, queued, patcher>>
    BY <1>1 DEF PatchPreset, At
  <2>2. /\ thread'[h].pc \in {"push", "idle", "synCache"}
        /\ \A u \in Threads : u # h => thread'[u] = thread[u]
    BY <1>1, GotoMoves, ReturnMoves DEF PatchPreset, LifecycleInv
  <2>3. \/ obj'.state = obj.state
        \/ obj'.state = "BatchPatching" /\ thread'[h].pc = "push"
    <3>1. obj \in ObjectType /\ TypeOK
      BY DEF LifecycleInv, TypeOK
    <3>2. Goto(h, "push") => thread'[h].pc = "push"
      BY <3>1, GotoMoves
    <3>3. \/ obj' = obj
          \/ /\ Goto(h, "push")
             /\ obj' = [obj EXCEPT !.lastState = obj.state,
                                   !.state = "BatchPatching", !.patchStale = FALSE]
      BY <1>1 DEF PatchPreset
    <3> QED
      BY <3>1, <3>2, <3>3 DEF ObjectType
  <2>4. LockOwned' /\ Described' /\ LoadingLocked'
    BY <2>1, <2>2, <2>3 DEF LifecycleInv, LockOwned, Described, LoadingLocked, At
  <2>5. PatchOwned'
    BY <2>1, <2>2, <2>3 DEF LifecycleInv, PatchOwned, At
  <2> QED
    BY <2>4, <2>5 DEF LifecycleInv
<1>2. ASSUME NEW h \in Handlers, PatchPush(h)
      PROVE  LifecycleInv'
  <2>1. /\ thread[h].pc = "push" /\ queued'
        /\ UNCHANGED <<obj, factoryLock>>
    BY <1>2 DEF PatchPush, At
  <2>2. /\ thread'[h].pc \in {"idle", "synCache"}
        /\ \A u \in Threads : u # h => thread'[u] = thread[u]
    BY <1>2, ReturnMoves DEF PatchPush, LifecycleInv
  <2>3. LockOwned' /\ Described' /\ LoadingLocked'
    BY <2>1, <2>2 DEF LifecycleInv, LockOwned, Described, LoadingLocked, At
  <2> QED
    BY <2>1, <2>3 DEF LifecycleInv, PatchOwned
<1>3. ASSUME NEW q \in Patchers, PatchStep(q)
      PROVE  LifecycleInv'
  <2>1. UNCHANGED <<thread, factoryLock>>
    BY <1>3 DEF PatchStep, PatchPop, PatchCanExecute, PatchExecute, PatchRestore
  <2>2. /\ obj'.state \in {obj.state, "BatchPatching"} \cup Restorable
        /\ \/ obj'.state \in Restorable
           \/ patcher'[q].pc # "idle"
    <3> USE DEF LifecycleInv, TypeOK, ObjectType, PatcherType
    <3>1. CASE PatchPop(q)
      BY <3>1 DEF PatchPop
    <3>2. CASE PatchCanExecute(q)
      BY <3>2 DEF PatchCanExecute
    <3>3. CASE PatchExecute(q)
      BY <3>3 DEF PatchExecute
    <3>4. CASE PatchRestore(q)
      BY <3>4 DEF PatchRestore
    <3> QED
      BY <1>3, <3>1, <3>2, <3>3, <3>4 DEF PatchStep
  <2>3. LockOwned' /\ Described'
    BY <2>1 DEF LifecycleInv, LockOwned, Described, At
  <2>4. LoadingLocked'
    BY <2>1, <2>2 DEF LifecycleInv, LoadingLocked, Restorable
  <2>5. PatchOwned'
    BY <2>2 DEF PatchOwned, Restorable
  <2> QED
    BY <2>3, <2>4, <2>5 DEF LifecycleInv
<1> QED
  BY <1>1, <1>2, <1>3

-----------------------------------------------------------------------------
\* The inductive invariant holds in every reachable state.
THEOREM LifecycleInvariant == Spec => []LifecycleInv
<1>1. ASSUME Init
      PROVE  LifecycleInv
  <2>1. /\ obj.state = "Inactive" /\ factoryLock = NoThread
        /\ \A h \in Handlers : thread[h].pc = "idle"
    BY <1>1, HandlersAreThreads DEF Init
  <2>2. obj \in ObjectType
    <3>1. PICK s \in Setting :
             obj = [state |-> "Inactive", lastState |-> "Inactive",
                    pid |-> NoPid, enabled |-> (s = "active"),
                    settingState |-> s, patched |-> TRUE, isStarting |-> FALSE,
                    started |-> FALSE, startAge |-> 2, silent |-> FALSE,
                    patchStale |-> FALSE, limited |-> FALSE]
      BY <1>1 DEF Init
    <3>2. (s = "active") \in BOOLEAN /\ 2 \in 0..2
      OBVIOUS
    <3> QED
      BY <3>1, <3>2 DEF ObjectType, InternalServerState, Restorable
  <2>3. registry \in [setting: Setting, cache: Setting] /\ exeExists \in BOOLEAN
    <3>1. PICK s \in Setting : registry = [setting |-> s, cache |-> s]
      BY <1>1 DEF Init
    <3>2. exeExists \in BOOLEAN
      BY <1>1 DEF Init
    <3> QED
      BY <3>1, <3>2
  <2>4. thread \in [Threads -> ThreadType]
    BY <1>1 DEF Init, ThreadType, ThreadPc, Restorable
  <2>5. patcher \in [Patchers -> PatcherType] /\ proc \in [Pids -> {"free", "up", "dead"}]
    BY <1>1 DEF Init, PatcherType, Restorable
  <2>6. requests \in 0..MaxRequests
    BY <1>1, LifecycleAssumption DEF Init
  <2>7. TypeOK
    BY <1>1, <2>2, <2>3, <2>4, <2>5, <2>6 DEF Init, TypeOK
  <2>8. LockOwned /\ Described /\ LoadingLocked /\ PatchOwned
    BY <2>1, HandlersAreThreads DEF LockOwned, Described, LoadingLocked, PatchOwned, At
  <2> QED
    BY <2>7, <2>8 DEF LifecycleInv
<1>2. ASSUME LifecycleInv, [Next]_vars
      PROVE  LifecycleInv'
  <2>1. TypeOK'
    BY <1>2, StepTyped DEF LifecycleInv
  <2>2. ASSUME NEW h \in Handlers, Request(h) \/ HandlerStep(h)
        PROVE  LifecycleInv'
    BY <1>2, <2>1, <2>2, RequestKeeps, LoadKeeps, PatchKeeps DEF HandlerStep
  <2>3. ASSUME NEW t \in Threads, StartStep(t) \/ StopStep(t)
        PROVE  LifecycleInv'
    BY <1>2, <2>1, <2>3, StartKeeps, StopKeeps
  <2>4. CASE CheckStep
    BY <1>2, <2>1, <2>4, CheckKeeps
  <2>5. ASSUME NEW q \in Patchers, PatchStep(q) \/ PatchProgress(q)
        PROVE  LifecycleInv'
    BY <1>2, <2>1, <2>5, PatchKeeps, QuietKeeps
  <2>6. CASE \/ \E p \in Pids : ProcessStep(p)
             \/ Age \/ FallSilent \/ Unlimit \/ PatchStalls
             \/ UNCHANGED vars
    BY <1>2, <2>1, <2>6, QuietKeeps
  <2> QED
    BY <1>2, <2>2, <2>3, <2>4, <2>5, <2>6 DEF Next, ClockStep
<1> QED
  BY <1>1, <1>2, PTL DEF Spec

\* Every variable keeps its type, for any instance.
THEOREM TypeCorrect == Spec => []TypeOK
<1>1. LifecycleInv => TypeOK
  BY DEF LifecycleInv
<1> QED
  BY <1>1, LifecycleInvariant, PTL

\* No interleaving of handlers, checks, patches, heartbeats and faults leaves a
\* server in Loading without a load that will end it.
THEOREM LoadingIsOwned == Spec => []LoadingOwned
<1>1. LifecycleInv => LoadingOwned
  BY DEF LifecycleInv, LoadingLocked, LockOwned, LoadingOwned
<1> QED
  BY <1>1, LifecycleInvariant, PTL

\* Nor in BatchPatching without a patch that will end it.
THEOREM PatchIsOwned == Spec => []PatchOwned
<1>1. LifecycleInv => PatchOwned
  BY DEF LifecycleInv
<1> QED
  BY <1>1, LifecycleInvariant, PTL

-----------------------------------------------------------------------------
(***************************************************************************)
(* Monitoring alone.  As long as no request has come, only the             *)
(* KeepAliveThread touches the server, so what its checks find stays true  *)
(* until it acts on it: a process is only started when there is none, and  *)
(* the one process there may be is the one _pid names, or the one just     *)
(* forked.  A late heartbeat breaks this (it puts a dead process's pid     *)
(* back), so "late" is excluded.                                           *)
(***************************************************************************)
NoneAsked ==
    /\ \A h \in Handlers : At(h, "idle")
    /\ ~queued
    /\ \A q \in Patchers : patcher[q].pc = "idle"
    /\ \A p \in Pids : proc[p] # "dead"

\* The checks have found that there is no process.
FoundNone ==
    \/ obj.state = "Inactive"
    \/ thread[KeepAlive].pc \in {"activate", "stopped"}
    \/ thread[KeepAlive].pc \in {"reconcile", "finish"} /\ ~thread[KeepAlive].pidOk

Alone ==
    /\ NoneAsked
    /\ FoundNone => Up = {}
    /\ At(KeepAlive, "activate") => obj.state # "Inactive"
    /\ Up \subseteq {IF At(KeepAlive, "setPid") THEN thread[KeepAlive].child
                                                ELSE obj.pid}

MonitorInv == requests = 0 => Alone

\* A step of the KeepAliveThread asks nothing.
LEMMA StillNoneAsked ==
    ASSUME NoneAsked, UNCHANGED <<queued, patcher>>,
           \A h \in Handlers : thread'[h] = thread[h],
           \A p \in Pids : proc'[p] # "dead"
    PROVE  NoneAsked'
BY DEF NoneAsked, At

\* The KeepAliveThread moves, and starts no process.
LEMMA AloneMoves ==
    ASSUME TypeOK, Alone, NEW pc, thread'[KeepAlive].pc = pc,
           \A u \in Threads : u # KeepAlive => thread'[u] = thread[u],
           UNCHANGED <<queued, patcher>>,
           \A p \in Pids : proc'[p] # "dead",
           Up' \subseteq Up,
           pc \notin {"activate", "setPid"},
           pc \in {"reconcile", "finish"} /\ ~thread'[KeepAlive].pidOk => Up' = {},
           pc = "stopped" => Up' = {},
           \/ obj'.state = "Inactive" => FoundNone
           \/ Up' = {},
           At(KeepAlive, "setPid") => Up' = {},
           obj'.pid = obj.pid \/ Up' = {}
    PROVE  Alone'
<1> USE HandlersAreThreads
<1>1. NoneAsked'
  BY StillNoneAsked DEF Alone
<1>2. FoundNone' => Up' = {}
  BY DEF Alone, FoundNone
<1>3. Up' \subseteq {obj'.pid}
  BY DEF Alone
<1> QED
  BY <1>1, <1>2, <1>3 DEF Alone, At

\* While there is none, the process _pid names does not exist; when it does not
\* exist, there is none.
LEMMA AloneCheckPid ==
    ASSUME Alone, ~At(KeepAlive, "setPid"), ~CheckPid
    PROVE  Up = {}
BY DEF Alone, CheckPid

\* CommandStart, run by the KeepAliveThread.
LEMMA StartAlone ==
    ASSUME TypeOK, Alone, StartStep(KeepAlive)
    PROVE  Alone'
<1> DEFINE K == KeepAlive
<1> USE HandlersAreThreads
<1>0. \A p \in Pids : proc[p] # "dead"
  BY DEF Alone, NoneAsked
<1>1. CASE StartConstruct(K) \/ StartDestruct(K)
  <2>1. /\ UNCHANGED <<proc, queued, patcher>>
        /\ thread[K].pc \in {"ctor", "dtor"}
    BY <1>1 DEF StartConstruct, StartDestruct, At
  <2>2. obj'.state = obj.state /\ obj'.pid = obj.pid
    BY <1>1 DEF StartConstruct, StartDestruct, TypeOK, ObjectType
  <2>3. /\ thread'[K].pc \in {"canStart", "idle", "synCache"}
        /\ \A u \in Threads : u # K => thread'[u] = thread[u]
    BY <1>1, GotoMoves, ReturnMoves DEF StartConstruct, StartDestruct
  <2>4. Up' = Up
    BY <2>1 DEF Up
  <2> QED
    BY <1>0, <2>1, <2>2, <2>3, <2>4, AloneMoves DEF FoundNone, At
<1>2. CASE StartCanExecute(K)
  <2>1. /\ UNCHANGED <<proc, queued, patcher>>
        /\ thread[K].pc = "canStart"
    BY <1>2 DEF StartCanExecute, At
  <2>2. Up' = Up
    BY <2>1 DEF Up
  <2> DEFINE asked == [obj EXCEPT !.enabled = obj.enabled \/ K \in Handlers]
  <2>3. asked \in ObjectType /\ asked.state = obj.state /\ asked.pid = obj.pid
    BY DEF TypeOK, ObjectType
  <2>4. \/ /\ obj' = asked \/ obj' = [asked EXCEPT !.patched = FALSE]
           /\ Goto(K, "dtor")
        \/ /\ obj' = [asked EXCEPT !.patched = TRUE, !.state = "Activating"]
           /\ Goto(K, "activate") /\ obj.state = "Inactive"
    BY <1>2 DEF StartCanExecute
  <2> HIDE DEF asked
  <2>5. CASE /\ obj' = asked \/ obj' = [asked EXCEPT !.patched = FALSE]
             /\ Goto(K, "dtor")
    <3>1. obj'.state = obj.state /\ obj'.pid = obj.pid
      BY <2>3, <2>5 DEF ObjectType
    <3>2. /\ thread'[K].pc = "dtor"
          /\ \A u \in Threads : u # K => thread'[u] = thread[u]
      BY <2>5, GotoMoves
    <3> QED
      BY <1>0, <2>1, <2>2, <3>1, <3>2, AloneMoves DEF FoundNone, At
  <2>6. CASE /\ obj' = [asked EXCEPT !.patched = TRUE, !.state = "Activating"]
             /\ Goto(K, "activate") /\ obj.state = "Inactive"
    <3>1. obj'.state = "Activating"
      BY <2>3, <2>6 DEF ObjectType
    <3>2. /\ thread'[K].pc = "activate"
          /\ \A u \in Threads : u # K => thread'[u] = thread[u]
      BY <2>6, GotoMoves
    <3>3. Up' = {}
      BY <2>2, <2>6 DEF Alone, FoundNone
    <3>4. NoneAsked'
      BY <1>0, <2>1, <3>2, StillNoneAsked DEF Alone
    <3> QED
      BY <3>1, <3>2, <3>3, <3>4 DEF Alone, At
  <2> QED
    BY <2>4, <2>5, <2>6
<1>3. CASE ActivateOk(K)
  <2>1. PICK p \in FreePids :
           /\ proc' = [proc EXCEPT ![p] = "up"]
           /\ thread' = [thread EXCEPT ![K].child = p, ![K].pc = "setPid"]
    BY <1>3 DEF ActivateOk
  <2>2. /\ UNCHANGED <<queued, patcher>>
        /\ thread[K].pc = "activate"
    BY <1>3 DEF ActivateOk, At
  <2>3. Up = {} /\ obj.state # "Inactive"
    BY <2>2 DEF Alone, FoundNone, At
  <2>4. p \in Pids
    BY DEF FreePids
  <2>5. /\ Up' \subseteq {p}
        /\ \A r \in Pids : proc'[r] # "dead"
    BY <1>0, <2>1, <2>3, <2>4 DEF Up, TypeOK
  <2>6. obj'.state # "Inactive"
    BY <1>3, <2>3, MayLimitTyped DEF ActivateOk
  <2>7. /\ thread'[K].pc = "setPid" /\ thread'[K].child = p
        /\ \A u \in Threads : u # K => thread'[u] = thread[u]
    BY <2>1 DEF TypeOK, ThreadType
  <2>8. NoneAsked'
    BY <2>2, <2>5, <2>7, StillNoneAsked DEF Alone
  <2> QED
    BY <2>5, <2>6, <2>7, <2>8 DEF Alone, FoundNone, At
<1>4. CASE ActivateThrows(K)
  <2>1. /\ UNCHANGED <<proc, queued, patcher>>
        /\ thread[K].pc = "activate"
    BY <1>4 DEF ActivateThrows, At
  <2>2. Up = {} /\ Up' = Up
    BY <2>1 DEF Alone, FoundNone, At, Up
  <2>3. /\ thread'[K].pc = "finish"
        /\ \A u \in Threads : u # K => thread'[u] = thread[u]
    BY <1>4 DEF ActivateThrows, TypeOK, ThreadType
  <2> QED
    BY <1>0, <2>1, <2>2, <2>3, AloneMoves
<1>5. CASE StartSetPid(K)
  <2>1. /\ UNCHANGED <<proc, queued, patcher>>
        /\ thread[K].pc = "setPid"
    BY <1>5 DEF StartSetPid, At
  <2>2. Up' = Up
    BY <2>1 DEF Up
  <2>3. /\ thread'[K].pc = "verify"
        /\ \A u \in Threads : u # K => thread'[u] = thread[u]
    BY <1>5 DEF StartSetPid, TypeOK, ThreadType
  <2>4. obj'.pid = thread[K].child /\ obj'.state = obj.state
    BY <1>5 DEF StartSetPid, TypeOK, ObjectType
  <2>5. NoneAsked'
    BY <1>0, <2>1, <2>3, StillNoneAsked DEF Alone
  <2> QED
    BY <2>1, <2>2, <2>3, <2>4, <2>5 DEF Alone, FoundNone, At
<1>6. CASE StartVerify(K)
  <2>1. /\ UNCHANGED <<obj, proc, queued, patcher>>
        /\ thread[K].pc = "verify"
    BY <1>6 DEF StartVerify, At
  <2>2. Up' = Up
    BY <2>1 DEF Up
  <2>3. /\ thread'[K].pc = "finish" /\ thread'[K].pidOk = CheckPid
        /\ \A u \in Threads : u # K => thread'[u] = thread[u]
    BY <1>6 DEF StartVerify, TypeOK, ThreadType
  <2> QED
    BY <1>0, <2>1, <2>2, <2>3, AloneMoves, AloneCheckPid DEF FoundNone, At
<1>7. CASE StartFinish(K)
  <2>1. /\ UNCHANGED <<proc, queued, patcher>>
        /\ thread[K].pc = "finish"
    BY <1>7 DEF StartFinish, At
  <2>2. Up' = Up
    BY <2>1 DEF Up
  <2>3. /\ thread'[K].pc = "dtor"
        /\ \A u \in Threads : u # K => thread'[u] = thread[u]
    BY <1>7 DEF StartFinish, TypeOK, ThreadType
  <2>4. CASE thread[K].pidOk
    <3>1. obj'.state = obj.state /\ obj'.pid = obj.pid
      BY <1>7, <2>4 DEF StartFinish, TypeOK, ObjectType
    <3> QED
      BY <1>0, <2>1, <2>2, <2>3, <3>1, AloneMoves DEF FoundNone, At
  <2>5. CASE ~thread[K].pidOk
    <3>1. Up = {}
      BY <2>1, <2>5 DEF Alone, FoundNone
    <3> QED
      BY <1>0, <2>1, <2>2, <2>3, <3>1, AloneMoves
  <2> QED
    BY <2>4, <2>5
<1> QED
  BY <1>1, <1>2, <1>3, <1>4, <1>5, <1>6, <1>7 DEF StartStep

\* CommandStop, run by the KeepAliveThread.
LEMMA StopAlone ==
    ASSUME "late" \notin Faults, TypeOK, Alone, StopStep(KeepAlive)
    PROVE  Alone'
<1> DEFINE K == KeepAlive
<1> USE HandlersAreThreads
<1>0. \A p \in Pids : proc[p] # "dead"
  BY DEF Alone, NoneAsked
<1>1. /\ UNCHANGED <<queued, patcher>>
      /\ thread[K].pc \in {"canStop", "wait", "kill", "waitKilled", "stopped"}
  BY DEF StopStep, StopCanExecute, StopWait, StopKill, StopWaitKilled, Stopped, At
<1>2. PICK pc \in {"autoStart", "zombie", "wait", "kill", "waitKilled", "stopped"} :
         Goto(K, pc) /\ (pc = "stopped" => ~CheckPid /\ UNCHANGED proc)
  <2>1. AfterStop(K) \in {"autoStart", "zombie"}
    BY DEF AfterStop
  <2> QED
    BY <2>1 DEF StopStep, StopCanExecute, StopWait, StopKill, StopWaitKilled, Stopped
<1>3. /\ thread'[K].pc = pc
      /\ \A u \in Threads : u # K => thread'[u] = thread[u]
  BY <1>2, GotoMoves
<1>4. Up' \subseteq Up /\ \A p \in Pids : proc'[p] # "dead"
  <2>1. CASE StopKill(K)
    <3>1. \/ UNCHANGED proc
          \/ proc' = [proc EXCEPT ![obj.pid] = "free"]
      BY <2>1 DEF StopKill, Ended
    <3> QED
      BY <1>0, <3>1 DEF Up, TypeOK
  <2>2. CASE ~StopKill(K)
    <3>1. UNCHANGED proc
      BY <2>2 DEF StopStep, StopCanExecute, StopWait, StopWaitKilled, Stopped
    <3> QED
      BY <1>0, <3>1 DEF Up
  <2> QED
    BY <2>1, <2>2
<1>5. pc = "stopped" => Up' = {}
  BY <1>1, <1>2, <1>4, AloneCheckPid DEF At
<1>6. CASE Stopped(K)
  <2>1. Up = {}
    BY <1>6 DEF Stopped, Alone, FoundNone, At
  <2> QED
    BY <1>1, <1>2, <1>3, <1>4, <2>1, AloneMoves
<1>7. CASE ~Stopped(K)
  <2>1. /\ obj'.pid = obj.pid
        /\ obj'.state = obj.state \/ obj'.state = "Deactivating"
    BY <1>7 DEF StopStep, StopCanExecute, StopWait, StopKill, StopWaitKilled,
                TypeOK, ObjectType
  <2> QED
    BY <1>1, <1>2, <1>3, <1>4, <1>5, <2>1, AloneMoves DEF FoundNone, At
<1> QED
  BY <1>6, <1>7

\* checkServer.
LEMMA CheckAlone ==
    ASSUME TypeOK, Alone, CheckStep
    PROVE  Alone'
<1> DEFINE K == KeepAlive
<1> USE HandlersAreThreads
<1>1. UNCHANGED <<proc, queued, patcher>>
  BY DEF CheckStep, CheckServer, Reconcile, CheckZombie, CheckAutoStart, SynCache
<1>2. Up' = Up /\ \A p \in Pids : proc'[p] # "dead"
  BY <1>1 DEF Up, Alone, NoneAsked
<1>3. CASE Reconcile
  <2>1. /\ thread[K].pc = "reconcile"
        /\ thread'[K].pc \in {"canStop", "zombie"}
        /\ \A u \in Threads : u # K => thread'[u] = thread[u]
    BY <1>3 DEF Reconcile, At, TypeOK, ThreadType
  <2>2. \/ ~thread[K].pidOk /\ obj' = [obj EXCEPT !.state = "Inactive"]
        \/ UNCHANGED obj
    BY <1>3 DEF Reconcile
  <2>3. CASE UNCHANGED obj
    BY <1>1, <1>2, <2>1, <2>3, AloneMoves DEF FoundNone, At
  <2>4. CASE ~thread[K].pidOk
    <3>1. Up = {}
      BY <2>1, <2>4 DEF Alone, FoundNone
    <3> QED
      BY <1>1, <1>2, <2>1, <3>1, AloneMoves
  <2> QED
    BY <2>2, <2>3, <2>4
<1>4. CASE CheckServer
  <2>1. /\ thread[K].pc = "idle" /\ UNCHANGED obj
        /\ \/ thread'[K].pc = "synCache"
           \/ thread'[K].pc = "reconcile" /\ thread'[K].pidOk = CheckPid
        /\ \A u \in Threads : u # K => thread'[u] = thread[u]
    BY <1>4 DEF CheckServer, At, Goto, TypeOK, ThreadType
  <2> QED
    BY <1>1, <1>2, <2>1, AloneMoves, AloneCheckPid DEF FoundNone, At
<1>5. CASE CheckZombie \/ CheckAutoStart \/ SynCache
  <2>1. /\ thread[K].pc \in {"zombie", "autoStart", "synCache"} /\ UNCHANGED obj
        /\ thread'[K].pc \in {"canStop", "autoStart", "ctor", "synCache", "idle"}
        /\ \A u \in Threads : u # K => thread'[u] = thread[u]
    BY <1>5 DEF CheckZombie, CheckAutoStart, SynCache, At, Goto, TypeOK, ThreadType
  <2> QED
    BY <1>1, <1>2, <2>1, AloneMoves DEF FoundNone, At
<1> QED
  BY <1>3, <1>4, <1>5 DEF CheckStep

\* Only a live process reports, and it is the one that is known already.
LEMMA ProcessAlone ==
    ASSUME "late" \notin Faults, TypeOK, Alone, NEW p \in Pids, ProcessStep(p)
    PROVE  Alone'
<1> DEFINE K == KeepAlive
<1> USE HandlersAreThreads
<1>0. \A r \in Pids : proc[r] # "dead"
  BY DEF Alone, NoneAsked
<1>1. UNCHANGED <<thread, queued, patcher>>
  BY DEF ProcessStep, keepAlive, keepActiving, Exit, Beat
<1>2. CASE keepAlive(p) \/ keepActiving(p)
  <2>1. p \in Up
    BY <1>0, <1>2 DEF keepAlive, keepActiving, Beat, Up
  <2>2. Up' = Up /\ \A r \in Pids : proc'[r] # "dead"
    <3>1. proc' = [proc EXCEPT ![p] = "up"] /\ proc[p] = "up"
      BY <1>2, <2>1 DEF keepAlive, keepActiving, Beat, Up
    <3> QED
      BY <1>0, <3>1 DEF Up, TypeOK
  <2>3. ~FoundNone
    BY <2>1 DEF Alone
  <2>4. obj'.state # "Inactive"
    <3>1. CASE keepActiving(p)
      BY <3>1 DEF keepActiving, TypeOK, ObjectType
    <3>2. CASE keepAlive(p)
      <4>1. obj'.state = IF IsTransitional(obj.state) /\ obj.state # "Activating"
                         THEN obj.state ELSE "Active"
        BY <3>2 DEF keepAlive, TypeOK, ObjectType
      <4> QED
        BY <4>1, <2>3 DEF FoundNone
    <3> QED
      BY <1>2, <3>1, <3>2
  <2>5. obj'.pid \in {obj.pid, p}
    BY <1>2 DEF keepAlive, keepActiving, TypeOK, ObjectType
  <2>6. ~At(K, "setPid") => p = obj.pid
    BY <2>1 DEF Alone
  <2>7. NoneAsked'
    BY <1>1, <2>2, StillNoneAsked DEF Alone
  <2>8. ~FoundNone'
    BY <1>1, <2>3, <2>4 DEF FoundNone
  <2> QED
    BY <1>1, <2>2, <2>4, <2>5, <2>6, <2>7, <2>8 DEF Alone, At
<1>3. CASE Exit(p)
  <2>1. proc' = [proc EXCEPT ![p] = "free"] /\ UNCHANGED obj
    BY <1>3 DEF Exit, Ended
  <2>2. Up' \subseteq Up /\ \A r \in Pids : proc'[r] # "dead"
    BY <1>0, <2>1 DEF Up, TypeOK
  <2>3. NoneAsked'
    BY <1>1, <2>2, StillNoneAsked DEF Alone
  <2>4. FoundNone' => FoundNone
    BY <1>1, <2>1 DEF FoundNone
  <2> QED
    BY <1>1, <2>1, <2>2, <2>3, <2>4 DEF Alone, At
<1> QED
  BY <1>2, <1>3 DEF ProcessStep

\* The passing of time.
LEMMA ClockAlone ==
    ASSUME TypeOK, Alone, Age \/ FallSilent \/ Unlimit \/ PatchStalls \/ UNCHANGED vars
    PROVE  Alone'
<1>1. UNCHANGED <<proc, thread, queued, patcher>>
  BY DEF Age, FallSilent, Unlimit, PatchStalls, vars
<1>2. obj'.state = obj.state /\ obj'.pid = obj.pid
  BY DEF Age, FallSilent, Unlimit, PatchStalls, vars, TypeOK, ObjectType
<1>3. Up' = Up
  BY <1>1 DEF Up
<1> QED
  BY <1>1, <1>2, <1>3 DEF Alone, NoneAsked, FoundNone, At

\* Without late heartbeats, monitoring alone keeps at most the one process it
\* knows of.
LEMMA MonitorInvariant ==
    ASSUME "late" \notin Faults
    PROVE  Spec => []MonitorInv
<1> USE HandlersAreThreads
<1>1. ASSUME Init
      PROVE  MonitorInv
  <2>1. /\ \A t \in Threads : thread[t].pc = "idle"
        /\ \A p \in Pids : proc[p] = "free"
        /\ ~queued /\ \A q \in Patchers : patcher[q].pc = "idle"
    BY <1>1 DEF Init
  <2>2. Up = {}
    BY <2>1 DEF Up
  <2> QED
    BY <2>1, <2>2 DEF MonitorInv, Alone, NoneAsked, FoundNone, At
<1>2. ASSUME TypeOK, MonitorInv, [Next]_vars
      PROVE  MonitorInv'
  <2>1. SUFFICES ASSUME requests' = 0
                 PROVE  Alone'
    BY DEF MonitorInv
  <2>2. \A h \in Handlers : ~Request(h)
    BY <1>2, <2>1 DEF Request, TypeOK
  <2>3. requests = 0
    <3>1. UNCHANGED requests
      BY <1>2, <2>2 DEF Next, HandlerStep, FetchDescriptor, CreateServer, LoadDone,
         LoadFailed, PatchPreset, PatchPush, StartStep, StartConstruct,
         StartCanExecute, ActivateOk, ActivateThrows, StartSetPid, StartVerify,
         StartFinish, StartDestruct, StopStep, StopCanExecute, StopWait, StopKill,
         StopWaitKilled, Stopped, CheckStep, CheckServer, Reconcile, CheckZombie,
         CheckAutoStart, SynCache, PatchStep, PatchPop, PatchCanExecute,
         PatchExecute, PatchRestore, ProcessStep, keepAlive, keepActiving, Beat,
         Exit, ClockStep, Age, FallSilent, Unlimit, PatchStalls, PatchProgress, vars
    <3> QED
      BY <2>1, <3>1
  <2>4. Alone
    BY <1>2, <2>3 DEF MonitorInv
  <2>5. \A h \in Handlers : thread[h].pc = "idle"
    BY <2>4 DEF Alone, NoneAsked, At
  <2>6. \A h \in Handlers : ~HandlerStep(h) /\ ~StartStep(h) /\ ~StopStep(h)
    BY <2>5 DEF HandlerStep, FetchDescriptor, CreateServer, LoadDone,
         LoadFailed, PatchPreset, PatchPush, StartStep, StartConstruct,
         StartCanExecute, ActivateOk, ActivateThrows, StartSetPid, StartVerify,
         StartFinish, StartDestruct, StopStep, StopCanExecute, StopWait, StopKill,
         StopWaitKilled, Stopped, At
  <2>7. \A q \in Patchers : ~PatchStep(q) /\ ~PatchProgress(q)
    BY <2>4 DEF Alone, NoneAsked, PatchStep, PatchPop, PatchCanExecute,
         PatchExecute, PatchRestore, PatchProgress
  <2>8. \/ StartStep(KeepAlive) \/ StopStep(KeepAlive) \/ CheckStep
        \/ \E p \in Pids : ProcessStep(p)
        \/ Age \/ FallSilent \/ Unlimit \/ PatchStalls \/ UNCHANGED vars
    BY <1>2, <2>2, <2>6, <2>7 DEF Next, ClockStep, Threads
  <2> QED
    BY <1>2, <2>4, <2>8, StartAlone, StopAlone, CheckAlone, ProcessAlone, ClockAlone
<1> QED
  BY <1>1, <1>2, TypeCorrect, PTL DEF Spec

\* Monitoring alone never runs two processes of the server, ...
THEOREM MonitoringIsSafe ==
    ASSUME "late" \notin Faults
    PROVE  Spec => []MonitorStartsOne
<1>1. MonitorInv => MonitorStartsOne
  <2>1. SUFFICES ASSUME Alone
                 PROVE  Cardinality(Up) <= 1
    BY DEF MonitorInv, MonitorStartsOne, OneProcess
  <2> DEFINE x == IF At(KeepAlive, "setPid") THEN thread[KeepAlive].child
                                              ELSE obj.pid
  <2>2. Up \subseteq {x}
    BY <2>1 DEF Alone
  <2> HIDE DEF x
  <2>3. IsFiniteSet({x}) /\ Cardinality({x}) = 1
    BY FS_Singleton
  <2> QED
    BY <2>1, <2>2, <2>3, FS_Subset
<1> QED
  BY <1>1, MonitorInvariant, PTL

-----------------------------------------------------------------------------
(***************************************************************************)
(* The enabled flag.  With requests that wait for one another and a        *)
(* registry that answers, a request that has disabled the server, or has   *)
(* read a descriptor it has not yet applied, is the only reason why the    *)
(* flag and setting_state may differ.                                      *)
(***************************************************************************)

\* The points of a request at which the flag may lag behind the registry, ...
Unsettled == {"fetch", "load", "canStop", "wait", "kill", "waitKilled", "stopped"}

\* ... and those of CommandStart, which enables the server.
Starting == {"ctor", "canStart", "activate", "setPid", "verify", "finish", "dtor"}

OneRequest == \A g, h \in Handlers : g = h \/ At(g, "idle") \/ At(h, "idle")

AsksRight ==
    \A h \in Handlers :
       /\ At(h, "load") => thread[h].desc = registry.setting
       /\ thread[h].op = "start" => At(h, "idle") \/ registry.setting = "active"
       /\ thread[h].pc \in Starting => thread[h].op = "start"

Settled ==
    (\A h \in Handlers : thread[h].pc \notin Unsettled)
        => obj.enabled = (registry.setting = "active")

SerialInv == OneRequest /\ AsksRight /\ Settled

\* The registry sends a request once the previous one has returned.
InTurn == \A h \in Handlers : Request(h) => \A g \in Handlers : At(g, "idle")
Serial == [][InTurn]_vars

\* A step of thread t that sets the flag only where that is right.
LEMMA InTurnMoves ==
    ASSUME TypeOK, SerialInv, NEW t \in Threads,
           \A u \in Threads : u # t => thread'[u] = thread[u],
           registry'.setting = registry.setting,
           t \in Handlers => /\ thread[t].pc # "idle"
                             /\ thread'[t].op \in {thread[t].op, "none"}
                             /\ thread'[t].pc # "load"
                             /\ \/ thread'[t].pc \notin Starting
                                \/ thread'[t].op = "start"
                             /\ \/ thread'[t].pc \in Unsettled
                                \/ /\ thread[t].pc \notin Unsettled
                                   /\ obj'.enabled = obj.enabled
                                \/ obj'.enabled = (registry.setting = "active"),
           t \notin Handlers => obj'.enabled = obj.enabled
    PROVE  SerialInv'
<1> USE HandlersAreThreads
<1>1. OneRequest'
  <2>1. t \in Handlers => \A h \in Handlers : h # t => thread[h].pc = "idle"
    BY DEF SerialInv, OneRequest, At
  <2>2. \A h \in Handlers : h # t => thread'[h] = thread[h]
    OBVIOUS
  <2>3. CASE t \in Handlers
    BY <2>1, <2>2, <2>3 DEF OneRequest, At
  <2>4. CASE t \notin Handlers
    BY <2>2, <2>4 DEF SerialInv, OneRequest, At
  <2> QED
    BY <2>3, <2>4
<1>2. AsksRight'
  <2>1. SUFFICES ASSUME NEW h \in Handlers
                 PROVE  /\ thread'[h].pc = "load" => thread'[h].desc = registry.setting
                        /\ \/ thread'[h].op # "start" \/ thread'[h].pc = "idle"
                           \/ registry.setting = "active"
                        /\ thread'[h].pc \in Starting => thread'[h].op = "start"
    BY DEF AsksRight, At
  <2>2. CASE h = t
    BY <2>2 DEF SerialInv, AsksRight, At
  <2>3. CASE h # t
    BY <2>3 DEF SerialInv, AsksRight, At
  <2> QED
    BY <2>2, <2>3
<1>3. Settled'
  <2>1. SUFFICES ASSUME \A h \in Handlers : thread'[h].pc \notin Unsettled
                 PROVE  obj'.enabled = (registry.setting = "active")
    BY DEF Settled
  <2>2. CASE t \notin Handlers
    <3>1. \A h \in Handlers : thread'[h] = thread[h]
      BY <2>2
    <3> QED
      BY <2>1, <2>2, <3>1 DEF SerialInv, Settled
  <2>3. CASE t \in Handlers
    <3>1. \A h \in Handlers : h # t => thread[h].pc \notin Unsettled
      BY <2>1
    <3> QED
      BY <2>1, <2>3, <3>1 DEF SerialInv, Settled
  <2> QED
    BY <2>2, <2>3
<1> QED
  BY <1>1, <1>2, <1>3 DEF SerialInv

\* A step that moves no thread and leaves the flag and the registry alone.
LEMMA InTurnStays ==
    ASSUME SerialInv, UNCHANGED thread, registry'.setting = registry.setting,
           obj'.enabled = obj.enabled
    PROVE  SerialInv'
BY DEF SerialInv, OneRequest, AsksRight, Settled, At

\* What a thread's move leaves alone in the thread itself.
LEMMA GotoKeepsOp ==
    ASSUME TypeOK, NEW t \in Threads, NEW pc, Goto(t, pc)
    PROVE  thread'[t].op = thread[t].op
BY DEF TypeOK, Goto, ThreadType

\* The end of an operation forgets it.
LEMMA ReturnForgets ==
    ASSUME TypeOK, NEW t \in Threads, Return(t)
    PROVE  thread'[t].op = "none"
<1>1. thread[t] \in ThreadType
  BY DEF TypeOK
<1> QED
  BY <1>1 DEF TypeOK, Return, ThreadType

\* A request that comes in its turn.
LEMMA RequestInTurn ==
    ASSUME TypeOK, SerialInv, NEW h \in Handlers, Request(h), InTurn
    PROVE  SerialInv'
<1> USE HandlersAreThreads
<1>1. \A g \in Handlers : thread[g].pc = "idle"
  BY DEF InTurn, At
<1>2. PICK op \in Ops :
         /\ thread' = [thread EXCEPT ![h].op = op,
                         ![h].pc = IF op = "stop" THEN "canStop" ELSE "fetch"]
         /\ op = "start" => registry' = [registry EXCEPT !.setting = "active"]
  BY DEF Request
<1>3. /\ thread'[h].op = op /\ thread'[h].pc \in {"canStop", "fetch"}
      /\ \A g \in Handlers : g # h => thread'[g].pc = "idle"
  BY <1>1, <1>2 DEF TypeOK, ThreadType
<1>4. op = "start" => registry'.setting = "active"
  BY <1>2 DEF TypeOK
<1>5. OneRequest'
  BY <1>3 DEF OneRequest, At
<1>6. AsksRight'
  BY <1>3, <1>4 DEF AsksRight, Starting, At
<1>7. Settled'
  BY <1>3 DEF Settled, Unsettled
<1> QED
  BY <1>5, <1>6, <1>7 DEF SerialInv

\* loadServer: with the registry's answer the flag is what the registry says.
LEMMA LoadInTurn ==
    ASSUME "outage" \notin Faults, TypeOK, SerialInv, NEW h \in Handlers,
           FetchDescriptor(h) \/ CreateServer(h) \/ LoadDone(h) \/ LoadFailed(h)
    PROVE  SerialInv'
<1> USE HandlersAreThreads
<1>1. CASE FetchDescriptor(h)
  <2>1. /\ thread' = [thread EXCEPT ![h].desc = registry.setting, ![h].pc = "load"]
        /\ registry'.setting = registry.setting
        /\ thread[h].pc = "fetch"
    BY <1>1 DEF FetchDescriptor, TypeOK, At
  <2>2. /\ thread'[h].desc = registry.setting /\ thread'[h].pc = "load"
        /\ thread'[h].op = thread[h].op
        /\ \A g \in Handlers : g # h => thread'[g] = thread[g]
    BY <2>1 DEF TypeOK, ThreadType
  <2>3. OneRequest'
    BY <2>1, <2>2 DEF SerialInv, OneRequest, At
  <2>4. AsksRight'
    <3>1. SUFFICES ASSUME NEW g \in Handlers
                   PROVE  /\ thread'[g].pc = "load" => thread'[g].desc = registry.setting
                          /\ \/ thread'[g].op # "start" \/ thread'[g].pc = "idle"
                             \/ registry.setting = "active"
                          /\ thread'[g].pc \in Starting => thread'[g].op = "start"
      BY <2>1 DEF AsksRight, At
    <3>2. CASE g = h
      BY <2>1, <2>2, <3>2 DEF SerialInv, AsksRight, Starting, At
    <3>3. CASE g # h
      BY <2>2, <3>3 DEF SerialInv, AsksRight, At
    <3> QED
      BY <3>2, <3>3
  <2>5. Settled'
    BY <2>2 DEF Settled, Unsettled
  <2> QED
    BY <2>3, <2>4, <2>5 DEF SerialInv
<1>2. CASE CreateServer(h)
  <2>1. thread[h].pc = "load" /\ thread[h].desc = registry.setting
    BY <1>2 DEF CreateServer, SerialInv, AsksRight, At
  <2>2. /\ thread'[h].pc \in {"unloaded", "loading"}
        /\ thread'[h].op = thread[h].op
        /\ \A u \in Threads : u # h => thread'[u] = thread[u]
    BY <1>2 DEF CreateServer, Goto, TypeOK, ThreadType
  <2>3. obj'.enabled = (registry.setting = "active")
    <3> DEFINE described == [obj EXCEPT !.settingState = thread[h].desc,
                                        !.enabled = (thread[h].desc = "active"),
                                        !.silent = FALSE]
    <3>1. /\ described.enabled = (thread[h].desc = "active")
          /\ [described EXCEPT !.state = "Loading"].enabled = (thread[h].desc = "active")
      BY DEF TypeOK, ObjectType
    <3>2. obj' = described \/ obj' = [described EXCEPT !.state = "Loading"]
      BY <1>2 DEF CreateServer
    <3> HIDE DEF described
    <3> QED
      BY <2>1, <3>1, <3>2
  <2>4. registry'.setting = registry.setting
    BY <1>2 DEF CreateServer
  <2> QED
    BY <2>1, <2>2, <2>3, <2>4, InTurnMoves DEF Starting
<1>3. CASE LoadDone(h)
  <2>1. thread[h].pc = "loading" /\ registry'.setting = registry.setting
    BY <1>3 DEF LoadDone, At
  <2>2. obj'.enabled = obj.enabled
    BY <1>3 DEF LoadDone, TypeOK, ObjectType
  <2>3. /\ \A u \in Threads : u # h => thread'[u] = thread[u]
        /\ \/ thread'[h].op = thread[h].op /\ thread'[h].pc \in {"preset", "unloaded"}
           \/ thread'[h].op = thread[h].op /\ thread'[h].pc = "ctor"
              /\ thread[h].op = "start"
           \/ thread'[h].op = "none" /\ thread'[h].pc \in {"idle", "synCache"}
    BY <1>3, GotoMoves, GotoKeepsOp, ReturnMoves, ReturnForgets DEF LoadDone
  <2> QED
    BY <2>1, <2>2, <2>3, InTurnMoves DEF Starting, Unsettled
<1>4. CASE LoadFailed(h)
  <2>1. thread[h].pc = "unloaded" /\ registry'.setting = registry.setting
    BY <1>4 DEF LoadFailed, At
  <2>2. /\ \A u \in Threads : u # h => thread'[u] = thread[u]
        /\ thread'[h].op = "none" /\ thread'[h].pc \in {"idle", "synCache"}
    BY <1>4, ReturnMoves, ReturnForgets DEF LoadFailed
  <2>3. obj.enabled = (registry.setting = "active")
    BY <2>1 DEF SerialInv, OneRequest, Settled, Unsettled, At
  <2>4. obj'.enabled = (obj.enabled \/ thread[h].op = "start")
    BY <1>4 DEF LoadFailed, TypeOK, ObjectType
  <2>5. thread[h].op = "start" => registry.setting = "active"
    BY <2>1 DEF SerialInv, AsksRight, At
  <2>6. obj'.enabled = obj.enabled
    BY <2>3, <2>4, <2>5 DEF TypeOK, ObjectType
  <2> QED
    BY <2>1, <2>2, <2>6, InTurnMoves DEF Starting, Unsettled
<1> QED
  BY <1>1, <1>2, <1>3, <1>4

\* CommandStart enables the server only when the registry has set it active.
LEMMA StartInTurn ==
    ASSUME TypeOK, SerialInv, NEW t \in Threads, StartStep(t)
    PROVE  SerialInv'
<1> USE HandlersAreThreads
<1>1. registry' = registry /\ thread[t].pc \in Starting
  BY DEF StartStep, StartConstruct, StartCanExecute, ActivateOk, ActivateThrows,
         StartSetPid, StartVerify, StartFinish, StartDestruct, Starting, At
<1>2. /\ \A u \in Threads : u # t => thread'[u] = thread[u]
      /\ \/ thread'[t].op = thread[t].op /\ thread'[t].pc \in Starting
         \/ thread'[t].op = "none" /\ thread'[t].pc \in {"idle", "synCache"}
  <2>1. CASE StartConstruct(t) \/ StartCanExecute(t)
    BY <2>1, GotoMoves, GotoKeepsOp DEF StartConstruct, StartCanExecute, Starting
  <2>2. CASE ActivateOk(t)
    <3>1. PICK p : thread' = [thread EXCEPT ![t].child = p, ![t].pc = "setPid"]
      BY <2>2 DEF ActivateOk
    <3> QED
      BY <3>1 DEF Starting, TypeOK, ThreadType
  <2>3. CASE ActivateThrows(t)
    BY <2>3 DEF ActivateThrows, Starting, TypeOK, ThreadType
  <2>4. CASE StartSetPid(t) \/ StartVerify(t) \/ StartFinish(t)
    BY <2>4 DEF StartSetPid, StartVerify, StartFinish, Starting, TypeOK, ThreadType
  <2>5. CASE StartDestruct(t)
    BY <2>5, ReturnMoves, ReturnForgets DEF StartDestruct
  <2> QED
    BY <2>1, <2>2, <2>3, <2>4, <2>5 DEF StartStep
<1>3. t \in Handlers => /\ thread[t].op = "start" /\ registry.setting = "active"
                        /\ obj.enabled
  <2>1. t \in Handlers => thread[t].op = "start" /\ registry.setting = "active"
    BY <1>1 DEF SerialInv, AsksRight, Starting, At
  <2>2. t \in Handlers => \A h \in Handlers : thread[h].pc \notin Unsettled
    BY <1>1 DEF SerialInv, OneRequest, Starting, Unsettled, At
  <2> QED
    BY <2>1, <2>2 DEF SerialInv, Settled
<1>4. obj'.enabled = obj.enabled
  <2>1. CASE StartCanExecute(t)
    <3> DEFINE asked == [obj EXCEPT !.enabled = obj.enabled \/ t \in Handlers]
    <3>1. asked \in ObjectType /\ asked.enabled = obj.enabled
      BY <1>3 DEF TypeOK, ObjectType
    <3>2. obj' \in {asked, [asked EXCEPT !.patched = FALSE],
                   [asked EXCEPT !.patched = TRUE, !.state = "Activating"]}
      BY <2>1 DEF StartCanExecute
    <3> HIDE DEF asked
    <3> QED
      BY <3>1, <3>2 DEF ObjectType
  <2>2. CASE ActivateOk(t) \/ ActivateThrows(t)
    BY <2>2, MayLimitTyped DEF ActivateOk, ActivateThrows
  <2>3. CASE StartConstruct(t) \/ StartSetPid(t) \/ StartVerify(t) \/ StartDestruct(t)
    BY <2>3 DEF StartConstruct, StartSetPid, StartVerify, StartDestruct, TypeOK,
                ObjectType
  <2>4. CASE StartFinish(t)
    <3>1. \/ obj' = [obj EXCEPT !.silent = FALSE, !.started = TRUE, !.startAge = 0]
          \/ obj' = [obj EXCEPT !.pid = NoPid, !.state = "Inactive", !.started = FALSE]
      BY <2>4 DEF StartFinish
    <3>2. obj \in ObjectType
      BY DEF TypeOK
    <3> QED
      BY <3>1, <3>2 DEF ObjectType
  <2> QED
    BY <2>1, <2>2, <2>3, <2>4 DEF StartStep
<1> QED
  BY <1>1, <1>2, <1>3, <1>4, InTurnMoves DEF Starting, Unsettled

\* A stop disables the server and reloads it, which settles the flag; the checks
\* that stop a server leave it alone.
LEMMA StopInTurn ==
    ASSUME TypeOK, SerialInv, NEW t \in Threads, StopStep(t)
    PROVE  SerialInv'
<1> USE HandlersAreThreads
<1>1. registry' = registry /\ thread[t].pc \in Unsettled
  BY DEF StopStep, StopCanExecute, StopWait, StopKill, StopWaitKilled, Stopped,
         Unsettled, At
<1>2. PICK pc \in {AfterStop(t), "wait", "kill", "waitKilled", "stopped"} : Goto(t, pc)
  BY DEF StopStep, StopCanExecute, StopWait, StopKill, StopWaitKilled, Stopped
<1>3. /\ \A u \in Threads : u # t => thread'[u] = thread[u]
      /\ thread'[t].pc = pc /\ thread'[t].op = thread[t].op
  BY <1>2, GotoMoves, GotoKeepsOp
<1>4. t \in Handlers => pc \in Unsettled
  BY DEF AfterStop, Unsettled
<1>5. t \notin Handlers => obj'.enabled = obj.enabled
  <2>1. CASE StopCanExecute(t)
    <3>1. SUFFICES ASSUME t \notin Handlers
                   PROVE  obj'.enabled = obj.enabled
      OBVIOUS
    <3> DEFINE asked == [obj EXCEPT !.enabled = @ /\ t \notin Handlers]
    <3>2. asked \in ObjectType /\ asked.enabled = obj.enabled
      BY <3>1 DEF TypeOK, ObjectType
    <3>3. obj' \in {asked, [asked EXCEPT !.state = "Deactivating"]}
      BY <2>1 DEF StopCanExecute
    <3> HIDE DEF asked
    <3> QED
      BY <3>2, <3>3 DEF ObjectType
  <2>2. CASE ~StopCanExecute(t)
    BY <2>2 DEF StopStep, StopWait, StopKill, StopWaitKilled, Stopped, TypeOK,
                ObjectType
  <2> QED
    BY <2>1, <2>2
<1>6. t \in Handlers => pc \notin Starting /\ pc # "load"
  BY DEF AfterStop, Starting
<1> QED
  BY <1>1, <1>3, <1>4, <1>5, <1>6, InTurnMoves DEF Unsettled

\* Nothing else touches the flag or the registry's setting.
LEMMA RestInTurn ==
    ASSUME TypeOK, SerialInv,
           \/ \E h \in Handlers : PatchPreset(h) \/ PatchPush(h)
           \/ CheckStep
           \/ \E q \in Patchers : PatchStep(q) \/ PatchProgress(q)
           \/ \E p \in Pids : ProcessStep(p)
           \/ Age \/ FallSilent \/ Unlimit \/ PatchStalls \/ UNCHANGED vars
    PROVE  SerialInv'
<1> USE HandlersAreThreads
<1>1. ASSUME NEW h \in Handlers, PatchPreset(h) \/ PatchPush(h)
      PROVE  SerialInv'
  <2>1. registry' = registry /\ thread[h].pc \in {"preset", "push"}
    BY <1>1 DEF PatchPreset, PatchPush, At
  <2>2. obj'.enabled = obj.enabled
    BY <1>1 DEF PatchPreset, PatchPush, TypeOK, ObjectType
  <2>3. /\ \A u \in Threads : u # h => thread'[u] = thread[u]
        /\ \/ thread'[h].op = thread[h].op /\ thread'[h].pc = "push"
           \/ thread'[h].op = "none" /\ thread'[h].pc \in {"idle", "synCache"}
    BY <1>1, GotoMoves, GotoKeepsOp, ReturnMoves, ReturnForgets
       DEF PatchPreset, PatchPush
  <2> QED
    BY <2>1, <2>2, <2>3, InTurnMoves DEF Starting, Unsettled
<1>2. CASE CheckStep
  <2>1. registry'.setting = registry.setting
    BY <1>2 DEF CheckStep, CheckServer, Reconcile, CheckZombie, CheckAutoStart,
                SynCache, TypeOK
  <2>2. obj'.enabled = obj.enabled
    <3>1. UNCHANGED obj \/ obj' = [obj EXCEPT !.state = "Inactive"]
      BY <1>2 DEF CheckStep, CheckServer, Reconcile, CheckZombie, CheckAutoStart,
                  SynCache
    <3> QED
      BY <3>1 DEF TypeOK, ObjectType
  <2>3. \A u \in Threads : u # KeepAlive => thread'[u] = thread[u]
    BY <1>2 DEF CheckStep, CheckServer, Reconcile, CheckZombie, CheckAutoStart,
                SynCache, Goto, TypeOK
  <2> QED
    BY <2>1, <2>2, <2>3, InTurnMoves
<1>3. ASSUME NEW q \in Patchers, PatchStep(q) \/ PatchProgress(q)
      PROVE  SerialInv'
  <2>1. UNCHANGED <<thread, registry>> /\ obj'.enabled = obj.enabled
    BY <1>3 DEF PatchStep, PatchPop, PatchCanExecute, PatchExecute, PatchRestore,
                PatchProgress, TypeOK, ObjectType
  <2> QED
    BY <2>1, InTurnStays
<1>4. ASSUME NEW p \in Pids, ProcessStep(p)
      PROVE  SerialInv'
  <2>1. UNCHANGED <<thread, registry>> /\ obj'.enabled = obj.enabled
    BY <1>4 DEF ProcessStep, keepAlive, keepActiving, Exit, Beat, TypeOK, ObjectType
  <2> QED
    BY <2>1, InTurnStays
<1>5. CASE Age \/ FallSilent \/ Unlimit \/ PatchStalls \/ UNCHANGED vars
  <2>1. UNCHANGED <<thread, registry>> /\ obj'.enabled = obj.enabled
    BY <1>5 DEF Age, FallSilent, Unlimit, PatchStalls, vars, TypeOK, ObjectType
  <2> QED
    BY <2>1, InTurnStays
<1> QED
  BY <1>1, <1>2, <1>3, <1>4, <1>5

\* Requests that come in turn keep the flag in step with the registry.
LEMMA SerialInvariant ==
    ASSUME "outage" \notin Faults
    PROVE  Spec /\ Serial => []SerialInv
<1> USE HandlersAreThreads
<1>1. ASSUME Init
      PROVE  SerialInv
  <2>1. \A h \in Handlers : thread[h].pc = "idle" /\ thread[h].op = "none"
    BY <1>1 DEF Init
  <2>2. obj.enabled = (registry.setting = "active")
    BY <1>1 DEF Init
  <2> QED
    BY <2>1, <2>2 DEF SerialInv, OneRequest, AsksRight, Settled, Starting, At
<1>2. ASSUME TypeOK, SerialInv, [Next]_vars, [InTurn]_vars
      PROVE  SerialInv'
  <2>1. CASE UNCHANGED vars
    BY <1>2, <2>1, RestInTurn
  <2>2. ASSUME NEW h \in Handlers, Request(h)
        PROVE  SerialInv'
    <3>1. requests' # requests
      BY <1>2, <2>2 DEF Request, TypeOK
    <3>2. InTurn
      BY <1>2, <3>1 DEF vars
    <3> QED
      BY <1>2, <2>2, <3>2, RequestInTurn
  <2>3. ASSUME NEW h \in Handlers, HandlerStep(h)
        PROVE  SerialInv'
    BY <1>2, <2>3, LoadInTurn, RestInTurn DEF HandlerStep
  <2>4. ASSUME NEW t \in Threads, StartStep(t) \/ StopStep(t)
        PROVE  SerialInv'
    BY <1>2, <2>4, StartInTurn, StopInTurn
  <2>5. CASE \/ CheckStep
             \/ \E q \in Patchers : PatchStep(q)
             \/ \E p \in Pids : ProcessStep(p)
             \/ ClockStep
    BY <1>2, <2>5, RestInTurn DEF ClockStep
  <2> QED
    BY <1>2, <2>1, <2>2, <2>3, <2>4, <2>5 DEF Next
<1> QED
  BY <1>1, <1>2, TypeCorrect, PTL DEF Spec, Serial

\* Between requests that come in turn the flag agrees with the registry.
THEOREM EnabledInTurn ==
    ASSUME "outage" \notin Faults
    PROVE  Spec /\ Serial => []EnabledAgrees
<1>1. SerialInv => EnabledAgrees
  <2>1. SUFFICES ASSUME SerialInv, \A h \in Handlers : thread[h].pc = "idle"
                 PROVE  obj.enabled <=> registry.setting = "active"
    BY DEF EnabledAgrees, At
  <2>2. \A h \in Handlers : thread[h].pc \notin Unsettled
    BY <2>1 DEF Unsettled
  <2> QED
    BY <2>1, <2>2 DEF SerialInv, Settled
<1> QED
  BY <1>1, SerialInvariant, PTL

\* A single handler takes them in turn.
THEOREM EnabledOneHandler ==
    ASSUME "outage" \notin Faults, NEW h, Handlers = {h}
    PROVE  Spec => []EnabledAgrees
<1>1. InTurn
  BY DEF InTurn, Request
<1> QED
  BY <1>1, EnabledInTurn, PTL DEF Serial
=============================================================================
