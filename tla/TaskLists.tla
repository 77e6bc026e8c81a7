----------------------------- MODULE TaskLists -----------------------------
(***************************************************************************)
(* The task lists of tarsAdminRegistry                                     *)
(* (src/AdminRegistryServer/ExecuteTask.cpp): an operator's request to     *)
(* start, stop, restart or patch one server on several nodes becomes a     *)
(* TaskList, whose threads prepare the package and then carry out one item *)
(* per node, one after the other (TaskListSerial), all at once             *)
(* (TaskListParallel), or in batches of EachNum whose nodes are taken out  *)
(* of the server's traffic first (TaskListElegant).  A new list for a      *)
(* server cancels the elegant list that is running for it, and             *)
(* ExecuteTask's own thread deletes lists that are too old.                *)
(*                                                                         *)
(* One server; item i of every list is the server's node i, and a list's   *)
(* items all have the same command.  A task number is used once.  Time is  *)
(* abstract: a list may be too old as soon as its package is prepared,     *)
(* which is assumed to take less than the list's 300 or 600 seconds.       *)
(*                                                                         *)
(* X_Wrong is X with a plausible mistake, kept to see what it breaks.      *)
(***************************************************************************)
EXTENDS Naturals, FiniteSets

CONSTANTS
    Tasks,      \* the task lists that may be requested
    NoTask,     \* no list
    Len,        \* the number of a list's items
    EachNum,    \* TaskReq::eachNum, the size of an elegant list's batches
    MaxThreads, \* bound on a list's worker threads (5)
    Kinds,      \* the kinds of list in this instance
    Commands,   \* the commands in this instance
    DbFails     \* whether updates of the flow state may fail

\* patch: patch_tars.  gracePatch: grace_patch_tars, and patch_tars of a backup.
\* plain: start, stop, undeploy_tars and commands that are not supported.
ASSUME TaskListsAssumption ==
    /\ NoTask \notin Tasks
    /\ Len \in Nat \ {0} /\ EachNum \in Nat \ {0} /\ MaxThreads \in Nat \ {0}
    /\ Kinds \subseteq {"serial", "parallel", "elegant", "elegantSerial"}
    /\ Commands \subseteq {"patch", "gracePatch", "restart", "plain"}
    /\ DbFails \in BOOLEAN

VARIABLES
    list,      \* the TaskLists
    known,     \* ExecuteTask::_task
    elegant,   \* _server2ElegantTask's entry for the server
    deleting,  \* the list ExecuteTask::run deletes, holding ExecuteTask's lock
    flow       \* the nodes whose flow_state is active

vars == <<list, known, elegant, deleting, flow>>

Items == 1..Len

\* EMTaskItemStatus; STARTING is RUNNING, past the stop of a restart.
ItemStatus == {"NOT_START", "PREPARE", "PAUSE_FLOW", "RUNNING", "STARTING",
               "SUCCESS", "FAILED", "CANCEL"}

\* pc: where the list's preparing thread and then its master are.  next: the first
\* item they have not come to.  old: the list addTaskReq cancels.  jobs: the items
\* in the worker pool's queue.
ListType ==
    [kind : Kinds \cup {"none"}, command : Commands \cup {"none"},
     pc : {"none", "add", "prepare", "fail", "serial", "parallel", "batch",
           "flow", "wait", "done"},
     old : Tasks \cup {NoTask}, next : 1..(Len + EachNum), jobs : SUBSET Items,
     item : [Items -> ItemStatus], cancelled : BOOLEAN, finished : BOOLEAN]

TypeOK ==
    /\ list \in [Tasks -> ListType]
    /\ known \subseteq Tasks
    /\ elegant \in Tasks \cup {NoTask} /\ deleting \in Tasks \cup {NoTask}
    /\ flow \subseteq Items

Init ==
    /\ list = [t \in Tasks |->
                 [kind |-> "none", command |-> "none", pc |-> "none",
                  old |-> NoTask, next |-> 1, jobs |-> {},
                  item |-> [i \in Items |-> "NOT_START"],
                  cancelled |-> FALSE, finished |-> FALSE]]
    /\ known = {} /\ elegant = NoTask /\ deleting = NoTask
    /\ flow = Items

At(t, pc) == list[t].pc = pc
IsElegant(t) == list[t].kind \in {"elegant", "elegantSerial"}
IsPatch(t) == list[t].command \in {"patch", "gracePatch"}
Restarts(t) == list[t].command \in {"patch", "restart"}

InProgress(t) == {i \in Items : list[t].item[i] \in {"RUNNING", "STARTING"}}
Ended(s) == s \in {"SUCCESS", "FAILED", "CANCEL"}

\* updateServerFlowState, updateServerFlowStateOne: nobody looks at a failure.
UpdateFlow(f) == flow' \in {f} \cup (IF DbFails THEN {flow} ELSE {})

Threads(t) ==
    LET n == CASE list[t].kind = "serial"   -> 1
               [] list[t].kind = "parallel" -> Len
               [] OTHER                     -> EachNum
    IN  IF n < MaxThreads THEN n ELSE MaxThreads

-----------------------------------------------------------------------------
(***************************************************************************)
(* ExecuteTask                                                             *)
(***************************************************************************)

\* The locked part of addTaskReq: the list is entered, and an elegant list of the
\* server that has not finished is to be cancelled.
addTaskReq(t) ==
    /\ At(t, "none")
    /\ deleting = NoTask
    /\ \E k \in Kinds, c \in Commands :
         LET running == IF elegant \in known /\ ~list[elegant].finished
                        THEN elegant ELSE NoTask
         IN  /\ list' = [list EXCEPT ![t].kind = k, ![t].command = c,
                                     ![t].pc = "add", ![t].old = running]
             /\ elegant' = IF k \in {"elegant", "elegantSerial"} THEN t ELSE running
    /\ known' = known \cup {t}
    /\ UNCHANGED <<deleting, flow>>

Cancelled_Wrong(l) ==
    [l EXCEPT !.item = [i \in Items |-> IF @[i] = "NOT_START" THEN "CANCEL" ELSE @[i]]]

\* TaskList::cancelTask: only items that nobody has touched are cancelled, and only
\* if there are any is the list.
Cancelled(l) ==
    LET untouched == {i \in Items : l.item[i] = "NOT_START"}
    IN  [l EXCEPT !.item = [i \in Items |-> IF i \in untouched THEN "CANCEL" ELSE @[i]],
                  !.cancelled = @ \/ untouched # {}]

\* The rest of addTaskReq: cancelTask, if the list is still known, and execute.
execute(t) ==
    LET o == list[t].old
        started == [list EXCEPT ![t].pc = "prepare", ![t].old = NoTask]
    IN  /\ At(t, "add")
        /\ o # NoTask => deleting = NoTask
        /\ list' = IF o \in known THEN [started EXCEPT ![o] = Cancelled(@)] ELSE started
        /\ UNCHANGED <<known, elegant, deleting, flow>>

\* ExecuteTask::run deletes a list that is too old: its worker pool drops what it has
\* not begun, its destructor waits for the threads, and the lock is held.
Expire(t) ==
    /\ t \in known /\ deleting = NoTask
    /\ list[t].pc \notin {"add", "prepare", "fail"}
    /\ known' = known \ {t}
    /\ deleting' = t
    /\ list' = [list EXCEPT ![t].jobs = IF list[t].kind = "parallel" THEN {} ELSE @]
    /\ UNCHANGED <<elegant, flow>>

Delete(t) ==
    /\ deleting = t
    /\ list[t].pc \in {"parallel", "done"}
    /\ InProgress(t) = {}
    /\ deleting' = NoTask
    /\ UNCHANGED <<list, known, elegant, flow>>

-----------------------------------------------------------------------------
(***************************************************************************)
(* TaskList: the preparing thread                                          *)
(***************************************************************************)

\* prepareFile comes to one item of a patch after the other, whatever its status;
\* prepareInfo_inner may fail.
prepareFile(t) ==
    LET i == list[t].next
    IN  /\ At(t, "prepare") /\ IsPatch(t) /\ i <= Len
        /\ \E pc \in {"prepare", "fail"} :
             list' = [list EXCEPT ![t].item[i] = "PREPARE", ![t].pc = pc,
                        ![t].next = IF pc = "fail" THEN 1 ELSE i + 1]
        /\ UNCHANGED <<known, elegant, deleting, flow>>

PrepareFails_Wrong(t) ==
    /\ At(t, "prepare") /\ IsPatch(t) /\ list[t].next > Len
    /\ list' = [list EXCEPT ![t].pc = "done", ![t].next = 1]
    /\ UNCHANGED <<known, elegant, deleting, flow>>

\* preparePatch_inner fails, ...
PrepareFails(t) ==
    /\ At(t, "prepare") /\ IsPatch(t) /\ list[t].next > Len
    /\ list' = [list EXCEPT ![t].pc = "fail", ![t].next = 1]
    /\ UNCHANGED <<known, elegant, deleting, flow>>

\* ... and every item has failed; the list does not count as finished.
FailItem(t) ==
    LET i == list[t].next
    IN  /\ At(t, "fail")
        /\ list' = [list EXCEPT ![t].item[i] = "FAILED", ![t].next = i + 1,
                                ![t].pc = IF i = Len THEN "done" ELSE "fail"]
        /\ UNCHANGED <<known, elegant, deleting, flow>>

\* All is prepared.  An elegant list that is also serial is over at once.
onExecute(t) ==
    /\ At(t, "prepare") /\ (IsPatch(t) => list[t].next > Len)
    /\ list' = [list EXCEPT ![t].next = 1,
         ![t].pc = CASE list[t].kind = "elegant"       -> "batch"
                     [] list[t].kind = "elegantSerial" -> "done"
                     [] OTHER                          -> list[t].kind,
         ![t].jobs = IF list[t].kind = "parallel" THEN Items ELSE {},
         ![t].finished = list[t].kind = "elegantSerial"]
    /\ UNCHANGED <<known, elegant, deleting, flow>>

-----------------------------------------------------------------------------
(***************************************************************************)
(* The items                                                               *)
(***************************************************************************)

\* A worker takes a job: doTaskParallel, or TaskListParallel::doTask.
Begin(t) ==
    \E i \in list[t].jobs :
        /\ Cardinality(InProgress(t)) < Threads(t)
        /\ list' = [list EXCEPT ![t].item[i] = "RUNNING", ![t].jobs = @ \ {i}]
        /\ UNCHANGED <<known, elegant, deleting, flow>>

\* TaskListSerial carries an item out when the one before has succeeded.
Succeeding_Wrong(t, i) ==
    list[t].kind = "serial" /\ i > 1 => list[t].item[i - 1] # "CANCEL"

Succeeding(t, i) ==
    list[t].kind = "serial" /\ i > 1 => list[t].item[i - 1] = "SUCCESS"

\* restartServer_inner has stopped the server and turns its flow on again.
Restart(t) ==
    \E i \in InProgress(t) :
        /\ Restarts(t) /\ Succeeding(t, i)
        /\ list[t].item[i] = "RUNNING"
        /\ list' = [list EXCEPT ![t].item[i] = "STARTING"]
        /\ UpdateFlow(flow \cup {i})
        /\ UNCHANGED <<known, elegant, deleting>>

\* executeSingleTask ends: the patch, the stop or the start may have failed.
End_Wrong(t) ==
    \E i \in InProgress(t), s \in {"SUCCESS", "FAILED"} :
        /\ Succeeding(t, i)
        /\ list' = [list EXCEPT ![t].item[i] = s]
        /\ UNCHANGED <<known, elegant, deleting, flow>>

End(t) ==
    \E i \in InProgress(t), s \in {"SUCCESS", "FAILED"} :
        /\ Succeeding(t, i)
        /\ s = "SUCCESS" /\ Restarts(t) => list[t].item[i] = "STARTING"
        /\ list' = [list EXCEPT ![t].item[i] = s]
        /\ UNCHANGED <<known, elegant, deleting, flow>>

-----------------------------------------------------------------------------
(***************************************************************************)
(* TaskListSerial::doTask                                                  *)
(***************************************************************************)
SerialBegin(t) ==
    LET i == list[t].next
    IN  /\ At(t, "serial") /\ InProgress(t) = {} /\ i <= Len
        /\ list' = [list EXCEPT ![t].item[i] = "RUNNING", ![t].next = i + 1]
        /\ UNCHANGED <<known, elegant, deleting, flow>>

SerialCancel(t) ==
    \E i \in InProgress(t) :
        /\ ~Succeeding(t, i)
        /\ list' = [list EXCEPT ![t].item[i] = "CANCEL"]
        /\ UNCHANGED <<known, elegant, deleting, flow>>

SerialFinish(t) ==
    /\ At(t, "serial") /\ InProgress(t) = {} /\ list[t].next > Len
    /\ list' = [list EXCEPT ![t].pc = "done", ![t].finished = TRUE]
    /\ UNCHANGED <<known, elegant, deleting, flow>>

-----------------------------------------------------------------------------
(***************************************************************************)
(* TaskListElegant::doTask                                                 *)
(***************************************************************************)
Batch(t) == {i \in Items : list[t].next <= i /\ i < list[t].next + EachNum}

\* The next batch, unless the list is cancelled: its items pause, ...
BatchBegin(t) ==
    /\ At(t, "batch") /\ ~list[t].cancelled /\ list[t].next <= Len
    /\ list' = [list EXCEPT ![t].pc = "flow",
                  ![t].item = [i \in Items |->
                                 IF i \in Batch(t) THEN "PAUSE_FLOW" ELSE @[i]]]
    /\ UNCHANGED <<known, elegant, deleting, flow>>

\* ... updateServerFlowState takes their nodes out of the traffic, and they go to
\* the pool.
BatchPause(t) ==
    /\ At(t, "flow")
    /\ list' = [list EXCEPT ![t].pc = "wait", ![t].jobs = Batch(t),
                            ![t].next = @ + EachNum]
    /\ UpdateFlow(flow \ Batch(t))
    /\ UNCHANGED <<known, elegant, deleting>>

\* waitForAllDone
Idle_Wrong(t) == list[t].jobs = {}
Idle(t) == list[t].jobs = {} /\ InProgress(t) = {}

BatchWait(t) ==
    /\ At(t, "wait") /\ Idle(t)
    /\ list' = [list EXCEPT ![t].pc = "batch"]
    /\ UNCHANGED <<known, elegant, deleting, flow>>

BatchFinish_Wrong(t) ==
    /\ At(t, "batch")
    /\ list[t].cancelled \/ list[t].next + EachNum > Len
    /\ list' = [list EXCEPT ![t].pc = "done", ![t].finished = TRUE]
    /\ UNCHANGED <<known, elegant, deleting, flow>>

BatchFinish(t) ==
    /\ At(t, "batch")
    /\ list[t].cancelled \/ list[t].next > Len
    /\ list' = [list EXCEPT ![t].pc = "done", ![t].finished = TRUE]
    /\ UNCHANGED <<known, elegant, deleting, flow>>

-----------------------------------------------------------------------------
Prepare(t) == prepareFile(t) \/ PrepareFails(t) \/ FailItem(t) \/ onExecute(t)
Work(t) == Begin(t) \/ Restart(t) \/ End(t)
Serial(t) == SerialBegin(t) \/ SerialCancel(t) \/ SerialFinish(t)
Elegant(t) == BatchBegin(t) \/ BatchPause(t) \/ BatchWait(t) \/ BatchFinish(t)

Next ==
    \E t \in Tasks :
        \/ addTaskReq(t) \/ execute(t) \/ Expire(t) \/ Delete(t)
        \/ Prepare(t) \/ Work(t) \/ Serial(t) \/ Elegant(t)

Spec == Init /\ [][Next]_vars

\* The threads of every list run, as does ExecuteTask's: each call they make is
\* answered or times out.  Nobody need ask for a list.
Run(t) == execute(t) \/ Delete(t) \/ Prepare(t) \/ Work(t) \/ Serial(t) \/ Elegant(t)

FairSpec == Spec /\ \A t \in Tasks : WF_vars(Run(t))

-----------------------------------------------------------------------------
(***************************************************************************)
(* Properties                                                              *)
(***************************************************************************)

\* An elegant list takes at most one batch of nodes out of service at a time,
\* however its workers are scheduled: what it has in hand are neighbours.
BatchesApart ==
    \A t \in Tasks : list[t].kind = "elegant" =>
        \A i, j \in InProgress(t) \cup {k \in Items : list[t].item[k] = "PAUSE_FLOW"} :
            (i - 1) \div EachNum = (j - 1) \div EachNum

\* A serial list goes no further than its first failure: when its package was
\* prepared, nothing is carried out on a later node.
FailureStops ==
    \A t \in Tasks : list[t].kind = "serial" /\ (At(t, "serial") \/ list[t].finished) =>
        \A i, j \in Items : i < j /\ list[t].item[i] = "FAILED" =>
            list[t].item[j] \notin {"STARTING", "SUCCESS", "FAILED"}

\* As long as the database works, a node without traffic is one that an elegant list
\* is at work on, or that its item left so: it failed, or its command does not
\* restart the server.
FlowHeldBack ==
    \A n \in Items \ flow : \E t \in Tasks :
        /\ list[t].kind = "elegant"
        /\ \/ list[t].item[n] \in {"PAUSE_FLOW", "RUNNING", "STARTING", "FAILED"}
           \/ list[t].item[n] = "SUCCESS" /\ ~Restarts(t)

\* The list will begin another batch.
Rolling(t) ==
    /\ list[t].kind = "elegant" /\ ~list[t].cancelled
    /\ \/ list[t].pc \in {"batch", "wait"} /\ list[t].next <= Len
       \/ At(t, "flow") /\ list[t].next + EachNum <= Len

ToBeCancelled(t) == \E u \in Tasks : list[u].old = t

\* Of the elegant lists that patch nothing only one rolls through the nodes: the
\* others are cancelled, or about to be.
OneRolling ==
    \A s, t \in {u \in Tasks : Rolling(u) /\ ~IsPatch(u) /\ ~ToBeCancelled(u)} : s = t

\* The same of all elegant lists.
OneRollingAtAll ==
    \A s, t \in {u \in Tasks : Rolling(u) /\ ~ToBeCancelled(u)} : s = t

\* A list that counts as finished has an outcome for every item, unless it was
\* cancelled or was never carried out: clients stop asking.
FinishedIsDone ==
    \A t \in Tasks :
        list[t].finished /\ ~list[t].cancelled /\ list[t].kind # "elegantSerial" =>
            \A i \in Items : Ended(list[t].item[i])

\* Every list comes to an end: it finishes, each of its items has an outcome, or
\* it was so old that it has been deleted.
ListEnds ==
    \A t \in Tasks :
        t \in known ~> \/ list[t].finished
                       \/ \A i \in Items : Ended(list[t].item[i])
                       \/ t \notin known
=============================================================================
