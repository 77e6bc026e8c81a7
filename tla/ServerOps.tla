----------------------------- MODULE ServerOps ------------------------------
(***************************************************************************)
(* What the operations of tarsAdminRegistry do to a server of a node: its  *)
(* row in the database, the node's object of it, and the descriptor the    *)
(* node keeps in a shared memory cache for when no registry answers.       *)
(*                                                                         *)
(* An operation is a sequence of steps; steps of several operations, the   *)
(* keep-alive thread and restarts of tarsnode come in any order.  How a    *)
(* command runs on the node is in ServerLifecycle, how it gets there in    *)
(* NodePush: here a command is executed in one step, or it is given up and *)
(* may be executed later or never.                                         *)
(***************************************************************************)
EXTENDS Naturals, Sequences

CONSTANTS
  Client,
  MaxOps,    \* bound: operations
  MaxFaults  \* bound: crashes, restarts, given-up commands, failing writes

VARIABLES
  row,      \* setting_state of the server's row
  cache,    \* the descriptor in g_serverInfoHashmap
  object,   \* the node's ServerObject, when there is one
  process,  \* whether the server's process is there
  linked,   \* whether the node gets answers from tarsregistry
  alone,    \* whether the node has no row of another server
  op,       \* the operation of each client
  late,     \* commands given up, still on their way
  settled,  \* ledger: what the last operation left, when nothing disturbed it
  ops, faults

vars == <<row, cache, object, process, linked, alone, op, late, settled, ops, faults>>

None == "none"
Setting == {"active", "inactive"}
NoObject == [desc |-> None, enabled |-> FALSE]
NoOp == [what |-> None, todo |-> <<>>, clean |-> TRUE, left |-> "any"]
Command == {"start", "stop", "destroy"}
Operation == Command \cup {"restart", "uninstall", "undeploy", "insert"}

TypeOK ==
  /\ row \in Setting \cup {None} /\ cache \in Setting \cup {None}
  /\ object \in {NoObject} \cup [desc : Setting, enabled : BOOLEAN]
  /\ process \in BOOLEAN /\ linked \in BOOLEAN /\ alone \in BOOLEAN
  /\ late \subseteq Command /\ settled \in {"any", "started", "stopped"}
  /\ ops \in 0 .. MaxOps /\ faults \in 0 .. MaxFaults
  /\ \A c \in Client : op[c].what \in Operation \cup {None} /\ op[c].clean \in BOOLEAN

\* A server that was deployed and has never been started.
Init ==
  /\ row = "inactive" /\ cache = "inactive"
  /\ object = [desc |-> "inactive", enabled |-> FALSE] /\ process = FALSE
  /\ linked = TRUE /\ alone \in BOOLEAN
  /\ op = [c \in Client |-> NoOp] /\ late = {} /\ settled = "any"
  /\ ops = 0 /\ faults = 0

Busy(c) == op[c].what # None

-----------------------------------------------------------------------------
\* The steps of each operation: what is written to the row, what the node is told.
StartServer     == <<"active", "start">>
StopServer_Wrong == <<"stop", "inactive">>
StopServer      == <<"inactive", "stop">>
DestroyServer   == <<"inactive", "destroy">>
RestartServer   == <<"stop", "active", "start">>
UninstallServer == <<"look", "inactive", "destroy", "delete">>
Undeploy        == StopServer \o <<"delete">>

Plan(what) ==
  CASE what = "start"     -> StartServer
    [] what = "stop"      -> StopServer
    [] what = "destroy"   -> DestroyServer
    [] what = "restart"   -> RestartServer
    [] what = "uninstall" -> UninstallServer
    [] what = "undeploy"  -> Undeploy
    [] what = "insert"    -> <<"insert">>

\* Operations that overlap disturb each other, and so does a restart of tarsnode.
Begin(c) ==
  /\ ~Busy(c) /\ ops < MaxOps /\ ops' = ops + 1
  /\ \E what \in Operation :
       op' = [d \in Client |->
                IF d = c THEN [what |-> what, todo |-> Plan(what),
                               clean |-> ~\E e \in Client : Busy(e), left |-> "any"]
                ELSE [op[d] EXCEPT !.clean = FALSE]]
  /\ settled' = "any"
  /\ UNCHANGED <<row, cache, object, process, linked, alone, late, faults>>

Fault == faults < MaxFaults /\ faults' = faults + 1

\* The operation goes on with its next step, or it is over.
Proceed(c, clean, left) ==
  LET o == [op[c] EXCEPT !.clean = @ /\ clean, !.left = left, !.todo = Tail(@)]
  IN  IF o.todo = <<>>
      THEN /\ op' = [op EXCEPT ![c] = NoOp]
           /\ settled' = IF o.clean /\ late = {} THEN left ELSE "any"
      ELSE op' = [op EXCEPT ![c] = o] /\ UNCHANGED settled
Break(c) == op' = [op EXCEPT ![c] = NoOp] /\ UNCHANGED settled

At(c, step) == Busy(c) /\ Head(op[c].todo) = step

-----------------------------------------------------------------------------
Node == UNCHANGED <<cache, object, process, linked, alone, late>>

\* Nobody looks at what updateServerState returns.
updateServerState(c, setting) ==
  /\ At(c, setting)
  /\ \/ /\ row' = IF row = None THEN None ELSE setting
        /\ Proceed(c, row # None, op[c].left) /\ UNCHANGED faults
     \/ Fault /\ Proceed(c, FALSE, "any") /\ UNCHANGED row
  /\ Node /\ UNCHANGED ops

insertServerConf(c) ==
  /\ At(c, "insert")
  /\ \E s \in Setting : row' = IF row = None THEN s ELSE row
  /\ Break(c) /\ Node /\ UNCHANGED <<ops, faults>>

\* uninstallServer and undeploy_inner delete the row whatever became of the
\* command before.
deleteServer(c) ==
  /\ At(c, "delete")
  /\ row' = None /\ Proceed(c, TRUE, IF cache # "active" THEN op[c].left ELSE "any")
  /\ Node /\ UNCHANGED <<ops, faults>>

\* uninstallServer asks the node for the state, and goes on when it is Inactive.
getServerState(c) ==
  /\ At(c, "look")
  /\ IF object # NoObject /\ ~process THEN Proceed(c, TRUE, "any") ELSE Break(c)
  /\ UNCHANGED <<row, ops, faults>> /\ Node

-----------------------------------------------------------------------------
\* getServerFromRegistry fills the cache, getServerFromCache reads it.
FromRegistry == IF linked THEN row ELSE None
Load(enableCache) ==
  IF FromRegistry # None THEN FromRegistry ELSE IF enableCache THEN cache ELSE None
Filled == IF FromRegistry # None THEN FromRegistry ELSE cache
ByDesc(d) == [desc |-> d, enabled |-> d = "active"]

\* ok: what the node answers.  An activation may fail; the server stays enabled.
startServer(ok) ==
  LET d == Load(TRUE)
  IN  /\ cache' = Filled
      /\ IF d = None
         THEN /\ ~ok /\ UNCHANGED process
              /\ object' = IF object = NoObject THEN NoObject ELSE [object EXCEPT !.enabled = TRUE]
         ELSE /\ object' = [desc |-> d, enabled |-> TRUE]
              /\ process' = (process \/ ok)

\* The descriptor is loaded again behind the stop, without the cache, whether or
\* not the stop was refused.
stopServer(ok) == \E refused \in BOOLEAN :
  /\ ok = (object # NoObject /\ ~refused /\ Load(FALSE) # None)
  /\ cache' = Filled
  /\ process' = (process /\ (object = NoObject \/ refused))
  /\ IF Load(FALSE) # None
     THEN object' = ByDesc(Load(FALSE))
     ELSE object' = [object EXCEPT !.enabled = FALSE]

destroyServer(ok) ==
  /\ ok = (object # NoObject /\ ~process)
  /\ object' = IF ok THEN NoObject ELSE object
  /\ UNCHANGED <<cache, process>>

Run(command, ok) ==
  CASE command = "start" -> startServer(ok)
    [] command = "stop" -> stopServer(ok)
    [] command = "destroy" -> destroyServer(ok)

\* What an operation that ends with a command leaves for good: a started server
\* has to have its descriptor from the registry, and one that is gone must not be
\* active in the cache.
Left(command, ok) ==
  CASE ok /\ command = "start" /\ FromRegistry = "active"  -> "started"
    [] ok /\ command = "stop"                               -> "stopped"
    [] ok /\ command = "destroy" /\ cache # "active"        -> "stopped"
    [] OTHER                                                -> "any"

\* restartServer ends with a stop that fails, the others go on.
Execute(c) == \E command \in Command, ok \in BOOLEAN :
  /\ At(c, command)
  /\ Run(command, ok)
  /\ IF op[c].what = "restart" /\ ~ok THEN Break(c) ELSE Proceed(c, ok, Left(command, ok))
  /\ UNCHANGED <<row, linked, alone, late, ops, faults>>

GiveUp(c) == \E command \in Command :
  /\ At(c, command) /\ Fault
  /\ late' \in {late, late \cup {command}}
  /\ IF op[c].what = "restart" THEN Break(c) ELSE Proceed(c, FALSE, "any")
  /\ UNCHANGED <<row, cache, object, process, linked, alone, ops>>

ExecuteLate == \E command \in late, ok \in BOOLEAN :
  /\ Run(command, ok) /\ late' = late \ {command}
  /\ op' = [c \in Client |-> [op[c] EXCEPT !.clean = FALSE]]
  /\ settled' = "any"
  /\ UNCHANGED <<row, linked, alone, ops, faults>>

-----------------------------------------------------------------------------
Still == UNCHANGED <<row, alone, late, settled, ops>>

\* tarsnode comes back: it loads all its servers from a registry and empties the
\* cache, or, when it gets none, takes those in the cache.
loadAllServers ==
  /\ Fault
  /\ LET answered == linked /\ (row # None \/ ~alone)
         d == IF answered THEN row ELSE cache
     IN  /\ cache' = IF answered THEN row ELSE cache
         /\ object' = IF d = None THEN NoObject ELSE ByDesc(d)
  /\ op' = [c \in Client |-> [op[c] EXCEPT !.clean = FALSE]]
  /\ UNCHANGED <<process, linked>> /\ Still

checkServer ==
  /\ ~process /\ object.desc = "active" /\ object.enabled
  /\ process' = TRUE
  /\ UNCHANGED <<cache, object, linked, op, faults>> /\ Still

Crash ==
  /\ process /\ process' = FALSE /\ Fault
  /\ UNCHANGED <<cache, object, linked, op>> /\ Still

Link ==
  /\ linked' = ~linked /\ (IF linked THEN Fault ELSE UNCHANGED faults)
  /\ UNCHANGED <<cache, object, process, op>> /\ Still

Next ==
  \/ \E c \in Client :
       \/ Begin(c) \/ insertServerConf(c) \/ deleteServer(c) \/ getServerState(c)
       \/ \E s \in Setting : updateServerState(c, s)
       \/ Execute(c) \/ GiveUp(c)
  \/ ExecuteLate \/ loadAllServers \/ checkServer \/ Crash \/ Link

Spec == Init /\ [][Next]_vars

-----------------------------------------------------------------------------
\* What an operation was told to have done lasts, through crashes of the server
\* and restarts of tarsnode with and without a registry: a stopped, destroyed or
\* uninstalled server does not run again, a started one stays enabled.
AsOrdered ==
  /\ settled = "stopped" => ~process
  /\ settled = "started" => object.enabled /\ object.desc = "active"
=============================================================================
