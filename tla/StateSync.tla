----------------------------- MODULE StateSync -----------------------------
(***************************************************************************)
(* How the state of a server reaches the clients that look it up.          *)
(*                                                                         *)
(* A tarsnode keeps the state of its server (ServerObject) and tells the   *)
(* registry of every change: synState, a synchronous call until three in a *)
(* row have failed and an asynchronous one afterwards, and the periodic    *)
(* batch of the keep-alive thread (checkAlive, synStat).  tarsregistry     *)
(* writes the state to the database and remembers it in _mapServantStatus, *)
(* by which it skips the reports of a batch that say nothing new.  Its     *)
(* CheckNodeThread marks the nodes that have stopped beating, and their    *)
(* servers, inactive; its ReapThread reloads the lists that queries are    *)
(* answered from, all of them or only the rows changed lately.             *)
(*                                                                         *)
(* One server (application and name) is deployed on every node of Node.    *)
(* Time is counted in loads: a changed row is seen by the next Window      *)
(* incremental loads (LeastChangedTime1 / loadObjectsInterval1), and every *)
(* FullEvery-th load is a full one.                                        *)
(***************************************************************************)
EXTENDS Integers, FiniteSets

CONSTANTS
  Node,        \* the nodes the server is deployed on
  Direct,      \* slots for outstanding updateServer calls of one server
  AsyncAfter,  \* failed calls after which synState no longer waits (3)
  Window,      \* incremental loads that still select a changed row
  FullEvery,   \* a full load after that many loads
  ProtectRate, \* recoverProtectRate, in percent
  MaxFaults,   \* bound: failed statements, lost calls, restarts, and changes
               \* made by an operator, in a registry without recoverProtect
  MaxFaultsProtected \* and in one with it

ASSUME StateSyncAssumption ==
  /\ IsFiniteSet(Node) /\ Node # {}
  /\ Direct # {} /\ "batch" \notin Direct
  /\ AsyncAfter \in Nat /\ MaxFaults \in Nat /\ MaxFaultsProtected \in Nat
  /\ Window \in Nat \ {0} /\ FullEvery \in Nat \ {0}
  /\ ProtectRate \in 1 .. 100

VARIABLES
  up,        \* the tarsnode of the node runs
  state,     \* ServerObject::_state, as synState shows it: active or not
  noticed,   \* ServerObject::_noticed
  fails,     \* ServerObject::_noticeFailTimes, up to AsyncAfter
  calls,     \* the calls on their way, by node and slot
  beat,      \* a keepAlive of the node is in RegistryProcThread's queue
  node,      \* t_node_info: present_state, and whether the beat is recent
  present,   \* t_server_conf.present_state; "Gone" when there is no row
  enabled,   \* setting_state is active and flow_state is not inactive
  touched,   \* loads for which registry_timestamp still counts as recent
  status,    \* CDbHandle::_mapServantStatus
  objects,   \* CDbHandle::_objectsCache, the list each endpoint is in
  load,      \* the load ReapThread is in
  sinceFull, \* loads since the last full one
  booted,    \* ReapThread::init has returned, calls are served
  protect,   \* recoverProtect
  faults     \* faults and changes so far

nodeVars == <<up, state, noticed, fails>>
dbVars   == <<node, present, enabled, touched>>
cacheVars == <<status, objects, load, sinceFull, booted>>
vars == <<nodeVars, calls, beat, dbVars, cacheVars, protect, faults>>

ServerState == {"Active", "Inactive"}
Listing     == ServerState \cup {"None"}
Slot        == Direct \cup {"batch"}
Call == [stage : {"free", "sent", "filtered", "written", "ok", "error"},
         st : ServerState, owner : {"none", "sync", "async"}]
NoCall == [stage |-> "free", st |-> "Inactive", owner |-> "none"]
Bound == IF protect THEN MaxFaultsProtected ELSE MaxFaults
NoLoad == [stage |-> "idle", rows |-> [n \in Node |-> "None"], full |-> FALSE]

TypeOK ==
  /\ up \in [Node -> BOOLEAN] /\ state \in [Node -> ServerState]
  /\ noticed \in [Node -> BOOLEAN] /\ fails \in [Node -> 0 .. AsyncAfter]
  /\ calls \in [Node -> [Slot -> Call]] /\ beat \in [Node -> BOOLEAN]
  /\ node \in [Node -> [present : ServerState, fresh : BOOLEAN]]
  /\ present \in [Node -> ServerState \cup {"Gone"}]
  /\ enabled \in [Node -> BOOLEAN] /\ touched \in [Node -> 0 .. Window]
  /\ status \in [Node -> Listing] /\ objects \in [Node -> Listing]
  /\ load \in [stage : {"idle", "read"}, rows : [Node -> Listing],
               full : BOOLEAN]
  /\ sinceFull \in 0 .. FullEvery - 1 /\ booted \in BOOLEAN
  /\ protect \in BOOLEAN /\ faults \in 0 .. Bound

Init ==
  /\ up = [n \in Node |-> TRUE]
  /\ state = [n \in Node |-> "Inactive"]
  /\ noticed = [n \in Node |-> FALSE] /\ fails = [n \in Node |-> 0]
  /\ calls = [n \in Node |-> [c \in Slot |-> NoCall]]
  /\ beat = [n \in Node |-> FALSE]
  /\ node = [n \in Node |-> [present |-> "Active", fresh |-> TRUE]]
  /\ present = [n \in Node |-> "Inactive"]
  /\ enabled = [n \in Node |-> TRUE] /\ touched = [n \in Node |-> 0]
  /\ status = [n \in Node |-> "None"] /\ objects = [n \in Node |-> "None"]
  /\ load = NoLoad /\ sinceFull = 0 /\ booted = FALSE
  /\ protect \in BOOLEAN /\ faults = 0

Fault == faults < Bound /\ faults' = faults + 1
NoFault == faults' = faults

-----------------------------------------------------------------------------
(***************************************************************************)
(* The node: ServerObject and KeepAliveThread                              *)
(***************************************************************************)
Locked_Wrong(n) == FALSE

\* A synchronous call is made with the lock of the ServerObject held.
Locked(n) == \E c \in Direct : calls[n][c].owner = "sync"

OneMore(n) == IF fails[n] < AsyncAfter THEN fails[n] + 1 ELSE AsyncAfter

Told(n)    == noticed' = [noticed EXCEPT ![n] = TRUE]
              /\ fails' = [fails EXCEPT ![n] = 0]
NotTold(n) == noticed' = [noticed EXCEPT ![n] = FALSE]
              /\ fails' = [fails EXCEPT ![n] = OneMore(n)]

\* An asynchronous call counts as successful as soon as it is on its way.
synState(n, s) ==
  \E c \in Direct :
    /\ calls[n][c] = NoCall
    /\ LET waits == fails[n] < AsyncAfter
       IN  /\ calls' = [calls EXCEPT ![n][c] =
                          [stage |-> "sent", st |-> s,
                           owner |-> IF waits THEN "sync" ELSE "async"]]
           /\ IF waits THEN UNCHANGED <<noticed, fails>> ELSE Told(n)

SetState(n, s) ==
  /\ up[n] /\ ~Locked(n)
  /\ state[n] # s \/ ~noticed[n]
  /\ state' = [state EXCEPT ![n] = s]
  /\ synState(n, s)
  /\ UNCHANGED <<up, beat, dbVars, cacheVars, protect, faults>>

\* Commands also report a state that has not changed, and CommandStart makes
\* a server whose process is gone Activating without a report.
Report(n) ==
  /\ up[n] /\ ~Locked(n)
  /\ synState(n, state[n])
  /\ UNCHANGED <<up, state, beat, dbVars, cacheVars, protect, faults>>

SetQuietly(n) ==
  /\ up[n] /\ ~Locked(n) /\ state[n] = "Active"
  /\ state' = [state EXCEPT ![n] = "Inactive"]
  /\ UNCHANGED <<up, noticed, fails, calls, beat, dbVars, cacheVars, protect, faults>>

Free(n, c) == calls' = [calls EXCEPT ![n][c] = NoCall]

onUpdateServerResult(n, ret) == IF ret = "error" THEN NotTold(n) ELSE Told(n)

\* The answer.  synState goes on after onUpdateServerResult and takes the
\* call for a success whatever the registry has answered.
SyncAnswer(n, c) ==
  /\ calls[n][c].owner = "sync" /\ calls[n][c].stage \in {"ok", "error"}
  /\ Free(n, c) /\ Told(n)
  /\ UNCHANGED <<up, state, beat, dbVars, cacheVars, protect, faults>>

callback_updateServer(n, c) ==
  /\ calls[n][c].owner = "async" /\ calls[n][c].stage \in {"ok", "error"}
  /\ Free(n, c) /\ onUpdateServerResult(n, calls[n][c].stage)
  /\ UNCHANGED <<up, state, beat, dbVars, cacheVars, protect, faults>>

\* No answer in time: an exception at the node.  The call may have been
\* lost, or the registry may still be at it.
CallFails(n, c) ==
  /\ calls[n][c].owner \in {"sync", "async"}
  /\ \/ calls[n][c].stage = "sent" /\ Free(n, c)
     \/ /\ calls[n][c].stage \in {"sent", "written"}
        /\ calls' = [calls EXCEPT ![n][c].owner = "none"]
  /\ Fault /\ NotTold(n)
  /\ UNCHANGED <<up, state, beat, dbVars, cacheVars, protect>>

\* checkAlive notes the states, one server after the other, and synStat sends
\* them when it is through: a state may have changed again by the time the
\* registry looks at it.  Nothing is made of the answer.
synStat(n) ==
  /\ up[n] /\ ~Locked(n) /\ calls[n]["batch"] = NoCall
  /\ calls' = [calls EXCEPT ![n]["batch"] =
                 [stage |-> "sent", st |-> state[n], owner |-> "none"]]
  /\ UNCHANGED <<nodeVars, beat, dbVars, cacheVars, protect, faults>>

synStatFails(n) ==
  /\ calls[n]["batch"].stage = "sent"
  /\ Free(n, "batch") /\ Fault
  /\ UNCHANGED <<nodeVars, beat, dbVars, cacheVars, protect>>

reportAlive(n) ==
  /\ up[n] /\ booted /\ ~beat[n]
  /\ beat' = [beat EXCEPT ![n] = TRUE]
  /\ UNCHANGED <<nodeVars, calls, dbVars, cacheVars, protect, faults>>

\* tarsnode ends, with its machine or alone; the calls it made may still
\* arrive.  Started again it finds the server in whatever state it is in.
NodeLost(n) ==
  /\ up[n]
  /\ up' = [up EXCEPT ![n] = FALSE]
  /\ state' = [state EXCEPT ![n] = "Inactive"]
  /\ noticed' = [noticed EXCEPT ![n] = FALSE] /\ fails' = [fails EXCEPT ![n] = 0]
  /\ calls' = [calls EXCEPT ![n] =
                 [c \in Slot |-> IF calls[n][c].stage \in {"ok", "error"}
                                THEN NoCall ELSE [calls[n][c] EXCEPT !.owner = "none"]]]
  /\ UNCHANGED <<beat, dbVars, cacheVars, protect, faults>>

NodeBack(n) ==
  /\ ~up[n]
  /\ up' = [up EXCEPT ![n] = TRUE]
  /\ \E s \in ServerState : state' = [state EXCEPT ![n] = s]
  /\ UNCHANGED <<noticed, fails, calls, beat, dbVars, cacheVars, protect, faults>>

-----------------------------------------------------------------------------
(***************************************************************************)
(* The registry's handlers                                                 *)
(***************************************************************************)
\* MySQL renews registry_timestamp when a value of the row changes.
WritePresent(n, s) ==
  IF present[n] \in {"Gone", s} THEN UNCHANGED <<present, touched>>
  ELSE /\ present' = [present EXCEPT ![n] = s]
       /\ touched' = [touched EXCEPT ![n] = Window]

\* doUpdateServerStateBatch passes over a report that repeats the status.
FilterBatch(n) ==
  /\ booted /\ calls[n]["batch"].stage = "sent"
  /\ IF status[n] = calls[n]["batch"].st THEN Free(n, "batch")
     ELSE calls' = [calls EXCEPT ![n]["batch"].stage = "filtered"]
  /\ UNCHANGED <<nodeVars, beat, dbVars, cacheVars, protect, faults>>

\* Its statement; the status is left alone unless a row was affected.
WriteBatch(n) ==
  /\ booted /\ calls[n]["batch"].stage = "filtered"
  /\ \/ /\ WritePresent(n, calls[n]["batch"].st) /\ NoFault
        /\ IF present' # present
           THEN calls' = [calls EXCEPT ![n]["batch"].stage = "written"]
           ELSE Free(n, "batch")
     \/ Free(n, "batch") /\ Fault /\ UNCHANGED <<present, touched>>
  /\ UNCHANGED <<nodeVars, beat, node, enabled, cacheVars, protect>>

\* updateServerState: the statement, then the status.
WriteDirect(n, c) ==
  /\ booted /\ calls[n][c].stage = "sent"
  /\ \/ /\ WritePresent(n, calls[n][c].st) /\ NoFault
        /\ calls' = [calls EXCEPT ![n][c].stage = "written"]
     \/ /\ Fault /\ UNCHANGED <<present, touched>>
        /\ IF calls[n][c].owner = "none" THEN Free(n, c)
           ELSE calls' = [calls EXCEPT ![n][c].stage = "error"]
  /\ UNCHANGED <<nodeVars, beat, node, enabled, cacheVars, protect>>

WriteStatus(n, c) ==
  /\ booted /\ calls[n][c].stage = "written"
  /\ status' = [status EXCEPT ![n] = calls[n][c].st]
  /\ IF calls[n][c].owner = "none" THEN Free(n, c)
     ELSE calls' = [calls EXCEPT ![n][c].stage = "ok"]
  /\ UNCHANGED <<nodeVars, beat, dbVars, objects, load, sinceFull, booted, protect,
                 faults>>

MarkActive(n) == node' = [node EXCEPT ![n] = [present |-> "Active", fresh |-> TRUE]]

\* registerNode writes the row at once, keepAlive by way of the queue.
registerNode(n) ==
  /\ up[n] /\ booted
  /\ MarkActive(n)
  /\ UNCHANGED <<nodeVars, calls, beat, present, enabled, touched, cacheVars, protect,
                 faults>>

keepAlive(n) ==
  /\ booted /\ beat[n]
  /\ beat' = [beat EXCEPT ![n] = FALSE]
  /\ \/ MarkActive(n) /\ NoFault
     \/ Fault /\ UNCHANGED node
  /\ UNCHANGED <<nodeVars, calls, present, enabled, touched, cacheVars, protect>>

\* last_heartbeat falls behind while no heartbeat is made; one that waits in
\* the queue may come after the node was given up.
HeartbeatAges(n) ==
  /\ ~up[n] /\ node[n].fresh
  /\ node' = [node EXCEPT ![n].fresh = FALSE]
  /\ UNCHANGED <<nodeVars, calls, beat, present, enabled, touched, cacheVars, protect,
                 faults>>

Expired == {n \in Node : ~node[n].fresh}

checkNodeTimeout_Wrong ==
  /\ booted
  /\ node' = [n \in Node |-> IF n \in Expired THEN [node[n] EXCEPT !.present = "Inactive"]
                             ELSE node[n]]
  /\ UNCHANGED <<nodeVars, calls, beat, present, enabled, touched, cacheVars, protect,
                 faults>>

\* One statement for the nodes and their servers; the status is not told.
checkNodeTimeout ==
  /\ booted
  /\ node' = [n \in Node |-> IF n \in Expired THEN [node[n] EXCEPT !.present = "Inactive"]
                             ELSE node[n]]
  /\ present' = [n \in Node |-> IF n \in Expired /\ present[n] # "Gone" THEN "Inactive"
                                ELSE present[n]]
  /\ touched' = [n \in Node |-> IF present'[n] # present[n] THEN Window ELSE touched[n]]
  /\ UNCHANGED <<nodeVars, calls, beat, enabled, cacheVars, protect, faults>>

-----------------------------------------------------------------------------
(***************************************************************************)
(* ReapThread: loadObjectIdCache                                           *)
(***************************************************************************)
Listed_Wrong(n) ==
  CASE present[n] = "Gone"   -> "None"
    [] present[n] = "Active" -> "Active"
    [] OTHER                 -> "Inactive"

Listed(n) ==
  CASE present[n] = "Gone"                  -> "None"
    [] present[n] = "Active" /\ enabled[n]  -> "Active"
    [] OTHER                                -> "Inactive"

\* An incremental load takes every row of a server that has a recent one.
Selected(full) ==
  IF full \/ \E n \in Node : touched[n] > 0 /\ present[n] # "Gone"
  THEN [n \in Node |-> Listed(n)] ELSE NoLoad.rows

\* A failing query ends the load, except for the one of init, which is
\* tried again.
LoadRead ==
  /\ load = NoLoad
  /\ LET full == ~booted \/ sinceFull = FullEvery - 1
     IN  /\ sinceFull' = IF full THEN 0 ELSE sinceFull + 1
         /\ touched' = [n \in Node |-> IF touched[n] > 0 THEN touched[n] - 1 ELSE 0]
         /\ \/ /\ load' = [stage |-> "read", full |-> full, rows |-> Selected(full)]
               /\ NoFault
            \/ Fault /\ UNCHANGED load
  /\ UNCHANGED <<nodeVars, calls, beat, node, present, enabled, status, objects, booted,
                 protect>>

TooManyInactive ==
  100 * Cardinality({n \in Node : node[n].present = "Inactive"})
    > ProtectRate * Cardinality(Node)

\* While too many nodes are inactive the lists are kept as they are: what was
\* read is never empty, it has the registry's own endpoints.
LoadProtected ==
  /\ load.stage = "read" /\ protect /\ TooManyInactive
  /\ load' = NoLoad /\ booted' = TRUE
  /\ UNCHANGED <<nodeVars, calls, beat, dbVars, status, objects, sinceFull, protect,
                 faults>>

\* A full load replaces what is kept, an incremental one the entries of the
\* servers it has read: of a server without rows nothing is read.  One cache
\* is swapped after the other, with no reader of more than one in between.
SomeListed == \E n \in Node : load.rows[n] # "None"
Installed(old) == IF load.full \/ SomeListed THEN load.rows ELSE old
Merged(old) ==
  IF load.full THEN load.rows
  ELSE [n \in Node |-> IF load.rows[n] = "None" THEN old[n] ELSE load.rows[n]]

LoadInstall_Wrong ==
  /\ load.stage = "read" /\ ~(protect /\ TooManyInactive)
  /\ objects' = Installed(objects)
  /\ load' = NoLoad /\ booted' = TRUE
  /\ UNCHANGED <<nodeVars, calls, beat, dbVars, status, sinceFull, protect, faults>>

LoadInstall ==
  /\ load.stage = "read" /\ ~(protect /\ TooManyInactive)
  /\ objects' = Installed(objects) /\ status' = Merged(status)
  /\ load' = NoLoad /\ booted' = TRUE
  /\ UNCHANGED <<nodeVars, calls, beat, dbVars, sinceFull, protect, faults>>

\* The registry is restarted: what it had in memory, and the calls it was
\* at, are lost.
Restart ==
  /\ booted /\ Fault
  /\ booted' = FALSE /\ load' = NoLoad /\ sinceFull' = 0
  /\ status' = NoLoad.rows /\ objects' = NoLoad.rows
  /\ beat' = [n \in Node |-> FALSE]
  /\ calls' = [n \in Node |-> [c \in Slot |->
                 IF calls[n][c].owner = "none" THEN NoCall
                 ELSE [calls[n][c] EXCEPT !.stage = "sent"]]]
  /\ UNCHANGED <<nodeVars, dbVars, protect>>

-----------------------------------------------------------------------------
(***************************************************************************)
(* The operators, by way of tarsAdminRegistry                              *)
(***************************************************************************)
\* setting_state or flow_state is changed.
Configure(n) ==
  /\ present[n] # "Gone" /\ Fault
  /\ enabled' = [enabled EXCEPT ![n] = ~@]
  /\ touched' = [touched EXCEPT ![n] = Window]
  /\ UNCHANGED <<nodeVars, calls, beat, node, present, cacheVars, protect>>

\* uninstallServer renews the timestamp of all rows of the server first, so
\* that the next load replaces its list.
Uninstall(n) ==
  /\ present[n] # "Gone" /\ Fault
  /\ present' = [present EXCEPT ![n] = "Gone"]
  /\ touched' = [m \in Node |-> Window]
  /\ UNCHANGED <<nodeVars, calls, beat, node, enabled, cacheVars, protect>>

-----------------------------------------------------------------------------
Next ==
  \/ \E n \in Node :
       \/ \E s \in ServerState : SetState(n, s)
       \/ Report(n) \/ SetQuietly(n)
       \/ \E c \in Direct : \/ SyncAnswer(n, c) \/ callback_updateServer(n, c)
                            \/ CallFails(n, c) \/ WriteDirect(n, c)
       \/ \E c \in Slot : WriteStatus(n, c)
       \/ synStat(n) \/ synStatFails(n) \/ reportAlive(n)
       \/ NodeLost(n) \/ NodeBack(n) \/ FilterBatch(n) \/ WriteBatch(n)
       \/ registerNode(n) \/ keepAlive(n) \/ HeartbeatAges(n)
       \/ Configure(n) \/ Uninstall(n)
  \/ checkNodeTimeout \/ LoadRead \/ LoadProtected \/ LoadInstall \/ Restart

Spec == Init /\ [][Next]_vars

\* The threads of the registry and of the node loop without end, and what
\* arrives is worked on; faults are bounded.
Fairness ==
  /\ \A n \in Node :
       /\ \A c \in Direct : /\ WF_vars(SyncAnswer(n, c) \/ callback_updateServer(n, c))
                            /\ WF_vars(WriteDirect(n, c))
       /\ \A c \in Slot : WF_vars(WriteStatus(n, c))
       /\ WF_vars(synStat(n))
       /\ WF_vars(FilterBatch(n)) /\ WF_vars(WriteBatch(n))
       /\ WF_vars(reportAlive(n)) /\ WF_vars(keepAlive(n)) /\ WF_vars(HeartbeatAges(n))
  /\ WF_vars(checkNodeTimeout)
  /\ WF_vars(LoadRead) /\ WF_vars(LoadProtected) /\ WF_vars(LoadInstall)

FairSpec == Spec /\ Fairness

-----------------------------------------------------------------------------
\* The state synState is waiting to have answered is still the server's state
\* when the answer comes and sets _noticed, and no other call waits: the lock
\* of the ServerObject is kept over the call.
SyncInv ==
  /\ TypeOK
  /\ \A n \in Node, c \in Direct : calls[n][c].owner = "sync" =>
       /\ up[n] /\ state[n] = calls[n][c].st
       /\ \A d \in Direct : calls[n][d].owner = "sync" => d = c

Protecting == protect /\ TooManyInactive

\* A server that stays active on a reachable node is listed as active in the
\* end, whatever reports were skipped, lost or overtaken before: although
\* checkNodeTimeout changes the row behind the back of the status by which
\* doUpdateServerStateBatch skips reports, the loads correct the status.
ActiveListed ==
  \A n \in Node :
    <>[](up[n] /\ state[n] = "Active" /\ enabled[n] /\ present[n] # "Gone" /\ ~Protecting)
      => <>[](objects[n] = "Active")

\* The servers of a node that stays away leave the active list, also when a
\* report that was on its way arrives after the node was given up.
DeadUnlisted ==
  \A n \in Node : <>[](~up[n] /\ ~Protecting) => <>[](objects[n] # "Active")

\* So does a server that stays stopped, disabled or uninstalled.
StoppedUnlisted ==
  \A n \in Node :
    <>[](up[n] /\ ~Protecting /\ (state[n] = "Inactive" \/ ~enabled[n] \/ present[n] = "Gone"))
      => <>[](objects[n] # "Active")
=============================================================================
