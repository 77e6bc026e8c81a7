------------------------------ MODULE MCServices ----------------------------
(***************************************************************************)
(* The services and parts that keep to themselves, each with a model of    *)
(* its own: one of them is chosen, and runs.  Those that count faults use  *)
(* one counter, those with a clock one clock.                              *)
(***************************************************************************)
EXTENDS Integers, FiniteSets, Sequences

CONSTANTS
  A, B, One,                                \* two of what comes in numbers, or one
  SwitchInterval, Grace, MaxInsert, Values, \* of PropertyBuffers
  PoolSize, Hours, Minutes, MaxQueries,     \* of QueryFanOut
  LimitRate, LimitInterval, LimitTime,      \* of ConfigLimit
  Closure, MaxOvertime, TraceTime, MaxCrashes, \* of LogTraces
  Host, Rows, TimeShare, TimeoutShare, Half,   \* of BalanceWeights
  MaxOps, MaxChanges, MaxRequests, MaxVersion, \* bounds of one model each
  FewFaults, MaxFaults                      \* bounds of all

ASSUME ServicesAssumption ==
  /\ IsFiniteSet(A) /\ IsFiniteSet(B) /\ "noise" \notin B /\ "check" \notin One
  /\ SwitchInterval \in Nat /\ Grace \in Nat \ {0}
  /\ MaxInsert \in Nat \ {0} /\ Values \in Nat \ {0}
  /\ Closure \in Nat /\ MaxOvertime \in Nat /\ TraceTime \in Nat /\ MaxCrashes \in Nat
  /\ MaxOps \in Nat /\ MaxRequests \in Nat /\ MaxVersion \in Nat \ {0}
  /\ LimitRate \in Nat /\ LimitInterval \in Nat /\ LimitTime \in Nat
  /\ Hours \in Nat \ {0} /\ 0 \in Minutes /\ Minutes \subseteq Nat
  /\ PoolSize \in Nat /\ MaxQueries \in Nat /\ MaxChanges \in Nat
  /\ FewFaults \in Nat /\ MaxFaults \in Nat

ASSUME BalanceAssumption ==
  /\ Rows \subseteq Seq([host : Host, succ : Nat, timeout : Nat, time : Nat])
  /\ TimeShare \in Nat /\ TimeoutShare \in Nat /\ Half \in Nat \ {0}

VARIABLES
  service, faults, now, crossed,
  selected, waited, buffer, mark, unsent, handler, seen, reaper, last, batch, stored, gone,
  row, cache, object, process, linked, alone, op, late, settled, ops,
  served, local, server, task,
  queries, runner, job,
  confRow, refs, changes, load,
  entry, answered, refused,
  file, mem, writing, disk, es, pending, lost, crashes,
  life, calls, uids, idNode, current, belated, lastConn,
  state, enabled, starting, started, timer, known, container, pulling, pulls, monitor,
  containerHandler, requests,
  remote, imageLocal, imageRow, imageKnown, images, thread, calm,
  used, weights, endpoints

propertyVars == <<selected, waited, buffer, mark, unsent, handler, seen, reaper, last, batch,
                  stored, gone>>
opsVars == <<row, cache, object, process, linked, alone, op, late, settled, ops>>
patchVars == <<served, local, server, task>>
queryVars == <<queries, runner, job>>
configVars == <<confRow, refs, changes, load>>
limitVars == <<entry, answered, refused>>
traceVars == <<file, mem, writing, disk, es, pending, lost, crashes>>
nodeVars == <<life, calls, uids, idNode, current, belated, lastConn>>
containerVars == <<state, enabled, starting, started, timer, known, container, pulling, pulls,
                   monitor, containerHandler, requests>>
imageVars == <<remote, imageLocal, imageRow, imageKnown, images, thread, calm>>
balanceVars == <<used, weights, endpoints>>

Property == INSTANCE PropertyBuffers WITH
  Handler <- A, Report <- B, Interval <- SwitchInterval, MaxFaults <- FewFaults
Ops == INSTANCE ServerOps WITH Client <- A
Patch == INSTANCE PatchFlow WITH Server <- A, Version <- B, Task <- B
Query == INSTANCE QueryFanOut WITH Runner <- A, Db <- B, MaxFaults <- FewFaults
Config == INSTANCE ConfigLoad WITH App <- A, MaxFaults <- FewFaults, row <- confRow
Limit == INSTANCE ConfigLimit WITH
  Limit <- LimitRate, Interval <- LimitInterval, MaxTime <- LimitTime
Traces == INSTANCE LogTraces WITH
  Trace <- One, Max <- MaxOvertime, MaxTime <- TraceTime, MaxFaults <- FewFaults
Nodes == INSTANCE NodeConnections WITH Node <- A, Conn <- B, last <- lastConn
Containers == INSTANCE ContainerStart WITH handler <- containerHandler
Images == INSTANCE BaseImages WITH
  Caller <- One, local <- imageLocal, row <- imageRow, known <- imageKnown

Balance == INSTANCE BalanceWeights

\* Rows of two hosts, of the first perhaps two: some calls, none, or all of them
\* timed out; the last of the times makes the product run over.
RowOf(host, times) == [host : {host}, succ : {0, 2}, timeout : {0, 1}, time : times]
First == RowOf("a", {0, 3})
Second == RowOf("b", {3, 400})
MCRows == {<<x>> : x \in First} \cup {<<x, y>> : x \in First, y \in Second}
            \cup {<<x, x, y>> : x \in First, y \in Second}

Services == {"property", "ops", "patch", "query", "config", "limit", "traces", "nodes",
             "containers", "images", "balance"}

ServicesInit ==
  /\ service \in Services
  /\ Property!Init /\ Ops!Init /\ Patch!Init /\ Query!Init /\ Limit!Init /\ Traces!Init
  /\ Nodes!Init /\ Config!Init /\ Containers!Init
  /\ Images!Init /\ Balance!Init
  /\ service = "ops" \/ alone
  /\ service = "config" \/ \A level \in DOMAIN refs : refs[level] = <<>>
  /\ service = "containers" \/ enabled
  /\ service = "balance" \/ \A h \in DOMAIN endpoints : endpoints[h].weight = 0 /\ endpoints[h].type = "loop"

\* What a ledger excuses is not followed any further.
Followed == service \in {"property", "containers"} => ~crossed

Rest ==
  /\ UNCHANGED service
  /\ IF service = "property" THEN TRUE ELSE UNCHANGED propertyVars
  /\ IF service = "ops" THEN TRUE ELSE UNCHANGED opsVars
  /\ IF service = "patch" THEN TRUE ELSE UNCHANGED patchVars
  /\ IF service = "query" THEN TRUE ELSE UNCHANGED queryVars
  /\ IF service = "config" THEN TRUE ELSE UNCHANGED configVars
  /\ IF service = "limit" THEN TRUE ELSE UNCHANGED limitVars
  /\ IF service = "traces" THEN TRUE ELSE UNCHANGED traceVars
  /\ IF service = "nodes" THEN TRUE ELSE UNCHANGED nodeVars
  /\ IF service = "containers" THEN TRUE ELSE UNCHANGED containerVars
  /\ IF service = "images" THEN TRUE ELSE UNCHANGED imageVars
  /\ IF service = "balance" THEN TRUE ELSE UNCHANGED balanceVars
  /\ IF service \in {"property", "containers"} THEN TRUE ELSE UNCHANGED crossed
  /\ IF service \in {"limit", "traces"} THEN TRUE ELSE UNCHANGED now
  /\ IF service \in {"limit", "nodes", "balance"} THEN UNCHANGED faults ELSE TRUE

ServicesNext ==
  /\ Followed
  /\ \/ service = "property" /\ Property!Next
     \/ service = "ops" /\ Ops!Next
     \/ service = "patch" /\ Patch!Next
     \/ service = "query" /\ Query!Next
     \/ service = "config" /\ Config!Next
     \/ service = "limit" /\ Limit!Next
     \/ service = "traces" /\ Traces!Next
     \/ service = "nodes" /\ Nodes!Next
     \/ service = "containers" /\ Containers!Next
     \/ service = "images" /\ Images!Next
     \/ service = "balance" /\ Balance!Next
  /\ Rest

servicesVars == <<service, faults, now, crossed, propertyVars, opsVars, patchVars, queryVars,
                  configVars, limitVars, traceVars, nodeVars, containerVars, imageVars,
                  balanceVars>>

ServicesSpec == ServicesInit /\ [][ServicesNext]_servicesVars

-----------------------------------------------------------------------------
\* tarsproperty: a record that has been taken is in the database or in a buffer,
\* or was refused or given up with an alarm (PropertyBuffers).
PropertyKept == service = "property" => Property!TypeOK /\ Property!NothingLost

\* tarsAdminRegistry and tarsnode: an operation that ended undisturbed has left
\* what it was for (ServerOps), and a patch reported as done is installed
\* (PatchFlow).
OrdersKept ==
  /\ service = "ops" => Ops!TypeOK /\ Ops!AsOrdered
  /\ service = "patch" => Patch!TypeOK /\ Patch!PatchedAsTold

\* tarsquerystat and tarsqueryproperty: an answer that claims success has the
\* rows of every database (QueryFanOut).  tarsregistry: of two hosts the one that
\* does no better is not given the larger weight (BalanceWeights).
AnswersTrue ==
  /\ service = "query" => Query!TypeOK /\ Query!AnswerComplete
  /\ service = "balance" => Balance!TypeOK /\ Balance!Balanced

\* tarsconfig: what is loaded is what the tables say, in the order of the levels
\* (ConfigLoad), and no oftener than the limit (ConfigLimit).
ConfigKept ==
  /\ service = "config" => Config!TypeOK /\ Config!LoadTrue
  /\ service = "limit" => Limit!TypeOK /\ Limit!LimitKept

\* tarslog: a call chain is counted once, across restarts (LogTraces).
CountedOnce == service = "traces" => Traces!TypeOK /\ Traces!CountedOnce

\* tarsAdminRegistry: a command goes over the connection that the node last
\* reported over (NodeConnections).
RightConnection == service = "nodes" => Nodes!TypeOK /\ Nodes!RightConnection

\* tarsnode: starts of one container do not overlap (ContainerStart).
\* tarsregistry: an undisturbed check of a base image leaves what docker has in
\* the table and in memory (BaseImages).
ContainersKept ==
  /\ service = "containers" => Containers!TypeOK /\ Containers!StartsApart
  /\ service = "images" => Images!TypeOK /\ Images!CheckHeals
=============================================================================
