---------------------------- MODULE ContainerStart --------------------------
(***************************************************************************)
(* One server that tarsnode runs in a container.  CommandStart only puts a *)
(* pull of the image into DockerPullThread's pool and returns; the pull's  *)
(* callback creates the container long after isStarting has been cleared.  *)
(* What keeps others from the server meanwhile is its mark in _pullData,   *)
(* which checkPid takes for a process.  The pool hashes by server: pulls   *)
(* of one server run one after the other.                                  *)
(* KeepAliveThread checks the server, a handler starts and stops it.       *)
(***************************************************************************)
EXTENDS Naturals, Sequences

CONSTANTS
  MaxRequests,  \* bound: requests for a start or a stop
  MaxFaults     \* bound: containers that end, failing pulls and docker commands

VARIABLES
  state, enabled,
  starting,   \* isStarting
  started,    \* _started
  timer,      \* since _startTime: below 5 s, below the time-out, or beyond
  known,      \* _pid > 0
  container,  \* whether docker has it running
  pulling,    \* the server's entry in _pullData
  pulls,      \* the pool's queue for the server; its head is being worked at
  monitor,    \* what KeepAliveThread does
  handler,    \* what the handler thread does
  crossed,    \* ledger: the server was found without a process after a start had been
              \* allowed and before its pull was marked, a pull was marked while a failed
              \* one was on the books, or a container was started and not inspected
  requests, faults

vars == <<state, enabled, starting, started, timer, known, container, pulling, pulls,
          monitor, handler, crossed, requests, faults>>

object == <<state, enabled, started, timer, known>>

StartSteps == {"start", "allowed", "pull", "clear"}
StopSteps == {"stop", "wait", "last"}

TypeOK ==
  /\ state \in {"Inactive", "Activating", "Active", "Deactivating"}
  /\ timer \in {"fresh", "running", "out"}
  /\ {enabled, starting, started, known, container, pulling, crossed} \subseteq BOOLEAN
  /\ \A i \in DOMAIN pulls : pulls[i] \in {"queued", "create", "succeed", "fail", "erase"}
  /\ monitor \in StartSteps \cup StopSteps \cup {"idle", "check", "down"}
  /\ handler \in StartSteps \cup StopSteps \cup {"idle"}
  /\ requests \in 0 .. MaxRequests /\ faults \in 0 .. MaxFaults

Init ==
  /\ state = "Inactive" /\ enabled \in BOOLEAN /\ starting = FALSE /\ started = FALSE
  /\ timer = "out" /\ known = FALSE /\ container = FALSE
  /\ pulling = FALSE /\ pulls = <<>> /\ monitor = "idle" /\ handler = "idle"
  /\ crossed = FALSE /\ requests = 0 /\ faults = 0

Fault == faults < MaxFaults /\ faults' = faults + 1

-----------------------------------------------------------------------------
\* checkPid: docker is asked, and told to remove what has ended; then the mark.
checkPid_Wrong == container
checkPid == container \/ pulling
PidSeen == known' = (known \/ container)

Goto(who, step) ==
  \/ who = "monitor" /\ monitor' = step /\ UNCHANGED handler
  \/ who = "handler" /\ handler' = step /\ UNCHANGED monitor
At(who, step) == (who = "monitor" /\ monitor = step) \/ (who = "handler" /\ handler = step)

ActivatingTooLong == timer = "out"

\* A stop by the monitor is part of its check, which goes on.
Leave(who) == Goto(who, IF who = "monitor" THEN "down" ELSE "idle")

BetweenStartAndPull == At("monitor", "pull") \/ At("handler", "pull")

checkServer ==
  /\ monitor = "idle" /\ ~starting /\ timer # "fresh" /\ monitor' = "check"
  /\ UNCHANGED <<object, starting, container, pulling, pulls, handler, crossed, requests,
                 faults>>

\* A server without a process becomes Inactive, one that has been activating for too
\* long or reports nothing is stopped, ...
CheckPid ==
  /\ monitor = "check" /\ PidSeen
  /\ \/ /\ ~checkPid /\ state # "Inactive" /\ ~(state = "Activating" /\ ~ActivatingTooLong)
        /\ state' = "Inactive" /\ monitor' = "down" /\ UNCHANGED faults
     \/ /\ checkPid /\ state = "Activating" /\ started /\ ActivatingTooLong
        /\ monitor' = "stop" /\ UNCHANGED <<state, faults>>
     \/ /\ state = "Active" /\ checkPid
        /\ monitor' = "stop" /\ Fault /\ UNCHANGED state
     \/ monitor' = "down" /\ UNCHANGED <<state, faults>>
  /\ crossed' = (crossed \/ (state' # state /\ BetweenStartAndPull))
  /\ UNCHANGED <<enabled, starting, started, timer, container, pulling, pulls, handler,
                 requests>>

\* ... and one that is Inactive is started, if it is enabled.
Down ==
  /\ monitor = "down"
  /\ monitor' = IF state = "Inactive" /\ enabled THEN "start" ELSE "idle"
  /\ UNCHANGED <<object, starting, container, pulling, pulls, handler, crossed, requests,
                 faults>>

Request(kind) ==
  /\ handler = "idle" /\ requests < MaxRequests
  /\ handler' = kind /\ requests' = requests + 1
  /\ UNCHANGED <<object, starting, container, pulling, pulls, monitor, crossed, faults>>

-----------------------------------------------------------------------------
StartConstruct(who) ==
  /\ At(who, "start") /\ starting' = TRUE /\ Goto(who, "allowed")
  /\ UNCHANGED <<object, container, pulling, pulls, crossed, requests, faults>>

StartCanExecute(who) ==
  /\ At(who, "allowed")
  /\ enabled' = (enabled \/ who = "handler")
  /\ IF enabled' /\ state = "Inactive"
       THEN state' = "Activating" /\ Goto(who, "pull")
       ELSE Goto(who, "clear") /\ UNCHANGED state
  /\ UNCHANGED <<starting, started, timer, known, container, pulling, pulls, crossed,
                 requests, faults>>

\* execute: the pull is marked and put into the queue, and 0 returned.
pull(who) ==
  /\ At(who, "pull") /\ Goto(who, "clear")
  /\ pulling' = TRUE /\ pulls' = Append(pulls, "queued")
  /\ crossed' = (crossed \/ pulls # <<>>)
  /\ UNCHANGED <<object, starting, container, requests, faults>>

StartDestruct(who) ==
  /\ At(who, "clear") /\ starting' = FALSE /\ Goto(who, "idle")
  /\ UNCHANGED <<object, container, pulling, pulls, crossed, requests, faults>>

-----------------------------------------------------------------------------
Working(step) == pulls # <<>> /\ Head(pulls) = step
Then(step) == pulls' = [pulls EXCEPT ![1] = step]

\* An exception ends a pull without the callback.
doPull ==
  /\ Working("queued")
  /\ \/ Then("create") /\ UNCHANGED faults
     \/ (Then("fail") \/ Then("erase")) /\ Fault
  /\ UNCHANGED <<object, starting, container, pulling, monitor, handler, crossed, requests>>

\* A container of the server's name is stopped and removed first.
startContainer ==
  /\ Working("create")
  /\ \/ container' = TRUE /\ known' = TRUE /\ Then("succeed") /\ UNCHANGED <<crossed, faults>>
     \/ container' = FALSE /\ Then("fail") /\ Fault /\ UNCHANGED <<known, crossed>>
     \/ container' = TRUE /\ Then("fail") /\ Fault /\ crossed' = TRUE /\ UNCHANGED known
  /\ UNCHANGED <<state, enabled, started, timer, starting, pulling, monitor, handler, requests>>

startFinish ==
  /\ \/ Working("succeed") /\ started' = TRUE /\ timer' = "fresh" /\ UNCHANGED <<state, known>>
     \/ Working("fail") /\ started' = FALSE /\ known' = FALSE /\ state' = "Inactive"
          /\ UNCHANGED timer
  /\ Then("erase")
  /\ UNCHANGED <<enabled, starting, container, pulling, monitor, handler, crossed, requests,
                 faults>>

PullEnds ==
  /\ Working("erase") /\ pulling' = FALSE /\ pulls' = Tail(pulls)
  /\ UNCHANGED <<object, starting, container, monitor, handler, crossed, requests, faults>>

-----------------------------------------------------------------------------
StopCanExecute(who) ==
  /\ At(who, "stop")
  /\ enabled' = (enabled /\ who # "handler")
  /\ IF state = "Inactive" THEN Leave(who) /\ UNCHANGED state
                           ELSE state' = "Deactivating" /\ Goto(who, "wait")
  /\ UNCHANGED <<starting, started, timer, known, container, pulling, pulls, crossed,
                 requests, faults>>

\* The server is asked to shut down, and is waited for ...
StopWait(who) ==
  /\ At(who, "wait") \/ At(who, "last")
  /\ ~checkPid
  /\ known' = FALSE /\ state' = "Inactive" /\ started' = FALSE /\ Leave(who)
  /\ crossed' = (crossed \/ BetweenStartAndPull)
  /\ UNCHANGED <<enabled, timer, starting, container, pulling, pulls, requests, faults>>

\* ... docker is told to stop it, if it has a pid ...
StopKill(who) ==
  /\ At(who, "wait") /\ checkPid /\ Goto(who, "last") /\ PidSeen
  /\ \/ known' /\ container' = FALSE /\ UNCHANGED faults
     \/ known' /\ Fault /\ UNCHANGED container
     \/ ~known' /\ UNCHANGED <<container, faults>>
  /\ UNCHANGED <<state, enabled, started, timer, starting, pulling, pulls, crossed, requests>>

\* ... and the stop fails with the state left as it is.
StopFails(who) ==
  /\ At(who, "last") /\ checkPid /\ Leave(who) /\ PidSeen
  /\ UNCHANGED <<state, enabled, started, timer, starting, container, pulling, pulls, crossed,
                 requests, faults>>

-----------------------------------------------------------------------------
keepAlive ==
  /\ container
  /\ state \in {"Inactive", "Activating"} /\ state' = "Active" /\ known' = TRUE
  /\ UNCHANGED <<enabled, started, timer, starting, container, pulling, pulls, monitor, handler,
                 crossed, requests, faults>>

\* It ends by itself, or because it was asked to.
ContainerEnds ==
  /\ container /\ container' = FALSE
  /\ \/ (At("monitor", "wait") \/ At("handler", "wait")) /\ UNCHANGED faults
     \/ Fault
  /\ UNCHANGED <<object, starting, pulling, pulls, monitor, handler, crossed, requests>>

Tick ==
  /\ timer # "out" /\ timer' = IF timer = "fresh" THEN "running" ELSE "out"
  /\ UNCHANGED <<state, enabled, started, known, starting, container, pulling, pulls, monitor,
                 handler, crossed, requests, faults>>

Next ==
  \/ checkServer \/ CheckPid \/ Down
  \/ \E kind \in {"start", "stop"} : Request(kind)
  \/ \E who \in {"monitor", "handler"} :
       \/ StartConstruct(who) \/ StartCanExecute(who) \/ pull(who) \/ StartDestruct(who)
       \/ StopCanExecute(who) \/ StopWait(who) \/ StopKill(who) \/ StopFails(who)
  \/ doPull \/ startContainer \/ startFinish \/ PullEnds
  \/ keepAlive \/ ContainerEnds \/ Tick

Spec == Init /\ [][Next]_vars

-----------------------------------------------------------------------------
Resting == monitor = "idle" /\ handler = "idle" /\ pulls = <<>>

\* Unless a start crossed the end of a failed pull, or a container could not be
\* inspected: while a pull is under way, nobody starts the server again, and its
\* callback meets no container that runs already; and a disabled server that is
\* Inactive has nothing running.
StartsApart ==
  crossed \/ /\ Len(pulls) <= 1
             /\ Working("create") => ~container
             /\ state = "Inactive" /\ ~enabled /\ Resting => ~container
=============================================================================
