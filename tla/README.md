# TLA+ models of TarsFramework

TarsFramework (`src/`) is the set of C++ services that run a Tars cluster: one
`tarsnode` per machine starts, watches and patches servers; `tarsAdminRegistry` gives
the nodes their orders; `tarsregistry` tells clients where servers are; `tarspatch`
hands out packages; `tarsconfig`, `tarslog`, `tarsstat`, `tarsproperty`, `tarsnotify`
and their query services serve the rest. The modules here model the parts whose
correctness depends on interleavings, failures and time.

Contents: 1 inventory, 2 modules, 3 runs, 4 fairness, 5 proofs, 6 what the code does
otherwise than one might expect, 7 what is not modelled, 8 what could come next.

## 1. Inventory

### tarsnode (`src/NodeServer`)

* **State.** One `ServerObject` per server: `_state` (Inactive, Activating, Active,
  Deactivating, Loading, BatchPatching), `_lastState`, `_pid`, `_enabled`,
  `_settingState`, `_started`, `_patched`, `_noticed`, the `isStarting` mark, heartbeat
  and start timers, an `Activator` and a `ServerLimitResource`. `ServerFactory` keeps the
  map of objects and a descriptor cache on disk; `BatchPatch` a queue and the set
  `_patchIng`; `DockerPullThread` the marks `_pullData` of pulls under way.
* **Operations.** `ServerManager`'s startServer, stopServer, patchPro, notify,
  destroy, ..., which run `CommandLoad`, `CommandStart`, `CommandStop`,
  `CommandPatch`, `CommandNotify`, `CommandDestroy`; `ServerImp::keepAlive` and
  `keepActiving`, the heartbeats of the servers; `KeepAliveThread`, which runs
  `checkServer` on every server, reports states to tarsregistry and saves the cache;
  `BatchPatchThread`s, which download and install packages.
* **Interaction.** RPC threads, the keep-alive thread, the patch and pull threads and
  the servers' heartbeats share one object; its methods lock one call at a time, while
  the commands make many calls. A `StatExChange` puts an object into a state and gives
  back the captured one when the command ends.
* **Hard.** Everything that is read in one call and used in a later one; a state given
  back over a newer one; crashes of the server in any state; late heartbeats; requests
  that overlap the keep-alive thread's checks; refused patches; containers that start
  long after their command has returned; timers.
* **Correct means.** No state is left for ever; a server that should run is started
  again; one process per server; the enabled flag follows the registry; restarts and
  core dumps are limited and the limits end; what was ordered lasts; the registry hears
  of every state in the end.

### tarsAdminRegistry (`src/AdminRegistryServer`)

* **State.** `NodeManager`: the connections of the nodes in three maps, a time-out queue
  of pushed requests. `ExecuteTask`: the task lists, with the status of each item, and
  the elegant list of each server. Everything else is in MySQL (`DbProxy`), among it
  `setting_state` and `flow_state` of each server.
* **Operations.** start, stop, restart, patch, undeploy, uninstall, ... of a server:
  statements around a command that is pushed over a node's connection, or forwarded to
  the other registries when there is none; the node's `reportResult`; time-outs;
  `addTaskReq`, cancellation and deletion of lists.
* **Hard.** Result against time-out; connections that close; two commands for one
  call; batches of a rolling patch; overlapping lists; failures of one step of several.
* **Correct means.** One answer per request, and a true one; at most one batch out of
  service; every list ends; a patch reported as done is installed.

### tarsregistry (`src/RegistryServer`)

* **State.** The rows of MySQL; `_mapServantStatus`; the lists queries are answered
  from (endpoints, divisions, group rules, station lists), each in two buffers with an
  index; dynamic weights; base images.
* **Operations.** `keepAlive`, `updateServer`, `updateServerBatch` of nodes;
  `CheckNodeThread`; full and incremental loads by `ReapThread`; `QueryImp`'s queries by
  group, station, set or all; `LoadBalanceThread`; `DockerThread`.
* **Hard.** A reloader and readers of two buffers without a lock; a status that says
  what the database does not; reports that overtake each other; failing statements.
* **Correct means.** A query sees one version of each list and is sent to the nearest
  endpoints; the lists agree with the nodes in the end.

### tarspatch (`src/PatchServer`)

* **State.** `PatchCache`: `_vecMems` (blocks with file name, attributes, `MemLoad`,
  `MemCount`, buffer) and `_mapFiles`. Packages on disk.
* **Operations.** `download` (load, copy, release, or a read of the file),
  `preparePatchFile`, upload, delete, list.
* **Hard.** Blocks are copied from without a lock; eviction; reload of a replaced
  package; failing malloc and reads.
* **Correct means.** A block in use stays its file's; counts are exact; what is served
  is the whole package.

### The other services

* **tarsstat, tarsproperty**: counters aggregated in one of two tables while a thread
  writes the other to MySQL by interval. Hard: the switch against handlers and reaper;
  failing statements; restarts. Correct: a record is stored once, or somebody is told.
* **tarsquerystat, tarsqueryproperty**: parallel reads of hour tables in several
  databases. Correct: a good answer is a complete one.
* **tarsconfig**: files merged of several levels, one statement each, and a limit of
  loads. Correct: what is loaded is what the tables say.
* **tarslog**: rolling and day logs; aggregation of call chains (`LogAggregation`,
  `TimerTaskQueue`), posts to Elasticsearch, snapshots. Hard: crashes, late lines,
  failing posts. Correct: a call is counted once.
* **tarsnotify, tarsAuth**: requests relayed to MySQL.
* **tools** (`mysql-tool`, `patchclient`, `tars-client`) and deployment scripts.

## 2. Modules

A definition called `X_Wrong` (or `X_Mute`, ...) beside `X` is not part of a
specification: it is `X` with a plausible mistake, and shows which property notices the
mistake. Variables called ledgers (`odd`, `crossed`, `gone`, `missed`, ...) and histories
remember what happened, for properties that allow an exception to say precisely which.

### tarsnode

**ServerLifecycle** (with MCServerLifecycle). One native tars_cpp server. `obj` is the
`ServerObject`, `proc` the server's processes, `registry` the registry's setting and the
node's cached copy, `thread` where each RPC handler and the keep-alive thread are in the
command they run, `factoryLock` `ServerFactory`'s lock, `queued` `BatchPatch::_patchIng`,
`patcher` the patch threads. One action is one locked call of `ServerObject`, or one
unlocked read or write, so what a command remembers may be stale exactly where it may be
in the code:

| code | actions |
|---|---|
| startServer, stopServer, patchPro requested | Request |
| `getServerFromRegistry`, `getServerFromCache` | FetchDescriptor |
| `createServer`, `CommandLoad` | CreateServer, LoadDone, LoadFailed |
| `CommandStart` | StartConstruct, StartCanExecute, ActivateOk, ActivateThrows, StartSetPid, StartVerify, StartFinish, StartDestruct |
| `CommandStop` | StopCanExecute, StopWait, StopKill, StopWaitKilled, Stopped |
| `patchPro`, `BatchPatch`, `CommandPatch` | PatchPreset, PatchPush, PatchPop, PatchCanExecute, PatchExecute, PatchRestore |
| `checkServer`, `checkAlive` | CheckServer, Reconcile, CheckZombie, CheckAutoStart, SynCache |
| heartbeats and the processes | keepAlive, keepActiving, Exit |
| time | Age, FallSilent, Unlimit, PatchStalls, PatchProgress |

Timers are ages with as many values as the code tells apart: `startAge` 0 (less than
five seconds after `startFinish`), 1, 2 (`isStartTimeOut`). The `Activator` is a flag
that a start may set and time may clear; module Activator says when.

**Activator**, **CoreLimit**, composed in **ServerLimits** (with MCServerLimits).
`addActivatingRecord`, `isActivatingLimited` and `setLimitInfo`, which replaces `limits` by
any others of `Limits`: integers, which nothing relates to each other. Only the last record
is ever read, so its age is the state, and `burst` is a history. CoreLimit is
`ServerLimitResource` with `checkCoredumpLimit`: what the limiter wants (`limiter`), what
the object has noted (`info`, `updated`), what the process has been told (`core`), and the
two buffers of `_mServerCoreConfig` (`conf`). ServerLimits drives both by the same checks,
starts, configurations and clock, as `ServerObject` does.

**ContainerStart**. A server in a container: `CommandStart` returns when the pull is
queued, `pulls` is the pool's queue, `pulling` the mark in `_pullData`; `startContainer`
and `startFinish` are the pull's callback, which runs after `isStarting` was cleared.
The monitoring thread and one handler run their commands step by step beside it.

**PatchFlow**. One patch from the task to the files: preparePatch copies the package to
where it is served, batchPatch pushes, getPatchPercent polls; the node's thread downloads,
checks, unpacks, reports. Two servers of one group share the served and the downloaded
file. A patch that names an `ostype`, as a direct batchPatch may, takes files with the
version in their name, and unpacks one even when its download has failed.

**ServerOps**. The operations of tarsAdminRegistry as sequences of steps on the server's
row, the node's object, its process and the node's descriptor cache, with steps of
several operations, restarts of tarsnode with and without a registry, given-up commands
that are executed later, and crashes in between.

### tarsAdminRegistry

**NodePush**. `requestNode`, `reportResult`, the time-out queue and forwarding, between
clients, a set of registries and one node. A handler (`todo`) carries the commands it has
still to push: two for a restart. `pushes` and `results` are sets of messages under way;
one that is never handled is a lost one. `pushed` and `executed` are histories.

**NodeConnections**. `_mapNodeId`, `_mapIdNode`, `_mapIdCurrent` under reports, deletions
and closes that are received in order and handled in any order.

**TaskLists**. `ExecuteTask` and the kinds of `TaskList` for one server; item i is the
server's node i. `list[t].pc` is where the list's preparing thread, then its master, are;
`jobs` is the worker pool's queue; `known` and `elegant` are `_task` and
`_server2ElegantTask`; `deleting` is the list that `ExecuteTask::run` destroys while it
holds the lock; `flow` is `flow_state` of the nodes. `STARTING` splits `EM_I_RUNNING` at
the moment `restartServer_inner` turns the flow on again.

### tarsregistry

**StateSync**. One server's state on its way: `synState` (synchronous until three calls in
a row have failed, asynchronous afterwards), the keep-alive thread's batches, the calls
(`calls`, by node and slot) through filter, statement and `_mapServantStatus`, node
heartbeats and `checkNodeTimeout`, and `ReapThread`'s full and incremental loads with
`recoverProtect`. It composes the node's and the registry's side.

**RouteTable**, **RouteCache** (with **EndpointQuery** and MCRouteCache). RouteTable is
the abstract specification: lists that are replaced at once, and queries that see one
version of each list they look at. RouteCache is `CDbHandle`: two buffers and an index for
each list, clear, fill and swap as steps of their own, `loadObjects` entire or
incremental, statements that fail halfway, and QueryImp's queries, which take a reference
to a buffer and go on using it without a lock. Loads follow each other at any pace: what a
load writes to a buffer that a query still refers to spoils that query (`Spoiled`).
EndpointQuery are the pure operators: the group of a host, the stages of
findObjectByIdInGroupPriority, station and set.

**BalanceWeights**. The merge of tarsstat's rows (several for a host), the weights made
of them in integer arithmetic of bounded width, and what a query makes of them.

**BaseImages**. `DockerThread` for one base image: table, memory, what nodes are told,
the docker daemon; checks, pulls and loads, each read and write a step.

### The other services

**PatchCache**: the blocks, the map and the downloads that hold blocks between `load` and
`release`. A package is a version of its file; a buffer holds a version, the first bytes of
one with older ones behind, or is torn. `load`'s outcomes are actions of their own; reading
the file is LoadOpen and LoadRead, under the mutex; Copy is the `memcpy` after it;
preparePatchFile replaces a package.

**StatBuffers**, **PropertyBuffers**: the two tables, handlers in their steps (mark or
choose a table, add), the reaper (read, hand over, clear) and the databases' threads, by
a clock that is counted in the units the code waits for. In StatBuffers the records that
are not followed are one (`Noise`): they fill tables, and batches of them alone are handed
over and written like others, so that a database's flag advances with every interval.

**QueryFanOut**: runners, the pool of threads, the counter that joins them, the two rounds
(data, then times). **ConfigLoad**, **ConfigLimit**: the load of a file level by level,
statement by statement, and `CHECKLIMIT`. **LogTraces**: the day's log, the reader's seek,
traces in memory, posts and their repetition, snapshots, crash.

**MCServices** composes those that do not interact (PropertyBuffers, ServerOps,
PatchFlow, QueryFanOut, ConfigLoad, ConfigLimit, LogTraces, NodeConnections,
ContainerStart, BaseImages, BalanceWeights) into one run: the first state chooses one of
them, and only its actions are enabled.

## 3. Runs

| run | what it asks | states |
|---|---|---|
| LifecycleFaults | `LifecycleInv`, the inductive invariant, with every fault | 1.5 M |
| LifecycleLiveness | `MonitorStartsOne`, `EnabledAgrees`, `Recovery`, `PatchEnds`, `HungIsStopped` | 0.3 M |
| ServerLimits | `BurstBound`, `CoreOK`, `PunishmentEnds`, `CoreReopens` of the two limits together | 1.1 M |
| PatchCacheServe | `CacheInv`, `HeldIsMine`, `CopiesWhatItAsked` | 0.36 M |
| PatchCacheUnloaded | `ServedIsLoaded` is violated | |
| PushAnswers | `AnsweredOnce`, `AnswerTrue`, `Answered` | 1.6 K |
| TaskLists | `BatchesApart`, `FailureStops`, `FlowHeldBack`, `OneRolling`, `FinishedIsDone`, `ListEnds` | 0.5 M |
| TaskListsRolling | `OneRollingAtAll` is violated | |
| StateSync | `SyncInv`, `ActiveListed`, `DeadUnlisted`, `StoppedUnlisted` | 0.5 M |
| Routing | `OneVersion` (RouteCache implements RouteTable), `AnswersNearest` | 1.7 M |
| Stats | `StatInv`, `StoredOnce`, `SkippedOnlyIfLate`, `TablesDrain` | 1.7 M |
| Services | one property each of the eleven models that MCServices composes | 2.4 M |

Why the bounds are enough:

* **Lifecycle.** Two pids: one process and the next, or the two that must not exist
  together. One request overlaps the keep-alive thread's check, the heartbeats and the
  processes at every point, which is where its races are. `MaxRequests` bounds requests
  only: the keep-alive thread, crashes and heartbeats go on for ever. `Faults` names what
  may go wrong. Symmetry is used where only invariants are checked. The invariants were
  also checked, once, with two requests, two handlers and two patch threads (0.8 M
  states), which a patch refused as a duplicate needs; the proofs hold for any number.
* **ServerLimits.** Two configurations, either of which may replace the other: one counts
  within 2, up to 2, and punishes for 3, the other counts within 3, nothing (-1), and
  punishes for 2; and 2 stops within 2 for cores. A start may be inside, on and outside each
  interval, before and behind each limit. Ages stop where every comparison comes out the
  same.
* **PatchCacheServe.** Two packages compete for two blocks and two downloads, every
  package is replaced once, malloc and reads may fail. One block would have no choice of
  what to evict, a third nothing new.
* **PushAnswers.** One call, two registries: one that has the connection, one that has
  to forward, and the same one again with the call forwarded to itself. Calls do not
  interact, each has its own request ids; a restart with two registries has 4.2 M states
  and was checked once. The theorems of section 5 are about any number.
* **TaskLists.** Two lists of two items in batches of one, all kinds and three
  commands. The invariants were also checked, once, of three items in batches of two with
  all commands (9.1 M states) and of three lists (7.4 M states). TaskListsRolling has three
  items in batches of two, so that the last batch is smaller.
* **StateSync.** One node and one fault (lost call, failing statement, restart, operator's
  change) of any kind at any moment, without `recoverProtect`; a slot for an outstanding
  call beside the batch. `AsyncAfter` 1 reaches both kinds of call, every second load is
  full, an incremental one sees a change for one load: a row may be missed by all
  incremental loads and must be found by a full one.
* **Routing.** One servant, two hosts, one client: 48 tables, one change of the tables and
  two loads, so that both buffers of each list are written while the client may still hold
  the first: the second load may be over before a query is. Clients do not interact; the
  theorems are about any number of all of these.
* **Stats.** Two handlers, so that one may be late when the other switches; one record
  that is followed among others that are not (`Noise`), so that its batch may find the flag
  of an earlier one in the database; an interval of 4 with a grace of 2, so that a switch
  may come before, in and after the last moments; two faults, a retry that fails again
  being none. One handler has the followed record, the other those that are not
  (`Parted`), and a state is followed no further when no thread, table, queue or report to
  come has the record (`Unsettled`): nothing is asked of what comes then.
* **Services.** Each with two of what competes: two handlers, clients, servers of a group,
  tasks, databases, runners, connections; one or two faults; a clock as long as its
  intervals. Weights are taken of up to three rows of two hosts, among them rows whose
  times make a product run over an int of half range 65536. A limit of two calls in two
  moments is enough to reach the bound of `LimitKept`, six. The theorems are about any
  numbers.

Deadlock is checked but where the system may really stop, because what is asked of it is
bounded: ServerLimits (time's end), TaskLists (all lists are over), Routing (all loads
are done, no query asked), Stats, and Services.

Every property of a passing run is violated when the definition that PROJECT.json
names under "mutants" is replaced by its mistaken form.

## 4. Fairness

* **ServerLifecycle.** Weak fairness of each thread (threads are scheduled, every call
  they make returns), of the timers, and of the end of the punishment. `ActivateOk` has
  strong fairness: a fork may fail again and again, but not every time. Nothing is
  assumed of the server's processes: they may crash, hang, or never report.
* **ServerLimits.** Time passes; the keep-alive thread checks the server for ever.
* **NodePush.** The `NodeManager` thread, which runs every second, handles what is
  overdue. Neither the node nor the connections need do anything.
* **TaskLists.** The threads of each list run, `ExecuteTask`'s too: calls to nodes and
  to the database are answered or time out. No list need be asked for or grow old.
* **StateSync.** The loops of `KeepAliveThread`, `CheckNodeThread` and `ReapThread` go on,
  and a call that has arrived is worked on to its end or fails. Calls may fail and be lost
  as often as the bound says; a node that is gone need not come back.
* **StatBuffers.** Handlers, reaper and database threads run, time passes, and reports
  go on coming in, to whatever handler: the switch is made by a report, so that a table is
  only drained then.
* RouteCache, PatchCache and the parts of Services have safety properties only.

## 5. Proofs

TLAPS checks the following for every value of the constants, that is for any number of
threads, processes, requests, packages, registries, servants, endpoints, loads, reports
and databases.

* `ServerLifecycleProofs`: `LifecycleInvariant` (`LifecycleInv`), `TypeCorrect`,
  `LoadingIsOwned`, `PatchIsOwned`. `LoadingOwned` is not inductive: a handler at
  "loading" must hold the lock, and no other handler be there (`LockOwned`); the state is
  only Loading under the lock (`LoadingLocked`); and CreateServer is only well typed
  because a handler at "load" has a descriptor (`Described`). `PatchOwned`, the part that
  `PatchIsOwned` is about, is inductive by itself: every step that ends one owner's duty
  begins another's, or gives the state back. The proof types each thread's steps, then
  shows which conjunct each group of actions can disturb. Assumed: `LifecycleAssumption`,
  that the names of threads and pids are distinct. Three more hold under a hypothesis that
  the run's counterexamples show to be needed. `MonitoringIsSafe` (`MonitorStartsOne`)
  excludes late heartbeats, since one of a dead process puts its pid back: then the thread
  that finds no process is the only one to start (`Alone`), as no start is asked for
  (`NoneAsked`) and what it found stays true until it forks (`FoundNone`). `EnabledAgrees`
  excludes outages, since a failing statement leaves setting_state behind, and overlapping
  requests: `EnabledInTurn` takes one at a time, `EnabledOneHandler` one handler; each
  stage of a request then tells what is settled already (`Unsettled`, `Starting`,
  `AsksRight`, `Settled`).
* `StateSyncProofs`: `ReportsInStep` (`SyncInv`), that a report under way, the states the
  node and the registry hold of each other, and the rows are in step, whatever is lost and
  whoever restarts.
* `PatchCacheProofs`: `CacheInvariant` (`CacheInv`), `HeldBlocksAreKept` and
  `CopiesAreFetched` (`CopiesWhatItAsked`). `HeldIsMine`
  needs that map and blocks are inverses (`Mapped`), that the loader is alone under the
  mutex (`LoadsAlone`), and that a block's count is the number of its holders
  (`RefCount`), since eviction looks at the count only. For what is copied, `CopyInv` adds
  that versions only grow, from a download through the block it holds to the disk
  (`BeingCopied`, `Older`): a package that has not been replaced since the download looked
  is then the one in the block, and a loaded block of the disk's version has what a read of
  it fetches (`Whole`): all of it, but for reads that an error cuts short.
  Assumed: finitely many readers.
* `AdminRegistryProofs`: `AnsweredAtMostOnce` (`AnsweredOnce`) and `AnswersAreTrue`
  (`AnswerTrue`). That a call has no more answers and waiting requests than requests were
  pushed needs that every push adds a request, which is so because a handler has not
  pushed yet what it has still to push (`Unpushed`); and that needs that there is one
  handler of a call at each registry (`OneHandler`), since it is forwarded once
  (`ForwardedOnce`) and taken once (`Untaken`). The truth of answers needs that a good
  result is that of an executed command (`Heard`). `CommandsGoRight` (`RightConnection`)
  adds to the property itself that a node's list has each connection once, that
  `_mapIdNode` and the lists agree in both directions, and which closes are overtaken
  (`NodeMaps`). `OrdersLast` (`OrdersKept`): a patch's truth (`PatchInv`) needs what is
  known at each stage of a server and of a task (`Right`, `Told`); what an operation
  leaves (`OpsInv`) needs, at each of its steps, what the steps behind it have settled and
  what those before it count on, as long as nobody interfered (`CountsOn`), and that an
  undisturbed operation is alone.
* `TaskListsProofs`: `OneRollsAtATime`, `OneBatchAtATime`, `StopsAtFailure`,
  `FinishedMeansDone` and `TrafficIsHeldBack`, the run's five invariants. What a list does
  to its items is an invariant of its record alone (`Sound`: where it stands, what is
  behind and before `next`, that batches begin at multiples of their size), so a list that
  a step does not touch keeps it. `OneRolling` needs in addition that `cancelTask` finds an
  item to cancel in whatever will roll (`Cancellable`), and that such a list is known or
  being deleted, and found by the next request unless it is already to be cancelled
  (`Handover`). `TrafficIsHeldBack` assumes that updates of the flow state succeed.
* `RoutingProofs`: `Implements`, that RouteCache implements RouteTable. The mapping takes
  the readers' buffer for the list and, for what a query has seen, the buffer it refers
  to. The invariant `RouteInv` says that each buffer holds a whole list (`Shape`), that no
  query still refers to the writer's buffer once it is written to, except those that this
  has spoiled (`Unread`), and what that buffer holds at each stage of a load (`Filled`),
  so that a swap is RouteTable's Install. Writing to a buffer is a step of RouteTable's
  Load, which may spoil queries that hold a list which has been replaced; nothing is
  assumed of the time between two loads. `NearestAnswered` (`AnswersNearest`) adds that
  what findObjectByIdInGroupPriority stops at is the nearest stage with an active
  endpoint, by the least index of a finite range (`FirstExists`). Assumed:
  `RouteCacheAssumption`.
* `StatBuffersProofs`: `NothingReportedIsLost` (`StatInv`), `NoneStoredTwice`
  (`StoredOnce`) and `OnlyLateIsSkipped` (`SkippedOnlyIfLate`). Everything rests on what
  the clock separates (`Timing`): the mark of a handler at work is on the selected table
  unless a switch came early enough in this interval for it to finish (`Marked`), marks on
  the other table run out before the next interval (`Aged`), and by then the reaper has
  read it and rests (`Rested`); so nobody adds to the table that is read (`Reading`), and
  clearing it removes what was handed over and nothing else (`Kept`). That a record is in
  one place only (`Once`) needs no clock, only the ledger's entry for a stop between
  handing over and clearing. `Flagged` orders the batches of a database: none was handed
  over in this interval yet (`Fresh`) whenever there is a table to read. Assumed:
  `StatBuffersAssumption`, a grace shorter than the interval, and the guard `KeepsUp`,
  that a handler adds its record within the grace and that the reaper and the writers keep
  up with the intervals.

* `ServicesProofs`: the parts that MCServices composes, one inductive invariant each
  (the operations of tarsAdminRegistry are in `AdminRegistryProofs`). A theorem about the
  composition needs of the rest only that a step changes the chosen part and nothing else
  (`Chosen`).
  `ContainersStayRight` (`ContainersKept`): two starts are apart because of what the state,
  the marks and the queue of pulls say at each step of the two threads (`Apart`); a base
  image's check heals because an undisturbed one holds at each step what docker had at its
  first (`Checking`). `ConfigsStayTrue` (`ConfigKept`): what a load has put together is
  right level by level and reference by reference (`RightSoFar`); the limit needs how many
  calls came since each moment, for an entry that is known and for one that has just been
  removed (`LimitInv`). `TracesCountOnce` (`CountedOnce`): memory, the snapshot that is
  being written and the one on disk each fit the log up to their seek (`Fits`), and what
  each has released was sent (`SentUpto`), so that a restart from any of them counts
  nothing again. `PropertyLosesNothing` (`PropertyKept`): a record is always at one of the
  places of `Held`, since a table that is read has nobody who adds to it (`ReadAlone`) for
  as long as the marks last (`Aged`). `AnswersStayTrue` (`AnswersTrue`): the runner's
  counter is the number of counted jobs in either round, so that the jobs are over when it
  is full; a job has the rows of the hours it has passed and, at its end, all of its
  database's (`RunnerRight`, `JobRight`); and the weights are monotone in the two
  quotients they are made of, for all rows and shares (`WeightOrder`), as long as
  `Int32` is the identity on the products (`FitsInt`).
  Two of the models keep a ledger (`crossed`) of the interleavings their property excuses:
  MCServices follows no run beyond such a step (`Followed`), and the invariants say nothing
  behind it. Assumed: `ServicesAssumption` and `BalanceAssumption`, that
  handlers, reports, databases and runners are finitely many, that bounds, times and shares
  are numbers, that rows are of the hosts there are, and that names the models reserve are
  not among the elements.
* `ServicesProofs`, last part: Activator's `ActivatorInvariant` (`BurstInv`) and
  `BurstIsBounded`: the bound on automatic starts is not inductive without the relation of
  `burst` to `curCount` while unlimited and the one start that may have been decided before
  the limit was set; `BurstBoundTogether` follows, since a step of the composition is one of
  each part or none (the lemma `BothImplemented`). `CoreStaysRight` (`CoreOK`) is from an
  invariant of CoreLimit alone, which adds to `CoreAgrees` what each change of the
  configuration may leave in the two buffers. Assumed, in `ActivatorAssumption`: what may be
  configured are integers, and ages are told apart as far as they are compared.

Only model-checked: all liveness (`Recovery`, `PatchEnds`, `HungIsStopped`,
`PunishmentEnds`, `CoreReopens`, `Answered`, `ListEnds`, StateSync's three, `TablesDrain`),
which needs fairness and is out of the prover's reach. Each invariant and each action
property of a passing run is the subject of a theorem; those of `MonitorStartsOne` and
`EnabledAgrees` have the hypotheses given above.

ConfigLimit and BalanceWeights sum over sets, and ConfigLoad joins lists, with the folds of
the community modules. A fold is a function that CHOOSE picks by its recursive equation, so
that something is to be shown before it can be used: that there is such a function for
each finite set or list, and only one (`SumsExist`, `SumsAgree`, `JoinsAgree`). The
library's induction takes an operator as its parameter; the proofs use the least element of
a set of counterexamples instead (`WFMin`), which is first-order.

## 6. What the code does otherwise than one might expect

Two runs show a violation of what a comment or a test of the repository says:

* **PatchCacheUnloaded** (`ServedIsLoaded`). When reading a package fails, its block
  stays in the map with the new file's attributes and `MemLoad` back at not loaded; `load`
  does not look at it, so the next download of the unchanged file is served from the
  buffer.
* **TaskListsRolling** (`OneRollingAtAll`). `cancelTask` cancels a list only if an item is
  still EM_I_NOT_START. The items of a patch have left that status as soon as they are
  prepared, so that an elegant patch is not cancelled by a newer list, and two lists take
  batches of the same server out of service.

Three more are kept as definitions, without a run of their own:

* `OneProcess` (ServerLifecycle): a start that was requested may overlap the keep-alive
  thread's check, although the comment at ServerObject.cpp:837 expects otherwise.
* `StopHolds` (ServerLifecycle): a stop that comes between the fork and `setPid` of a
  start stops nothing (CommandStop.cpp:34, 243).
* `ToldWhenDone` (NodePush): a restart's client may be answered after the stop already
  (AdminRegistryImp.cpp:634, 669 against AdminRegistryImp.h:283).

And where the models allow what a reader of the code may not expect:

* **ServerLifecycle.** keepActiving in the middle of a patch makes the state Activating,
  so that a second patch may be let in. A start whose load has failed enables the server
  even if a stop has disabled it meanwhile. `isStartTimeOut` compares seconds with
  milliseconds (ServerObject.cpp:614). The keep-alive thread works on a copy of the list
  of servers and may start one that has just been destroyed (KeepAliveThread.cpp:325). A
  start during an outage may come with a cached descriptor that is inactive: the server is
  enabled and started, but its setting stays inactive, and the keep-alive thread does not
  look at it again once it is down (ServerObject.cpp:820). A patch during an outage
  enables a server that a stop has disabled, when the cached descriptor has not been told
  of the stop yet.
* **Activator.** Up to MaxCount + 2 starts follow each other closer than both intervals, and
  starts that lie far apart count together. Nothing keeps PunishInterval above
  TimeInterval: where it is shorter, a limited server is started once in every
  PunishInterval, so that more starts fit into one TimeInterval.
* **CoreLimit.** A failing "open core" at the end of the limit is not repeated
  (ServerObject.cpp:1003); a patch forgets that cores are closed; going from Manual to Auto
  opens them only at a restart; `loadConfig` does not clear the buffer it fills.
* **ContainerStart.** A start that is allowed but not yet marked in `_pullData` is not seen
  by a stop or check; a failed pull sets Inactive before it removes its mark, so that the
  next pull may lose its own; a failing inspect leaves a container running with the state
  Inactive; a stop during a long pull fails and leaves Deactivating behind.
* **PatchFlow.** The md5 is checked under the download's lock, the package unpacked after
  it (CommandPatch.cpp:263, 320); the poll does not compare versions; a package served
  without a version may be overwritten by a second task. With an `ostype` a failed download
  does not end the patch (CommandPatch.cpp:280-294): a file of that name that an earlier one
  left is unpacked and installed, although the patch is reported as failed.
* **ServerOps.** The results of updateServerState (AdminRegistryImp.cpp:443), of the
  destroy in uninstallServer and of the stop in undeploy are not looked at; a keep-alive
  may come between the check for Inactive and the destruction; a restart whose stop times
  out leaves Active in the row of a stopped server; the descriptor cache keeps destroyed
  servers.
* **NodePush, NodeConnections.** A forwarded call is refused silently when nobody is
  connected (NodeManager.cpp:470); a NULL proxy is cached for ever (:206); the wait at :432
  has no predicate. A report that is handled after its connection's close lists a dead
  connection; deleteNode has no caller.
* **TaskLists.** A list is used after ExecuteTask's lock is released
  (ExecuteTask.cpp:1035), its thread starts in the constructor of a class with pure virtual
  methods (:184), an eachNum of 0 does not end (:754), and a crash leaves the flow of a
  batch off (:790). A server whose item was a graceful restart keeps its flow off.
* **PatchCache.** A reader of a block that is being reloaded copies a mixture of two
  packages; a replacement with the same size in the same second is not seen
  (PatchCache.cpp:66). A read that an error cuts short is taken for the package
  (PatchCache.cpp:255): the block is loaded with older bytes behind the new ones, and
  served until the package is replaced; only the node's check of the md5 notices.
* **StateSync.** synState sets `_noticed` after onUpdateServerResult(-1) has cleared it
  (ServerObject.cpp:257); the registration that a restarted registry is said to ask for
  never happens, since keepAlive always returns 0.
* **RouteCache.** ReapThread measures its intervals from start to start
  (ReapThread.cpp:111-140): behind a load that took longer comes the next after a tenth of a
  second, and writes to the buffer that a query from before the last swap still reads. A
  group-priority load that fails clears the writer's copy; with
  `bakFlag` 1 a servant of one node is passed over, so that an incremental load keeps the
  old list (DbHandle.cpp:1527).
* **BalanceWeights.** The product in LoadBalanceThread.cpp:303 is an int; a failing or
  empty load drops all weights; only the first endpoint's type decides whether a servant
  is looked at; hosts without rows stay dynamic.
* **BaseImages.** A stale read of the table overwrites a newer sha in memory until the next
  check (DockerPullThread.cpp:237).
* **StatBuffers.** A switch in the last seconds of an interval has the next batch dropped
  under the same flag (StatDbManager.cpp:647), or loses what is added between read and
  clear; so may a restart. A table that is 90 % full refuses without a word.
* **PropertyBuffers.** Values are counted, of the failing statement too, but records are
  skipped on the second try (PropertyDbManager.cpp:353, 558); a handler that gets no more
  reports keeps its buffer from being written (PropertyServer.cpp:172); a 95 % full table
  drops the rest of a message.
* **QueryFanOut.** The hours loop of tarsquerystat keeps the minutes, so that the last
  hour's table may be passed over (QueryStatServer/DbProxy.cpp:508, 606); runners share a
  map without a lock (:448); the policy is that of the last database.
* **ConfigLoad, ConfigLimit.** A failing getReferenceIds is forgotten when the next level
  succeeds (ConfigImp.cpp:677, 719). "10 loads in a minute" (:869) may be 22, and entries
  are never removed.
* **LogTraces.** The time of a trace is that of its first line (LogAggregation.cpp:335), so
  an unfinished one goes out after the time of a finished one and the reverse (:349); lines
  between the last poll and midnight are never read; what waits for repetition is lost in a
  crash, though the seek is past it; an older document of a trace may replace a newer one.

## 7. What is not modelled

* **tarsnode**: servers that are started by scripts or are not C++ beyond what
  ContainerStart has; CommandNotify's answer, CommandAddFile; the housekeeping threads,
  which scan files and ask platforms; `asyncSynState` "N" and destroyNode; loads between the
  statements of uninstallServer; late heartbeats of containers.
* **tarsAdminRegistry**: the operations that relay one statement each to MySQL; pushed
  commands other than start, stop and restart, which take the same way; nodes with an object
  of their own; a preparation that outlasts its list's time-out; the server and domain
  names of tars_dns; AdminReapThread.
* **tarsregistry**: NodeManager.cpp there is not called; findObjectByIdInSameGroup of
  CDbHandle neither; RegistryProcThread is a plain queue.
* **tarspatch**: upload, list and delete, direct reads of files: no state between calls.
* **tarslog**: writing of log files (LogImp) and the topology queries.
* **tarsconfig**: lists of files and loads of one level; deleteHistorys in tarspatch.
* **tarsquery...**: CutType "day"; DBThread is never started.
* **tarsnotify, tarsAuth**, tools and deployment: requests relayed to MySQL, and programs
  without concurrency.
* Everywhere: SQL texts, formatting, logging, and the RPC framework itself, which is
  taken to deliver a call at most once and to answer it or let it time out.

## 8. What could come next

The container's start composed with the commands of ServerLifecycle; LogImp's rolling
files; `asyncSynState` "N"; several servers on one node, for the limits they share;
`EnabledAgrees` for several handlers, under an invariant that says which of two
overlapping requests was the last to write the flag.
