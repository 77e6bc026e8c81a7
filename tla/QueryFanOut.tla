----------------------------- MODULE QueryFanOut ----------------------------
(***************************************************************************)
(* A query of the monitoring data.  tarsquerystat and tarsqueryproperty    *)
(* answer it with the same code: a runner takes the query from the queue,  *)
(* gives one job for each database to a pool of threads, waits until a     *)
(* counter has reached the number of jobs, does the same again for the     *)
(* time of the last insert, and answers.  A job reads the tables of the    *)
(* hours asked for, one after the other.                                   *)
(*                                                                         *)
(* The jobs write to vectors of the runner's stack frame, and the counter  *)
(* is used for both rounds and for the next query.  Rows stand for what    *)
(* is summed up; the tables are cut by hour.  A thread that has counted    *)
(* itself only notifies the runner, which looks at the counter again       *)
(* whether it was notified, or waited long enough: that step is left out.  *)
(***************************************************************************)
EXTENDS Naturals, FiniteSets

CONSTANTS
  Runner,    \* HandleThreadRunners, each with a DbProxy of its own
  Db,
  PoolSize,  \* threads of _poolDb, and of _timeCheck
  Hours, Minutes,  \* bounds: the hours of the day, and the minutes of an hour
  MaxQueries, MaxFaults  \* bounds: queries, failing statements

VARIABLES
  queries,  \* how many have been taken
  runner,   \* what each runner does, its query, its counter, its answer
  job,      \* of each runner and database
  faults

vars == <<queries, runner, job, faults>>

Flag == (0 .. Hours - 1) \X Minutes
Row == [db : Db, at : Flag]
Before(f, g) == f[1] < g[1] \/ (f[1] = g[1] /\ f[2] <= g[2])

\* What a job has: the next flag, its result so far, whether it failed.
NoJob == [kind |-> "none", stage |-> "counted", at |-> <<0, 0>>, rows |-> {}, ok |-> TRUE]
Idle == [stage |-> "pop", from |-> <<0, 0>>, to |-> <<0, 0>>, times |-> 0, atomic |-> 0,
         rows |-> {}, ok |-> TRUE, last |-> FALSE]

TypeOK ==
  /\ queries \in 0 .. MaxQueries /\ faults \in 0 .. MaxFaults
  /\ runner \in [Runner -> [stage : {"pop", "data", "time", "answered"}, from : Flag, to : Flag,
                            times : {0, Cardinality(Db)}, atomic : 0 .. Cardinality(Db),
                            rows : SUBSET Row, ok : BOOLEAN, last : BOOLEAN]]
  /\ job \in [Runner \X Db -> [kind : {"none", "data", "time"},
                               stage : {"queued", "running", "counted"},
                               at : (0 .. Hours) \X Minutes, rows : SUBSET Row, ok : BOOLEAN]]

Init ==
  /\ queries = 0 /\ faults = 0
  /\ runner = [r \in Runner |-> Idle]
  /\ job = [j \in Runner \X Db |-> NoJob]

\* exec of one job for each database.
Fork(r, kind, at) ==
  job' = [j \in Runner \X Db |->
           IF j[1] = r
           THEN [kind |-> kind, stage |-> "queued", at |-> at, rows |-> {}, ok |-> TRUE]
           ELSE job[j]]

-----------------------------------------------------------------------------
queryData(r) ==
  /\ runner[r].stage = "pop" /\ queries < MaxQueries
  /\ queries' = queries + 1
  /\ \E from, to \in Flag :
       /\ runner' = [runner EXCEPT ![r] = [Idle EXCEPT !.stage = "data", !.from = from, !.to = to,
                                             !.times = Cardinality(Db),
                                             !.atomic = runner[r].atomic]]
       /\ Fork(r, "data", from)
  /\ UNCHANGED faults

Selected(r, d, at) ==
  {x \in Row : x.db = d /\ x.at[1] = at[1]
                 /\ Before(runner[r].from, x.at) /\ Before(x.at, runner[r].to)}

\* tFlagInc adds an hour and keeps the minutes.
tFlagInc(at) == <<at[1] + 1, at[2]>>

take(j) ==
  /\ job[j].stage = "queued"
  /\ Cardinality({k \in DOMAIN job : job[k].kind = job[j].kind /\ job[k].stage = "running"})
       < PoolSize
  /\ job' = [job EXCEPT ![j].stage = "running"]
  /\ UNCHANGED <<queries, runner, faults>>

Counted(j, ok) ==
  /\ job' = [job EXCEPT ![j].stage = "counted", ![j].ok = ok]
  /\ runner' = [runner EXCEPT ![j[1]].atomic = @ + 1]

\* The table of the next hour, or the end: the job's result is where the runner
\* will look for it, and it is counted.
query(j) ==
  /\ job[j].stage = "running" /\ job[j].kind = "data"
  /\ \/ /\ Before(job[j].at, runner[j[1]].to) /\ job[j].at[1] < Hours
        /\ job' = [job EXCEPT ![j].at = tFlagInc(@),
                              ![j].rows = @ \cup Selected(j[1], j[2], job[j].at)]
        /\ UNCHANGED <<runner, faults>>
     \/ /\ ~(Before(job[j].at, runner[j[1]].to) /\ job[j].at[1] < Hours)
        /\ Counted(j, TRUE) /\ UNCHANGED faults
     \/ faults < MaxFaults /\ faults' = faults + 1 /\ Counted(j, FALSE)
  /\ UNCHANGED queries

selectLastMinTime(j) ==
  /\ job[j].stage = "running" /\ job[j].kind = "time"
  /\ \/ Counted(j, TRUE) /\ UNCHANGED faults
     \/ faults < MaxFaults /\ faults' = faults + 1 /\ Counted(j, FALSE)
  /\ UNCHANGED queries

\* Every job has been counted.
AllDone(r) == runner[r].atomic = runner[r].times

createResp_Wrong(r) ==
  [runner[r] EXCEPT !.stage = "time", !.times = Cardinality(Db),
     !.ok = \A d \in Db : job[<<r, d>>].ok, !.rows = UNION {job[<<r, d>>].rows : d \in Db}]

\* The counter is reset, the second round begins; one failing database is a
\* failing query.
createResp(r) ==
  [runner[r] EXCEPT !.stage = "time", !.times = Cardinality(Db), !.atomic = 0,
     !.ok = \A d \in Db : job[<<r, d>>].ok, !.rows = UNION {job[<<r, d>>].rows : d \in Db}]

Join(r) ==
  /\ runner[r].stage = "data" /\ AllDone(r)
  /\ runner' = [runner EXCEPT ![r] = createResp(r)]
  /\ Fork(r, "time", <<0, 0>>)
  /\ UNCHANGED <<queries, faults>>

\* last: the least time of all databases is told.
getLastTime(r) ==
  /\ runner[r].stage = "time" /\ AllDone(r)
  /\ runner' = [runner EXCEPT ![r].stage = "answered", ![r].times = 0, ![r].atomic = 0,
                              ![r].last = \A d \in Db : job[<<r, d>>].ok]
  /\ UNCHANGED <<queries, job, faults>>

\* The answer is sent, and the item deleted.
respond(r) ==
  /\ runner[r].stage = "answered"
  /\ runner' = [runner EXCEPT ![r].stage = "pop"]
  /\ UNCHANGED <<queries, job, faults>>

Next ==
  \/ \E r \in Runner : queryData(r) \/ Join(r) \/ getLastTime(r) \/ respond(r)
  \/ \E j \in Runner \X Db : take(j) \/ query(j) \/ selectLastMinTime(j)

Spec == Init /\ [][Next]_vars

-----------------------------------------------------------------------------
\* No job of a query is left when its answer is sent, so that none writes to
\* vectors that are gone; and a good answer has every row asked for, of every
\* database: unless the minutes of the first flag are behind those of the last,
\* for then the loop over the hours ends before the last one.
AnswerComplete ==
  \A r \in Runner : runner[r].stage = "answered" =>
    LET q == runner[r]
    IN  /\ \A d \in Db : job[<<r, d>>].stage = "counted"
        /\ q.ok => \/ q.rows = {x \in Row : Before(q.from, x.at) /\ Before(x.at, q.to)}
                   \/ q.from[2] > q.to[2]
=============================================================================
