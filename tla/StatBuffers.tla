---------------------------- MODULE StatBuffers -----------------------------
(***************************************************************************)
(* The double buffer of tarsstat.  Handlers add reports to the selected    *)
(* one of two shared-memory tables; the first report of a new interval     *)
(* switches.  ReapSSDThread waits until no handler has marked the other    *)
(* table for three seconds, reads it, hands the records to one thread per  *)
(* database, and clears it.  The threads write a batch only when its       *)
(* interval is later than the last one the database has.                   *)
(*                                                                         *)
(* Time is kept as the position in the current interval, in units of which *)
(* Grace make the three seconds; older intervals are counted up to two.    *)
(* Two assumptions tie threads to the clock: a handler adds its record     *)
(* within Grace of marking the table, and the reaper and the writers keep  *)
(* up with the intervals.  What is lost or repeated across a restart, or   *)
(* by failing statements, is kept in a ledger.                             *)
(***************************************************************************)
EXTENDS Integers, FiniteSets, Sequences

CONSTANTS
  Handler,     \* threads of the StatObj adapter
  Report,      \* records that are followed, each is reported once; others go on coming
  Db,          \* databases
  Interval,    \* insertInterval
  Grace,       \* the three seconds of ReapSSDThread::run
  MaxFaults    \* bound: restarts, and statements that fail once or twice

ASSUME StatBuffersAssumption ==
  /\ Interval \in Nat /\ Grace \in 1 .. Interval - 1
  /\ IsFiniteSet(Report) /\ MaxFaults \in Nat
  /\ "noise" \notin Report

VARIABLES
  phase,    \* position in the current interval
  dumped,   \* time since g_tLastDumpTime, up to Interval + 1; -1 while that is 0
  selected, \* _iSelectBuffer
  buffer,   \* the two hash maps
  age,      \* time since a handler marked a buffer, up to Grace
  unsent,   \* records not reported yet
  handler,  \* where each handler is, and for how long
  reaper,   \* where ReapSSDThread is, with the batch it has read
  last,     \* iLastIndex; 2 is none
  queue,    \* by database: batches handed over, with the age of their flag
  written,  \* by database: age of the last interval in t_ecstatus, 2 or more
  stored,   \* how often a report is in the database
  gone,     \* reports refused, skipped or given up, with the reason
  odd,      \* ledger: switches in the last seconds of an interval, restarts
  faults

threadVars == <<unsent, handler, reaper, last, queue>>
vars == <<phase, dumped, selected, buffer, age, threadVars, written,
          stored, gone, odd, faults>>

Buffer == 0 .. 1
None == 2
Noise == "noise"   \* the other records of a table, as one
Entry == Report \cup {Noise}
AtRest == [stage |-> "idle", index |-> 0, report |-> Noise, since |-> 0]
Asleep == [stage |-> "idle", batch |-> {}]

TypeOK ==
  /\ phase \in 0 .. Interval - 1 /\ dumped \in -1 .. Interval + 1
  /\ selected \in Buffer /\ buffer \in [Buffer -> SUBSET Entry]
  /\ age \in [Buffer -> [Handler -> 0 .. Grace]]
  /\ handler \in [Handler -> [stage : {"idle", "marked", "chosen"},
                              index : Buffer, report : Entry,
                              since : 0 .. Grace - 1]]
  /\ unsent \subseteq Report /\ odd \subseteq {"late switch", "restart"}
  /\ reaper \in [stage : {"idle", "read", "handed"}, batch : SUBSET Entry]
  /\ last \in 0 .. None
  /\ \A d \in Db : \A i \in 1 .. Len(queue[d]) :
       queue[d][i] \in [batch : SUBSET Report, flag : 0 .. 2, tries : 0 .. 1]
  /\ written \in [Db -> 0 .. 2] /\ stored \in [Report -> 0 .. 2]
  /\ \A g \in gone : g \in Report \X {"full", "skipped", "failed", "restart", "twice"}
  /\ faults \in 0 .. MaxFaults

Init ==
  /\ phase = 0 /\ dumped = -1 /\ selected = 0
  /\ buffer = [b \in Buffer |-> {}]
  /\ age = [b \in Buffer |-> [h \in Handler |-> Grace]]
  /\ handler = [h \in Handler |-> AtRest] /\ unsent = Report
  /\ reaper = Asleep /\ last = None
  /\ queue = [d \in Db |-> <<>>] /\ written = [d \in Db |-> 2]
  /\ stored = [r \in Report |-> 0] /\ gone = {} /\ odd = {} /\ faults = 0

Fault == faults < MaxFaults /\ faults' = faults + 1

-----------------------------------------------------------------------------
(***************************************************************************)
(* Handlers: StatImp::addHashMap                                           *)
(***************************************************************************)
Handling == UNCHANGED <<phase, reaper, last, queue, written, stored, faults>>

\* The selected table is marked; a switch before the mark only delays the reaper.
reportMicMsg(h) ==
  /\ handler[h].stage = "idle"
  /\ \E r \in unsent \cup {Noise} :
       /\ handler' = [handler EXCEPT ![h] = [AtRest EXCEPT !.stage = "marked", !.report = r]]
       /\ unsent' = unsent \ {r}
  /\ age' = [age EXCEPT ![selected][h] = 0]
  /\ UNCHANGED <<dumped, selected, buffer, gone, odd>> /\ Handling

\* The first report after the start only notes the interval it is in.
dump2file(h) ==
  /\ handler[h].stage = "marked"
  /\ IF dumped > Interval
     THEN /\ dumped' = phase /\ selected' = 1 - selected
          /\ odd' = IF phase + Grace >= Interval THEN odd \cup {"late switch"} ELSE odd
     ELSE /\ dumped' = IF dumped = -1 THEN phase ELSE dumped
          /\ UNCHANGED <<selected, odd>>
  /\ handler' = [handler EXCEPT ![h].stage = "chosen", ![h].index = selected']
  /\ UNCHANGED <<buffer, age, unsent, gone>> /\ Handling

\* A table that is 90% full, of whatever, refuses it; the caller is told nothing.
addHashMap(h) ==
  /\ handler[h].stage = "chosen"
  /\ LET b == handler[h].index
         r == handler[h].report
     IN  \/ gone' = gone \cup ({r} \ {Noise}) \X {"full"} /\ UNCHANGED buffer
         \/ buffer' = [buffer EXCEPT ![b] = @ \cup {r}] /\ UNCHANGED gone
  /\ handler' = [handler EXCEPT ![h] = AtRest]
  /\ UNCHANGED <<dumped, selected, age, unsent, odd>> /\ Handling

-----------------------------------------------------------------------------
(***************************************************************************)
(* ReapSSDThread                                                           *)
(***************************************************************************)
Reaping == UNCHANGED <<phase, dumped, selected, age, unsent, handler, written,
                       stored, gone, odd, faults>>

getSelectBuffer_Wrong(b) == \E h \in Handler : age[b][h] <= Grace

getSelectBuffer(b) == \A h \in Handler : age[b][h] >= Grace

Due_Wrong == LET b == 1 - selected IN last = None /\ getSelectBuffer(b)

Due == LET b == 1 - selected IN last # b /\ getSelectBuffer(b)

getDataFromBuffer ==
  /\ reaper.stage = "idle" /\ Due
  /\ LET b == 1 - selected
     IN  last' = b /\ reaper' = [stage |-> "read", batch |-> buffer[b]]
  /\ UNCHANGED <<buffer, queue>> /\ Reaping

\* Unless the table was empty, every database gets a batch, be it without a record:
\* they are dealt out in turn or by weight, and flagged with the interval it is now.
HandOver ==
  /\ reaper.stage = "read"
  /\ reaper' = [reaper EXCEPT !.stage = "handed"]
  /\ IF reaper.batch = {} THEN UNCHANGED queue
     ELSE \E db \in [reaper.batch \ {Noise} -> Db] :
            queue' = [d \in Db |-> Append(queue[d],
                        [batch |-> {r \in reaper.batch \ {Noise} : db[r] = d}, flag |-> 0, tries |-> 0])]
  /\ UNCHANGED <<buffer, last>> /\ Reaping

Clear_Wrong ==
  /\ reaper.stage = "handed"
  /\ reaper' = Asleep
  /\ UNCHANGED <<buffer, last, queue>> /\ Reaping

Clear ==
  /\ reaper.stage = "handed"
  /\ buffer' = [buffer EXCEPT ![last] = {}]
  /\ reaper' = Asleep
  /\ UNCHANGED <<last, queue>> /\ Reaping

-----------------------------------------------------------------------------
(***************************************************************************)
(* ReapSSDProcThread and StatDbManager, for one database                   *)
(***************************************************************************)
Writing == UNCHANGED <<phase, dumped, selected, buffer, age, unsent, handler,
                       reaper, last, odd>>

Done(d)  == queue' = [queue EXCEPT ![d] = Tail(@)]
Lose(rs, why) == gone' = gone \cup {<<r, why>> : r \in rs}

\* Rows are inserted with "insert ignore": a row of this interval is there once.
Stored(d) == stored' = [r \in Report |->
  IF r \in Head(queue[d]).batch THEN (IF stored[r] < 2 THEN stored[r] + 1 ELSE 2) ELSE stored[r]]

Later_Wrong(d) == written[d] > Head(queue[d]).flag + 1

\* The interval is in t_ecstatus already, from an earlier batch: nothing is written.
Later(d) == written[d] > Head(queue[d]).flag

Skip(d) ==
  /\ queue[d] # <<>> /\ ~Later(d) /\ Head(queue[d]).tries = 0
  /\ Done(d) /\ Lose(Head(queue[d]).batch, "skipped")
  /\ UNCHANGED <<written, stored, faults>> /\ Writing

\* t_ecstatus is updated when all rows are in; that may fail by itself.
insert2Db(d) ==
  /\ queue[d] # <<>> /\ (Later(d) \/ Head(queue[d]).tries = 1)
  /\ Done(d) /\ Stored(d)
  /\ \/ written' = [written EXCEPT ![d] = Head(queue[d]).flag] /\ UNCHANGED faults
     \/ Fault /\ UNCHANGED written
  /\ UNCHANGED gone /\ Writing

\* A failing statement is tried once more, and then there is an alarm.
insert2DbFails(d) ==
  /\ queue[d] # <<>> /\ (Later(d) \/ Head(queue[d]).tries = 1)
  /\ IF Head(queue[d]).tries = 0
     THEN Fault /\ queue' = [queue EXCEPT ![d][1].tries = 1] /\ UNCHANGED gone
     ELSE Done(d) /\ Lose(Head(queue[d]).batch, "failed") /\ UNCHANGED faults
  /\ UNCHANGED <<written, stored>> /\ Writing

-----------------------------------------------------------------------------
(***************************************************************************)
(* Time and restarts                                                       *)
(***************************************************************************)
KeepsUp ==
  /\ \A h \in Handler : handler[h].stage # "idle" => handler[h].since < Grace - 1
  /\ phase = Interval - 1 =>
       /\ reaper.stage = "idle" /\ ~Due
       /\ \A d \in Db : \A i \in 1 .. Len(queue[d]) : queue[d][i].flag < 1

Older(n, limit) == IF n < limit THEN n + 1 ELSE limit

Tick ==
  /\ KeepsUp
  /\ dumped' = IF dumped = -1 THEN -1 ELSE Older(dumped, Interval + 1)
  /\ handler' = [h \in Handler |-> IF handler[h].stage = "idle" THEN handler[h]
                                   ELSE [handler[h] EXCEPT !.since = @ + 1]]
  /\ age' = [b \in Buffer |-> [h \in Handler |-> Older(age[b][h], Grace)]]
  /\ IF phase < Interval - 1
     THEN phase' = phase + 1 /\ UNCHANGED <<queue, written>>
     ELSE /\ phase' = 0
          /\ queue' = [d \in Db |-> [i \in 1 .. Len(queue[d]) |->
                         [queue[d][i] EXCEPT !.flag = Older(@, 2)]]]
          /\ written' = [d \in Db |-> Older(written[d], 2)]
  /\ UNCHANGED <<selected, buffer, unsent, reaper, last, stored, gone, odd, faults>>

\* Which table is selected depends on the clock.
\* The tables are in shared memory and survive; what the threads hold does not.
Held == {r \in Report : \E h \in Handler : handler[h].report = r}
        \cup UNION {UNION {queue[d][i].batch : i \in 1 .. Len(queue[d])} : d \in Db}

Restart ==
  /\ Fault
  /\ selected' \in Buffer /\ dumped' = -1 /\ odd' = odd \cup {"restart"}
  /\ age' = [b \in Buffer |-> [h \in Handler |-> Grace]]
  /\ handler' = [h \in Handler |-> AtRest]
  /\ reaper' = Asleep /\ last' = None /\ queue' = [d \in Db |-> <<>>]
  /\ gone' = gone
       \cup {<<r, "restart">> : r \in {x \in Held : \A b \in Buffer : x \notin buffer[b]}}
       \cup {<<r, "twice">> : r \in IF reaper.stage = "handed" THEN reaper.batch \ {Noise} ELSE {}}
  /\ UNCHANGED <<phase, buffer, unsent, written, stored>>

Next ==
  \/ \E h \in Handler : reportMicMsg(h) \/ dump2file(h) \/ addHashMap(h)
  \/ getDataFromBuffer \/ HandOver \/ Clear
  \/ \E d \in Db : Skip(d) \/ insert2Db(d) \/ insert2DbFails(d)
  \/ Tick \/ Restart

Spec == Init /\ [][Next]_vars

\* Threads run, time passes, and reports go on coming in, to any handler.
FairSpec ==
  /\ Spec /\ WF_vars(Tick) /\ WF_vars(\E h \in Handler : reportMicMsg(h))
  /\ \A h \in Handler : WF_vars(dump2file(h)) /\ WF_vars(addHashMap(h))
  /\ WF_vars(getDataFromBuffer) /\ WF_vars(HandOver) /\ WF_vars(Clear)
  /\ \A d \in Db : WF_vars(Skip(d)) /\ WF_vars(insert2Db(d))
-----------------------------------------------------------------------------
Waiting(r) == \E b \in Buffer : r \in buffer[b]

\* A record that was reported is with a handler, in a table, on its way to a
\* database or in it, or it is in the ledger: no record is added to a table
\* between the moment the reaper has read it and the moment it is cleared,
\* unless a switch came in the last seconds of an interval, so that the next
\* one may come while the reaper is at work.
NothingLost == \A r \in Report :
  \/ r \in unsent \/ Waiting(r) \/ stored[r] > 0 \/ \E g \in gone : g[1] = r
  \/ r \in Held \/ r \in reaper.batch \/ "late switch" \in odd

StatInv == TypeOK /\ NothingLost

\* Nothing is in the database twice, as rows of two intervals, unless the
\* process was stopped between handing a table over and clearing it.
StoredOnce == \A r \in Report : stored[r] < 2 \/ <<r, "twice">> \in gone

\* A batch is taken for one that is in the database already only after a
\* switch in the last seconds of an interval, or after a restart.
SkippedOnlyIfLate == (\E r \in Report : <<r, "skipped">> \in gone) => odd # {}

\* What is in a table leaves it, as long as reports go on coming in and no
\* switch comes so late in an interval that the next one can overtake the reaper.
TablesDrain == \A r \in Report : Waiting(r) ~> (~Waiting(r) \/ "late switch" \in odd)

-----------------------------------------------------------------------------
\* Bounds of the run: one handler has the followed records, the others the rest, and
\* a state is not followed any further when no thread or table has a followed record.
Parted == LET first == CHOOSE h \in Handler : TRUE IN
  \A h \in Handler : handler[h].stage # "idle" => (h = first <=> handler[h].report \in Report)

Unsettled == \/ unsent # {} \/ Held # {} \/ \E r \in Report : Waiting(r) \/ r \in reaper.batch
=============================================================================
