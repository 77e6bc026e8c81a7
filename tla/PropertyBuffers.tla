-------------------------- MODULE PropertyBuffers ---------------------------
(***************************************************************************)
(* The double buffer of tarsproperty.  A handler first switches tables if  *)
(* an interval is over, then takes the selected one; when that is another  *)
(* than the last time, it marks the old one as left.  PropertyReapThread   *)
(* reads a table that every handler has left for a second, resets the      *)
(* marks, hands the records over and clears the table.                     *)
(*                                                                         *)
(* Grace ticks make that second; a handler adds its record within one.     *)
(***************************************************************************)
EXTENDS Integers, FiniteSets, Sequences

CONSTANTS
  Handler, Report,
  Interval,   \* ticks between switches
  Grace,      \* ticks a table has to be left for
  MaxInsert,  \* _maxInsertCount
  Values,     \* values of a record
  MaxFaults   \* bound: failing statements

VARIABLES
  selected, \* _selectBuffer
  waited,   \* ticks since the last switch, up to Interval
  buffer,   \* the two hash maps
  mark,     \* _buffer: by table and handler, whether it was left, and how long ago
  unsent, handler,
  seen,     \* _lastBufferIndex of each handler
  reaper, last,
  batch,    \* what the thread of the database is writing
  stored,
  gone,     \* records refused, given up with an alarm, or skipped by the second try
  crossed,  \* ledger: a switch came while a table was being read, or a table was
            \* read by marks that were all made before the last switch
  faults

vars == <<selected, waited, buffer, mark, unsent, handler, seen, reaper, last, batch,
          stored, gone, crossed, faults>>

Buffer == 0 .. 1
None == 2
Noise == "noise"
AtRest == [stage |-> "idle", index |-> 0, report |-> Noise, since |-> 0]
Left(b) == [h \in Handler |-> [left |-> b, age |-> Grace, round |-> TRUE]]

TypeOK ==
  /\ selected \in Buffer /\ waited \in 0 .. Interval
  /\ buffer \in [Buffer -> SUBSET Report]
  /\ mark \in [Buffer -> [Handler -> [left : BOOLEAN, age : 0 .. Grace, round : BOOLEAN]]]
  /\ unsent \subseteq Report /\ seen \in [Handler -> 0 .. None]
  /\ handler \in [Handler -> [stage : {"idle", "chosen"}, index : Buffer,
                              report : Report \cup {Noise}, since : 0 .. Grace]]
  /\ reaper \in [stage : {"idle", "read"}, batch : SUBSET Report] /\ last \in 0 .. None
  /\ stored \subseteq Report /\ crossed \in BOOLEAN /\ faults \in 0 .. MaxFaults
  /\ \A g \in gone : g \in Report \X {"full", "alarm", "skipped"}

Init ==
  /\ selected = 0 /\ waited = 0
  /\ buffer = [b \in Buffer |-> {}]
  /\ mark = [b \in Buffer |-> Left(b = 1)]
  /\ unsent = Report /\ handler = [h \in Handler |-> AtRest]
  /\ seen = [h \in Handler |-> None]
  /\ reaper = [stage |-> "idle", batch |-> {}] /\ last = None
  /\ batch = <<>> /\ stored = {} /\ gone = {} /\ crossed = FALSE /\ faults = 0

-----------------------------------------------------------------------------
Handling == UNCHANGED <<reaper, last, batch, stored, faults>>

\* A switch begins a round: marks of the table left are of the round before.
OfBefore(m) == [m EXCEPT !.round = ~m.left]

dump2file ==
  IF waited = Interval
  THEN /\ selected' = 1 - selected /\ waited' = 0
       /\ mark' = [mark EXCEPT ![selected] = [h \in Handler |-> OfBefore(@[h])]]
       /\ crossed' = (crossed \/ reaper.stage = "read")
  ELSE UNCHANGED <<selected, waited, mark, crossed>>

\* Records are alike: they come in one order.
Comes == {r \in unsent : r = CHOOSE s \in unsent : TRUE}

reportPropMsg(h) ==
  /\ handler[h].stage = "idle"
  /\ dump2file
  /\ \E r \in Comes \cup {Noise} :
       /\ handler' = [handler EXCEPT ![h] = [AtRest EXCEPT !.stage = "chosen",
                                              !.index = selected', !.report = r]]
       /\ unsent' = unsent \ {r}
  /\ UNCHANGED <<buffer, seen, gone>> /\ Handling

\* The first record added to another table marks the old one; a table that is
\* 95% full refuses the record and the rest of the message.
handlePropMsg(h) ==
  /\ handler[h].stage = "chosen"
  /\ LET b == handler[h].index
         r == handler[h].report
     IN  /\ seen' = [seen EXCEPT ![h] = b]
         /\ mark' = IF seen[h] \in {b, None} THEN mark
                    ELSE [mark EXCEPT ![seen[h]][h] = [left |-> TRUE, age |-> 0, round |-> TRUE]]
         /\ \/ r = Noise /\ UNCHANGED <<buffer, gone>>
            \/ r # Noise /\ gone' = gone \cup {<<r, "full">>} /\ UNCHANGED buffer
            \/ r # Noise /\ buffer' = [buffer EXCEPT ![b] = @ \cup {r}] /\ UNCHANGED gone
  /\ handler' = [handler EXCEPT ![h] = AtRest]
  /\ UNCHANGED <<selected, waited, unsent, crossed>> /\ Handling

-----------------------------------------------------------------------------
Reaping == UNCHANGED <<selected, waited, unsent, handler, seen, stored, gone, faults>>

getSelectBuffer_Wrong(b) == \A h \in Handler : mark[b][h].left

getSelectBuffer(b) == \A h \in Handler : mark[b][h].left /\ mark[b][h].age >= Grace

getDataFromBuffer ==
  /\ reaper.stage = "idle"
  /\ LET b == 1 - selected
     IN  /\ last # b /\ getSelectBuffer(b) /\ last' = b /\ reaper' = [stage |-> "read", batch |-> buffer[b]]
         /\ mark' = [mark EXCEPT ![b] = Left(FALSE)]
         /\ crossed' = (crossed \/ \A h \in Handler : ~mark[b][h].round)
  /\ UNCHANGED <<buffer, batch>> /\ Reaping

Arrangements(s) ==
  {f \in [1 .. Cardinality(s) -> s] : \A i, j \in DOMAIN f : f[i] = f[j] => i = j}

HandOver ==
  /\ reaper.stage = "read" /\ batch = <<>>
  /\ buffer' = [buffer EXCEPT ![last] = {}]
  /\ reaper' = [stage |-> "idle", batch |-> {}]
  /\ batch' \in Arrangements(reaper.batch)
  /\ UNCHANGED <<mark, last, crossed>> /\ Reaping

-----------------------------------------------------------------------------
Writing == UNCHANGED <<selected, waited, buffer, mark, unsent, handler, seen, reaper, last,
                       crossed>>

\* Statement k ends after the record with which it holds MaxInsert values.
PerStatement == (MaxInsert + Values - 1) \div Values
EndOf(k) == IF k * PerStatement < Len(batch) THEN k * PerStatement ELSE Len(batch)
Statements == {k \in 1 .. Len(batch) : (k - 1) * PerStatement < Len(batch)}
Records(i, j) == {batch[n] : n \in i .. j}

insert2Db ==
  /\ batch # <<>> /\ batch' = <<>>
  /\ stored' = stored \cup Records(1, Len(batch))
  /\ UNCHANGED <<gone, faults>> /\ Writing

\* Where the second try begins: it takes the number of values put into
\* statements, the failed one with them, for the number of records written.
Resumed(k) == LET n == Values * EndOf(k) IN IF n < Len(batch) THEN n ELSE Len(batch)

insert2DbFails ==
  /\ batch # <<>> /\ batch' = <<>>
  /\ faults < MaxFaults /\ faults' = faults + 1
  /\ \E k \in Statements :
       LET missed == Records(EndOf(k - 1) + 1, Resumed(k))
           rest   == Records(Resumed(k) + 1, Len(batch))
           before == Records(1, EndOf(k - 1))
           left   == gone \cup {<<r, "skipped">> : r \in missed}
       IN  \/ stored' = stored \cup before \cup rest /\ gone' = left
           \/ /\ rest # {}
              /\ stored' = stored \cup before
              /\ gone' = left \cup {<<r, "alarm">> : r \in rest}
  /\ Writing

Older(n, limit) == IF n < limit THEN n + 1 ELSE limit

Aged(m) == [m EXCEPT !.age = IF m.left THEN Older(@, Grace) ELSE @]

Tick ==
  /\ \A h \in Handler : handler[h].stage # "idle" => handler[h].since < Grace - 1
  /\ waited' = Older(waited, Interval)
  /\ mark' = [b \in Buffer |-> [h \in Handler |-> Aged(mark[b][h])]]
  /\ handler' = [h \in Handler |-> IF handler[h].stage = "idle" THEN handler[h]
                                  ELSE [handler[h] EXCEPT !.since = @ + 1]]
  /\ UNCHANGED <<selected, buffer, unsent, seen, reaper, last, batch, stored, gone, crossed,
                 faults>>

Next ==
  \/ \E h \in Handler : reportPropMsg(h) \/ handlePropMsg(h)
  \/ getDataFromBuffer \/ HandOver \/ insert2Db \/ insert2DbFails \/ Tick

Spec == Init /\ [][Next]_vars

-----------------------------------------------------------------------------
\* A record that was reported is somewhere, or it was refused, given up with
\* an alarm, or passed over by the second try of a failed batch.  No handler
\* adds to a table between its being read and cleared, but for two cases: a
\* switch comes just then, or the table is read by marks of an earlier round.
NothingLost == \A r \in Report :
  \/ r \in unsent \/ \E h \in Handler : handler[h].report = r
  \/ \E b \in Buffer : r \in buffer[b]
  \/ r \in reaper.batch \/ \E i \in 1 .. Len(batch) : batch[i] = r
  \/ r \in stored \/ crossed \/ \E g \in gone : g[1] = r
=============================================================================
