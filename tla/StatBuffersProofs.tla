------------------------- MODULE StatBuffersProofs --------------------------
(***************************************************************************)
(* What StatBuffers promises of the double buffer, for every number of     *)
(* handlers, reports and databases, and every Interval and Grace.          *)
(*                                                                         *)
(* The invariant has four layers, each of which uses the ones before it.   *)
(* Types gives every field its type.  Timing is what the clock separates:  *)
(* unless a switch comes in the last Grace of an interval, no handler has  *)
(* the table in hand that the reaper reads, and the reaper is done when    *)
(* the next switch comes.  Kept says of each record where it is, Once that *)
(* it is there only.  Flagged says that the batches of a database are in   *)
(* order and later than what it has, so that none is taken for an old one. *)
(***************************************************************************)
EXTENDS StatBuffers, TLAPS

HandlerType == [stage : {"idle", "marked", "chosen"}, index : Buffer,
                report : Entry, since : 0 .. Grace - 1]
BatchType == [batch : SUBSET Report, flag : 0 .. 2, tries : 0 .. 1]
Reason == {"full", "skipped", "failed", "restart", "twice"}

ReaperType == [stage : {"idle", "read", "handed"}, batch : SUBSET Entry]

Types ==
  /\ phase \in 0 .. Interval - 1 /\ dumped \in -1 .. Interval + 1
  /\ selected \in Buffer /\ buffer \in [Buffer -> SUBSET Entry]
  /\ age \in [Buffer -> [Handler -> 0 .. Grace]] /\ handler \in [Handler -> HandlerType]
  /\ unsent \subseteq Report /\ odd \subseteq {"late switch", "restart"}
  /\ reaper \in ReaperType /\ last \in 0 .. None
  /\ queue \in [Db -> Seq(BatchType)]
  /\ written \in [Db -> 0 .. 2] /\ stored \in [Report -> 0 .. 2]
  /\ \A g \in gone : g \in Report \X Reason
  /\ faults \in 0 .. MaxFaults

-----------------------------------------------------------------------------
(***************************************************************************)
(* What the types say, field by field                                      *)
(***************************************************************************)
LEMMA Tables == Buffer = {0, 1}
BY DEF Buffer

\* A table may also hold records that are not followed.
LEMMA Entries ==
  /\ Report \subseteq Entry /\ Noise \in Entry /\ Noise \notin Report
  /\ \A x \in Entry : x \in Report \/ x = Noise
BY StatBuffersAssumption DEF Entry, Noise

LEMMA Read == ASSUME Types PROVE reaper.batch \subseteq Entry /\ reaper.batch \ {Noise} \subseteq Report
<1>1. reaper.batch \subseteq Entry
  BY DEF Types, ReaperType
<1>2. QED
  BY <1>1, Entries

LEMMA Bounds ==
  ASSUME Types
  PROVE  /\ Interval \in Nat /\ Grace \in Nat /\ 1 <= Grace /\ Grace <= Interval - 1
         /\ phase \in Nat /\ phase <= Interval - 1
         /\ dumped \in Int /\ -1 <= dumped /\ dumped <= Interval + 1
         /\ selected \in {0, 1}
<1>1. /\ phase \in 0 .. Interval - 1 /\ dumped \in -1 .. Interval + 1 /\ selected \in 0 .. 1
  BY DEF Types, Buffer
<1>2. QED
  BY <1>1, StatBuffersAssumption

LEMMA Handled ==
  ASSUME Types, NEW h \in Handler
  PROVE  /\ handler[h] \in HandlerType
         /\ handler[h].stage \in {"idle", "marked", "chosen"}
         /\ handler[h].index \in {0, 1} /\ handler[h].report \in Entry
         /\ handler[h].since \in Nat /\ handler[h].since <= Grace - 1
<1>1. handler \in [Handler -> HandlerType]
  BY DEF Types
<1>2. handler[h] \in HandlerType
  BY <1>1
<1>3. handler[h].since \in 0 .. Grace - 1 /\ Grace \in Int
  BY <1>2, StatBuffersAssumption DEF HandlerType
<1>4. QED
  BY <1>2, <1>3 DEF HandlerType, Buffer

LEMMA Record ==
  ASSUME NEW n \in HandlerType
  PROVE  n = [stage |-> n.stage, index |-> n.index, report |-> n.report, since |-> n.since]
BY DEF HandlerType

LEMMA Ages ==
  ASSUME Types, NEW b \in {0, 1}, NEW h \in Handler
  PROVE  age[b][h] \in Nat /\ age[b][h] <= Grace
<1>1. age \in [Buffer -> [Handler -> 0 .. Grace]] /\ b \in Buffer
  BY Tables DEF Types
<1>2. age[b][h] \in 0 .. Grace
  BY <1>1
<1>3. QED
  BY <1>2, StatBuffersAssumption

LEMMA Queues ==
  ASSUME Types, NEW d \in Db
  PROVE  /\ queue[d] \in Seq(BatchType) /\ Len(queue[d]) \in Nat
         /\ \A i \in 1 .. Len(queue[d]) :
              /\ queue[d][i] \in BatchType
              /\ queue[d][i].batch \subseteq Report /\ queue[d][i].flag \in 0 .. 2
<1>1. queue[d] \in Seq(BatchType)
  BY DEF Types
<1>2. Len(queue[d]) \in Nat /\ \A i \in 1 .. Len(queue[d]) : queue[d][i] \in BatchType
  BY <1>1
<1>3. QED
  BY <1>1, <1>2 DEF BatchType

LEMMA TypesAreTypeOK == Types => TypeOK
<1> SUFFICES ASSUME Types PROVE TypeOK
  OBVIOUS
<1>1. \A d \in Db : \A i \in 1 .. Len(queue[d]) :
        queue[d][i] \in [batch : SUBSET Report, flag : 0 .. 2, tries : 0 .. 1]
  BY Queues DEF BatchType
<1>2. QED
  BY <1>1, Zenon DEF Types, TypeOK, HandlerType, ReaperType, Reason

LEMMA TypesInit == Init => Types
<1> SUFFICES ASSUME Init PROVE Types
  OBVIOUS
<1>1. AtRest \in HandlerType
  BY StatBuffersAssumption DEF AtRest, HandlerType, Buffer, Entry
<1>2. Asleep \in ReaperType
  BY DEF Asleep, ReaperType
<1>3. /\ phase \in 0 .. Interval - 1 /\ dumped \in -1 .. Interval + 1
      /\ faults \in 0 .. MaxFaults /\ Grace \in 0 .. Grace /\ last \in 0 .. None
  BY StatBuffersAssumption DEF Init, None
<1>4. queue \in [Db -> Seq(BatchType)]
  BY DEF Init
<1>5. QED
  BY <1>1, <1>2, <1>3, <1>4 DEF Init, Buffer, Types

-----------------------------------------------------------------------------
(***************************************************************************)
(* What each step does, field by field, and that it keeps the types        *)
(***************************************************************************)
LEMMA ReportMoves ==
  ASSUME Types, NEW h \in Handler, reportMicMsg(h)
  PROVE  /\ \A k \in Handler \ {h} : handler'[k] = handler[k]
         /\ \E r \in unsent \cup {Noise} :
              /\ unsent' = unsent \ {r}
              /\ handler'[h] = [stage |-> "marked", index |-> 0, report |-> r, since |-> 0]
         /\ \A b \in {0, 1}, k \in Handler :
              age'[b][k] = IF b = selected /\ k = h THEN 0 ELSE age[b][k]
         /\ UNCHANGED <<dumped, selected, buffer, gone, odd>> /\ Handling
         /\ Types'
<1>1. /\ handler \in [Handler -> HandlerType] /\ age \in [Buffer -> [Handler -> 0 .. Grace]]
      /\ selected \in Buffer /\ unsent \subseteq Report
  BY DEF Types
<1>2. PICK r \in unsent \cup {Noise} :
        /\ handler' = [handler EXCEPT ![h] = [AtRest EXCEPT !.stage = "marked", !.report = r]]
        /\ unsent' = unsent \ {r}
  BY DEF reportMicMsg
<1>3. PICK m : m = [stage |-> "marked", index |-> 0, report |-> r, since |-> 0]
  OBVIOUS
<1>4. handler' = [handler EXCEPT ![h] = m]
  <2>1. AtRest \in HandlerType /\ r \in Entry
    BY <1>1, StatBuffersAssumption DEF AtRest, HandlerType, Buffer, Entry
  <2>2. PICK n : n = [AtRest EXCEPT !.stage = "marked", !.report = r]
    OBVIOUS
  <2>3. n \in HandlerType /\ n.stage = "marked" /\ n.report = r
    BY <2>1, <2>2 DEF HandlerType
  <2>4. n.index = AtRest.index /\ n.since = AtRest.since
    BY <2>1, <2>2 DEF HandlerType
  <2>5. AtRest.index = 0 /\ AtRest.since = 0
    BY DEF AtRest
  <2>6. n = m
    BY <1>3, <2>3, <2>4, <2>5, Record
  <2>7. QED
    BY <1>2, <2>2, <2>6
<1>5. m \in HandlerType
  BY <1>1, <1>3, StatBuffersAssumption DEF HandlerType, Buffer, Entry
<1>6. handler' \in [Handler -> HandlerType] /\ unsent' \subseteq Report
  BY <1>1, <1>2, <1>4, <1>5
<1>7. age' = [age EXCEPT ![selected][h] = 0]
  BY DEF reportMicMsg
<1>8. age' \in [Buffer -> [Handler -> 0 .. Grace]]
  BY <1>1, <1>7, StatBuffersAssumption
<1>9. /\ UNCHANGED <<dumped, selected, buffer, gone, odd>> /\ Handling
  BY DEF reportMicMsg
<1>10. Types'
  BY <1>6, <1>8, <1>9 DEF Types, Handling
<1>11. \A k \in Handler \ {h} : handler'[k] = handler[k]
  BY <1>1, <1>4
<1>12. handler'[h] = m
  BY <1>1, <1>4
<1>13. \A b \in {0, 1}, k \in Handler :
         age'[b][k] = IF b = selected /\ k = h THEN 0 ELSE age[b][k]
  BY <1>1, <1>7 DEF Buffer
<1>14. QED
  BY <1>2, <1>3, <1>9, <1>10, <1>11, <1>12, <1>13

LEMMA ChooseMoves ==
  ASSUME Types, NEW h \in Handler, dump2file(h)
  PROVE  /\ handler[h].stage = "marked"
         /\ \A k \in Handler \ {h} : handler'[k] = handler[k]
         /\ handler'[h] = [stage |-> "chosen", index |-> selected',
                           report |-> handler[h].report, since |-> handler[h].since]
         /\ \/ /\ dumped > Interval /\ dumped' = phase /\ selected' = 1 - selected
               /\ odd' = IF phase + Grace >= Interval THEN odd \cup {"late switch"} ELSE odd
            \/ /\ dumped <= Interval /\ dumped' = IF dumped = -1 THEN phase ELSE dumped
               /\ selected' = selected /\ odd' = odd
         /\ UNCHANGED <<buffer, age, unsent, gone>> /\ Handling
         /\ Types'
<1>1. handler \in [Handler -> HandlerType] /\ handler[h].stage = "marked"
  BY DEF Types, dump2file
<1>2. /\ \/ /\ dumped > Interval /\ dumped' = phase /\ selected' = 1 - selected
            /\ odd' = IF phase + Grace >= Interval THEN odd \cup {"late switch"} ELSE odd
         \/ /\ dumped <= Interval /\ dumped' = IF dumped = -1 THEN phase ELSE dumped
            /\ selected' = selected /\ odd' = odd
      /\ UNCHANGED <<buffer, age, unsent, gone>> /\ Handling
  <2>1. UNCHANGED <<buffer, age, unsent, gone>> /\ Handling
    BY DEF dump2file
  <2>2. CASE dumped > Interval
    BY <2>1, <2>2 DEF dump2file
  <2>3. CASE ~(dumped > Interval)
    <3>1. dumped <= Interval
      BY <2>3, Bounds
    <3>2. QED
      BY <2>1, <2>3, <3>1 DEF dump2file
  <2>4. QED
    BY <2>2, <2>3
<1>3. handler' = [handler EXCEPT ![h].stage = "chosen", ![h].index = selected']
  BY DEF dump2file
<1>4. PICK m : m = [stage |-> "chosen", index |-> selected',
                    report |-> handler[h].report, since |-> handler[h].since]
  OBVIOUS
<1>6. selected' \in Buffer
  <2>1. selected' \in {selected, 1 - selected}
    BY <1>2
  <2>2. QED
    BY <2>1, Bounds, Tables
<1>5. handler' = [handler EXCEPT ![h] = m]
  <2>1. PICK n : n = [handler[h] EXCEPT !.stage = "chosen", !.index = selected']
    OBVIOUS
  <2>2. handler' = [handler EXCEPT ![h] = n]
    BY <1>1, <1>3, <2>1
  <2>3. /\ n.stage = "chosen" /\ n.index = selected' /\ n.report = handler[h].report
        /\ n.since = handler[h].since
    BY <1>1, <2>1 DEF HandlerType
  <2>4. n \in HandlerType
    BY <1>1, <1>6, <2>1 DEF HandlerType
  <2>5. n = m
    BY <1>4, <2>3, <2>4, Record
  <2>6. QED
    BY <2>2, <2>5
<1>7. m \in HandlerType
  BY <1>1, <1>4, <1>6 DEF HandlerType
<1>8. handler' \in [Handler -> HandlerType]
  BY <1>1, <1>5, <1>7
<1>9. dumped' \in -1 .. Interval + 1
  <2>1. dumped' \in {phase, dumped}
    BY <1>2
  <2>2. dumped' \in Int /\ -1 <= dumped' /\ dumped' <= Interval + 1
    BY <2>1, Bounds
  <2>3. QED
    BY <2>2, Bounds
<1>10. odd' \subseteq {"late switch", "restart"}
  BY <1>2 DEF Types
<1>11. Types'
  BY <1>2, <1>6, <1>8, <1>9, <1>10 DEF Types, Handling
<1>12. QED
  BY <1>1, <1>2, <1>4, <1>5, <1>11

LEMMA AddMoves ==
  ASSUME Types, NEW h \in Handler, addHashMap(h)
  PROVE  /\ handler[h].stage = "chosen"
         /\ \A k \in Handler \ {h} : handler'[k] = handler[k]
         /\ handler'[h] = AtRest
         /\ \/ handler[h].report = Noise /\ UNCHANGED <<buffer, gone>>
            \/ /\ handler[h].report \in Report /\ UNCHANGED buffer
               /\ gone' = gone \cup {<<handler[h].report, "full">>}
            \/ /\ UNCHANGED gone
               /\ buffer'[handler[h].index] = buffer[handler[h].index] \cup {handler[h].report}
               /\ \A b \in {0, 1} : b # handler[h].index => buffer'[b] = buffer[b]
         /\ UNCHANGED <<dumped, selected, age, unsent, odd>> /\ Handling
         /\ Types'
<1>1. handler \in [Handler -> HandlerType] /\ handler[h].stage = "chosen"
  BY DEF Types, addHashMap
<1>2. handler' = [handler EXCEPT ![h] = AtRest]
      /\ UNCHANGED <<dumped, selected, age, unsent, odd>> /\ Handling
  BY DEF addHashMap
<1>3. AtRest \in HandlerType
  BY StatBuffersAssumption DEF AtRest, HandlerType, Buffer, Entry
<1>4. handler' \in [Handler -> HandlerType]
  BY <1>1, <1>2, <1>3
<1>5. PICK b \in Buffer, r \in Entry : b = handler[h].index /\ r = handler[h].report
  BY Handled DEF Buffer
<1>6. \/ r = Noise /\ UNCHANGED <<buffer, gone>>
      \/ r \in Report /\ UNCHANGED buffer /\ gone' = gone \cup {<<r, "full">>}
      \/ UNCHANGED gone /\ buffer' = [buffer EXCEPT ![b] = @ \cup {r}]
  <2>1. \/ gone' = gone \cup ({r} \ {Noise}) \X {"full"} /\ UNCHANGED buffer
        \/ buffer' = [buffer EXCEPT ![b] = @ \cup {r}] /\ UNCHANGED gone
    BY <1>5 DEF addHashMap
  <2>2. CASE r = Noise
    <3>1. gone \cup ({r} \ {Noise}) \X {"full"} = gone
      BY <2>2
    <3>2. QED
      BY <2>1, <2>2, <3>1
  <2>3. CASE r \in Report
    <3>1. ({r} \ {Noise}) \X {"full"} = {<<r, "full">>}
      <4>1. r # Noise
        BY <2>3, Entries
      <4>2. {r} \ {Noise} = {r}
        BY <4>1
      <4>3. QED
        BY <4>2
    <3>2. QED
      BY <2>1, <2>3, <3>1
  <2>4. QED
    BY <2>2, <2>3, Entries
<1>7. buffer' \in [Buffer -> SUBSET Entry]
  <2>1. PICK f \in [Buffer -> SUBSET Entry] : f = buffer
    BY DEF Types
  <2>2. CASE buffer' = buffer
    BY <2>1, <2>2
  <2>3. CASE buffer' = [buffer EXCEPT ![b] = @ \cup {r}]
    <3>1. PICK s \in SUBSET Entry : s = f[b] \cup {r}
      BY <2>1
    <3>2. buffer' = [f EXCEPT ![b] = s]
      BY <2>1, <2>3, <3>1
    <3>3. QED
      BY <3>2
  <2>4. QED
    BY <1>6, <2>2, <2>3
<1>8. \A g \in gone' : g \in Report \X Reason
  <2>1. SUFFICES ASSUME NEW g \in gone' PROVE g \in Report \X Reason
    OBVIOUS
  <2>2. CASE g \in gone
    BY <2>2 DEF Types
  <2>3. CASE g = <<r, "full">> /\ r \in Report
    BY <2>3 DEF Reason
  <2>4. QED
    BY <1>6, <2>1, <2>2, <2>3
<1>9. Types'
  BY <1>2, <1>4, <1>7, <1>8 DEF Types, Handling
<1>10. QED
  <2>1. \A k \in Handler \ {h} : handler'[k] = handler[k]
    BY <1>1, <1>2
  <2>2. handler'[h] = AtRest
    BY <1>1, <1>2
  <2>3. buffer' = [buffer EXCEPT ![b] = @ \cup {r}] =>
          buffer'[b] = buffer[b] \cup {r} /\ \A c \in {0, 1} : c # b => buffer'[c] = buffer[c]
    BY Tables DEF Types
  <2>4. QED
    BY <1>1, <1>2, <1>5, <1>6, <1>9, <2>1, <2>2, <2>3

LEMMA ReadMoves ==
  ASSUME Types, getDataFromBuffer
  PROVE  /\ reaper.stage = "idle" /\ last # 1 - selected /\ getSelectBuffer(1 - selected)
         /\ last' = 1 - selected
         /\ reaper' = [stage |-> "read", batch |-> buffer[1 - selected]]
         /\ UNCHANGED <<buffer, queue>> /\ Reaping
         /\ Types'
<1>1. /\ reaper.stage = "idle" /\ last # 1 - selected /\ getSelectBuffer(1 - selected)
      /\ last' = 1 - selected
      /\ reaper' = [stage |-> "read", batch |-> buffer[1 - selected]]
      /\ UNCHANGED <<buffer, queue>> /\ Reaping
  BY DEF getDataFromBuffer, Due
<1>2. 1 - selected \in Buffer /\ last' \in 0 .. None
  BY <1>1, Bounds DEF Buffer, None
<1>3. reaper' \in ReaperType
  BY <1>1, <1>2 DEF Types, ReaperType
<1>4. Types'
  BY <1>1, <1>2, <1>3 DEF Types, Reaping
<1>5. QED
  BY <1>1, <1>4

LEMMA HandMoves ==
  ASSUME Types, HandOver
  PROVE  /\ reaper.stage = "read"
         /\ reaper' = [stage |-> "handed", batch |-> reaper.batch]
         /\ \/ reaper.batch = {} /\ queue' = queue
            \/ /\ reaper.batch # {}
               /\ \E db \in [reaper.batch \ {Noise} -> Db] : \A d \in Db :
                    queue'[d] = Append(queue[d],
                      [batch |-> {r \in reaper.batch \ {Noise} : db[r] = d}, flag |-> 0, tries |-> 0])
         /\ UNCHANGED <<buffer, last>> /\ Reaping
         /\ Types'
<1>1. /\ reaper.stage = "read" /\ reaper' = [reaper EXCEPT !.stage = "handed"]
      /\ UNCHANGED <<buffer, last>> /\ Reaping
  BY DEF HandOver
<1>2. /\ reaper' = [stage |-> "handed", batch |-> reaper.batch]
      /\ reaper.batch \subseteq Entry /\ reaper.batch \ {Noise} \subseteq Report
  BY <1>1, Read DEF Types, ReaperType
<1>3. reaper' \in ReaperType
  BY <1>2 DEF ReaperType
<1>4. CASE reaper.batch = {}
  <2>1. queue' = queue
    BY <1>4 DEF HandOver
  <2>2. Types'
    BY <1>1, <1>3, <2>1 DEF Types, Reaping
  <2>3. QED
    BY <1>1, <1>2, <1>4, <2>1, <2>2
<1>5. CASE reaper.batch # {}
  <2>1. PICK db \in [reaper.batch \ {Noise} -> Db] :
          queue' = [d \in Db |-> Append(queue[d],
                      [batch |-> {r \in reaper.batch \ {Noise} : db[r] = d}, flag |-> 0, tries |-> 0])]
    BY <1>5 DEF HandOver
  <2>2. \A d \in Db :
          [batch |-> {r \in reaper.batch \ {Noise} : db[r] = d}, flag |-> 0, tries |-> 0] \in BatchType
    BY <1>2 DEF BatchType
  <2>3. \A d \in Db : queue'[d] = Append(queue[d],
                      [batch |-> {r \in reaper.batch \ {Noise} : db[r] = d}, flag |-> 0, tries |-> 0])
    BY <2>1
  <2>4. queue' \in [Db -> Seq(BatchType)]
    <3>1. SUFFICES ASSUME NEW d \in Db PROVE queue'[d] \in Seq(BatchType)
      BY <2>1
    <3>2. QED
      <4>1. queue[d] \in Seq(BatchType)
        BY Queues
      <4>2. PICK e \in BatchType : queue'[d] = Append(queue[d], e)
        BY <2>2, <2>3
      <4>3. QED
        BY <4>1, <4>2
  <2>5. Types'
    BY <1>1, <1>3, <2>4 DEF Types, Reaping
  <2>6. QED
    BY <1>1, <1>2, <1>5, <2>3, <2>5
<1>6. QED
  BY <1>4, <1>5

LEMMA ClearMoves ==
  ASSUME Types, Clear
  PROVE  /\ reaper.stage = "handed" /\ reaper' = [stage |-> "idle", batch |-> {}]
         /\ last \in {0, 1} => buffer'[last] = {}
         /\ \A b \in {0, 1} : b # last => buffer'[b] = buffer[b]
         /\ UNCHANGED <<last, queue>> /\ Reaping
         /\ Types'
<1>1. /\ reaper.stage = "handed" /\ reaper' = [stage |-> "idle", batch |-> {}]
      /\ buffer' = [buffer EXCEPT ![last] = {}]
      /\ UNCHANGED <<last, queue>> /\ Reaping
  BY DEF Clear, Asleep
<1>2. reaper' \in ReaperType
  BY <1>1 DEF ReaperType
<1>3. buffer' \in [Buffer -> SUBSET Entry]
  BY <1>1 DEF Types
<1>4. Types'
  BY <1>1, <1>2, <1>3 DEF Types, Reaping
<1>5. QED
  BY <1>1, <1>4, Tables DEF Types

\* A batch leaves the head of its queue.
Leaves(d) ==
  /\ Len(queue'[d]) = Len(queue[d]) - 1
  /\ \A i \in 1 .. Len(queue'[d]) : i + 1 \in 1 .. Len(queue[d]) /\ queue'[d][i] = queue[d][i + 1]

\* The head of a queue is only marked as tried.
Stays(d) ==
  /\ Len(queue'[d]) = Len(queue[d])
  /\ \A i \in 1 .. Len(queue[d]) :
       queue'[d][i].batch = queue[d][i].batch /\ queue'[d][i].flag = queue[d][i].flag

LEMMA HeadOf ==
  ASSUME Types, NEW d \in Db, queue[d] # <<>>
  PROVE  /\ 1 \in 1 .. Len(queue[d]) /\ Head(queue[d]) = queue[d][1]
         /\ queue[d][1] \in BatchType
         /\ queue[d][1].batch \subseteq Report /\ queue[d][1].flag \in 0 .. 2
<1>1. queue[d] \in Seq(BatchType)
  BY Queues
<1>2. 1 \in 1 .. Len(queue[d]) /\ Head(queue[d]) = queue[d][1]
  BY <1>1
<1>3. QED
  BY <1>2, Queues

LEMMA DoneMoves ==
  ASSUME Types, NEW d \in Db, queue[d] # <<>>, Done(d)
  PROVE  /\ \A e \in Db \ {d} : queue'[e] = queue[e]
         /\ Leaves(d) /\ queue' \in [Db -> Seq(BatchType)]
<1>1. PICK q \in Seq(BatchType) : q = queue[d]
  BY Queues
<1>2. queue' = [queue EXCEPT ![d] = Tail(q)] /\ queue \in [Db -> Seq(BatchType)]
  BY <1>1 DEF Done, Types
<1>3. /\ Tail(q) \in Seq(BatchType) /\ Len(Tail(q)) = Len(q) - 1
      /\ \A i \in 1 .. Len(Tail(q)) : i + 1 \in 1 .. Len(q) /\ Tail(q)[i] = q[i + 1]
  BY <1>1
<1>4. queue'[d] = Tail(q)
  BY <1>2
<1>5. Leaves(d)
  BY <1>1, <1>3, <1>4 DEF Leaves
<1>6. QED
  BY <1>2, <1>3, <1>5

LEMMA SkipMoves ==
  ASSUME Types, NEW d \in Db, Skip(d)
  PROVE  /\ 1 \in 1 .. Len(queue[d]) /\ ~(written[d] > queue[d][1].flag)
         /\ \A e \in Db \ {d} : queue'[e] = queue[e]
         /\ Leaves(d)
         /\ gone' = gone \cup {<<r, "skipped">> : r \in queue[d][1].batch}
         /\ UNCHANGED <<written, stored, faults>> /\ Writing
         /\ Types'
<1>1. /\ queue[d] # <<>> /\ ~(written[d] > Head(queue[d]).flag) /\ Done(d)
      /\ gone' = gone \cup {<<r, "skipped">> : r \in Head(queue[d]).batch}
      /\ UNCHANGED <<written, stored, faults>> /\ Writing
  BY DEF Skip, Later, Lose
<1>2. /\ 1 \in 1 .. Len(queue[d]) /\ Head(queue[d]) = queue[d][1]
      /\ queue[d][1].batch \subseteq Report
  BY <1>1, HeadOf
<1>3. /\ \A e \in Db \ {d} : queue'[e] = queue[e]
      /\ Leaves(d) /\ queue' \in [Db -> Seq(BatchType)]
  BY <1>1, DoneMoves
<1>4. \A g \in gone' : g \in Report \X Reason
  <2>1. \A r \in Report : <<r, "skipped">> \in Report \X Reason
    BY DEF Reason
  <2>2. \A g \in gone : g \in Report \X Reason
    BY DEF Types
  <2>3. QED
    BY <1>1, <1>2, <2>1, <2>2
<1>5. Types'
  BY <1>1, <1>3, <1>4 DEF Types, Writing
<1>6. QED
  BY <1>1, <1>2, <1>3, <1>5

LEMMA InsertMoves ==
  ASSUME Types, NEW d \in Db, insert2Db(d)
  PROVE  /\ 1 \in 1 .. Len(queue[d])
         /\ \A e \in Db \ {d} : queue'[e] = queue[e]
         /\ Leaves(d)
         /\ \A r \in Report : stored'[r] =
              IF r \in queue[d][1].batch THEN (IF stored[r] < 2 THEN stored[r] + 1 ELSE 2)
              ELSE stored[r]
         /\ \/ written' = written
            \/ /\ written'[d] = queue[d][1].flag
               /\ \A e \in Db \ {d} : written'[e] = written[e]
         /\ gone' = gone /\ Writing
         /\ Types'
<1>1. /\ queue[d] # <<>> /\ Done(d) /\ Stored(d) /\ gone' = gone /\ Writing
      /\ \/ written' = [written EXCEPT ![d] = Head(queue[d]).flag] /\ UNCHANGED faults
         \/ Fault /\ UNCHANGED written
  BY DEF insert2Db
<1>2. /\ 1 \in 1 .. Len(queue[d]) /\ Head(queue[d]) = queue[d][1]
      /\ queue[d][1].flag \in 0 .. 2
  BY <1>1, HeadOf
<1>3. /\ \A e \in Db \ {d} : queue'[e] = queue[e]
      /\ Leaves(d) /\ queue' \in [Db -> Seq(BatchType)]
  BY <1>1, DoneMoves
<1>4. stored' = [r \in Report |-> IF r \in queue[d][1].batch
                                  THEN (IF stored[r] < 2 THEN stored[r] + 1 ELSE 2)
                                  ELSE stored[r]]
  BY <1>1, <1>2 DEF Stored
<1>5. stored' \in [Report -> 0 .. 2]
  <2>1. \A r \in Report : stored[r] \in 0 .. 2
    BY DEF Types
  <2>2. QED
    BY <1>4, <2>1
<1>6. written \in [Db -> 0 .. 2] /\ faults \in 0 .. MaxFaults
  BY DEF Types
<1>7. written' \in [Db -> 0 .. 2]
  BY <1>1, <1>2, <1>6
<1>8. faults' \in 0 .. MaxFaults
  BY <1>1, <1>6, StatBuffersAssumption DEF Fault
<1>9. Types'
  BY <1>1, <1>3, <1>5, <1>7, <1>8 DEF Types, Writing
<1>10. written' = [written EXCEPT ![d] = Head(queue[d]).flag] =>
         written'[d] = queue[d][1].flag /\ \A e \in Db \ {d} : written'[e] = written[e]
  BY <1>2, <1>6
<1>11. QED
  BY <1>1, <1>2, <1>3, <1>4, <1>9, <1>10

LEMMA FailMoves ==
  ASSUME Types, NEW d \in Db, insert2DbFails(d)
  PROVE  /\ 1 \in 1 .. Len(queue[d])
         /\ \A e \in Db \ {d} : queue'[e] = queue[e]
         /\ \/ Stays(d) /\ gone' = gone
            \/ Leaves(d) /\ gone' = gone \cup {<<r, "failed">> : r \in queue[d][1].batch}
         /\ UNCHANGED <<written, stored>> /\ Writing
         /\ Types'
<1>1. /\ queue[d] # <<>> /\ (Fault \/ UNCHANGED faults)
      /\ UNCHANGED <<written, stored>> /\ Writing
      /\ \/ queue' = [queue EXCEPT ![d][1].tries = 1] /\ UNCHANGED gone
         \/ Done(d) /\ gone' = gone \cup {<<r, "failed">> : r \in Head(queue[d]).batch}
  BY DEF insert2DbFails, Lose
<1>2. /\ 1 \in 1 .. Len(queue[d]) /\ Head(queue[d]) = queue[d][1]
      /\ queue[d][1] \in BatchType /\ queue[d][1].batch \subseteq Report
  BY <1>1, HeadOf
<1>3. faults' \in 0 .. MaxFaults
  <2>1. faults \in 0 .. MaxFaults
    BY DEF Types
  <2>2. QED
    BY <1>1, <2>1, StatBuffersAssumption DEF Fault
<1>4. CASE queue' = [queue EXCEPT ![d][1].tries = 1] /\ UNCHANGED gone
  <2>1. PICK q \in Seq(BatchType) : q = queue[d]
    BY Queues
  <2>2. PICK b : b = [q[1] EXCEPT !.tries = 1]
    OBVIOUS
  <2>3. b \in BatchType /\ b.batch = q[1].batch /\ b.flag = q[1].flag
    BY <1>2, <2>1, <2>2 DEF BatchType
  <2>4. PICK p : p = [q EXCEPT ![1] = b]
    OBVIOUS
  <2>5. p \in Seq(BatchType) /\ Len(p) = Len(q)
    BY <1>2, <2>1, <2>3, <2>4
  <2>6. \A i \in 1 .. Len(q) : p[i] = IF i = 1 THEN b ELSE q[i]
    BY <2>1, <2>4
  <2>7. queue' = [queue EXCEPT ![d] = p] /\ queue \in [Db -> Seq(BatchType)]
    BY <1>4, <2>1, <2>2, <2>4 DEF Types
  <2>8. queue'[d] = p /\ queue' \in [Db -> Seq(BatchType)]
    BY <2>5, <2>7
  <2>9. Stays(d)
    BY <2>1, <2>3, <2>5, <2>6, <2>8 DEF Stays
  <2>10. Types'
    BY <1>1, <1>3, <1>4, <2>8 DEF Types, Writing
  <2>11. \A e \in Db \ {d} : queue'[e] = queue[e]
    BY <2>7
  <2>12. QED
    BY <1>1, <1>2, <1>4, <2>9, <2>10, <2>11
<1>5. CASE Done(d) /\ gone' = gone \cup {<<r, "failed">> : r \in Head(queue[d]).batch}
  <2>1. /\ \A e \in Db \ {d} : queue'[e] = queue[e]
        /\ Leaves(d) /\ queue' \in [Db -> Seq(BatchType)]
    BY <1>1, <1>5, DoneMoves
  <2>2. \A g \in gone' : g \in Report \X Reason
    <3>1. \A r \in Report : <<r, "failed">> \in Report \X Reason
      BY DEF Reason
    <3>2. \A g \in gone : g \in Report \X Reason
      BY DEF Types
    <3>3. QED
      BY <1>2, <1>5, <3>1, <3>2
  <2>3. Types'
    BY <1>1, <1>3, <2>1, <2>2 DEF Types, Writing
  <2>4. QED
    BY <1>1, <1>2, <1>5, <2>1, <2>3
<1>6. QED
  BY <1>1, <1>4, <1>5

LEMMA TickMoves ==
  ASSUME Types, Tick
  PROVE  /\ \A h \in Handler : handler[h].stage # "idle" => handler[h].since < Grace - 1
         /\ phase = Interval - 1 =>
              /\ reaper.stage = "idle" /\ ~Due
              /\ \A d \in Db : \A i \in 1 .. Len(queue[d]) : queue[d][i].flag < 1
         /\ \/ dumped = -1 /\ dumped' = -1
            \/ dumped # -1 /\ dumped < Interval + 1 /\ dumped' = dumped + 1
            \/ dumped = Interval + 1 /\ dumped' = dumped
         /\ \A h \in Handler :
              /\ handler'[h].stage = handler[h].stage /\ handler'[h].index = handler[h].index
              /\ handler'[h].report = handler[h].report
              /\ handler[h].stage # "idle" => handler'[h].since = handler[h].since + 1
         /\ \A b \in {0, 1}, h \in Handler :
              age'[b][h] = IF age[b][h] < Grace THEN age[b][h] + 1 ELSE Grace
         /\ \/ /\ phase < Interval - 1 /\ phase' = phase + 1 /\ queue' = queue
               /\ written' = written
            \/ /\ phase = Interval - 1 /\ phase' = 0
               /\ \A d \in Db : /\ written'[d] = IF written[d] < 2 THEN written[d] + 1 ELSE 2
                                /\ Len(queue'[d]) = Len(queue[d])
               /\ \A d \in Db : \A i \in 1 .. Len(queue[d]) :
                    /\ queue'[d][i].batch = queue[d][i].batch
                    /\ queue'[d][i].flag = IF queue[d][i].flag < 2 THEN queue[d][i].flag + 1 ELSE 2
         /\ UNCHANGED <<selected, buffer, unsent, reaper, last, stored, gone, odd, faults>>
         /\ Types'
<1>1. /\ \A h \in Handler : handler[h].stage # "idle" => handler[h].since < Grace - 1
      /\ phase = Interval - 1 =>
           /\ reaper.stage = "idle" /\ ~Due
           /\ \A d \in Db : \A i \in 1 .. Len(queue[d]) : queue[d][i].flag < 1
  BY DEF Tick, KeepsUp
<1>2. /\ UNCHANGED <<selected, buffer, unsent, reaper, last, stored, gone, odd, faults>>
      /\ dumped' = IF dumped = -1 THEN -1 ELSE IF dumped < Interval + 1 THEN dumped + 1
                                               ELSE Interval + 1
  BY DEF Tick, Older
<1>3. /\ \/ dumped = -1 /\ dumped' = -1
         \/ dumped # -1 /\ dumped < Interval + 1 /\ dumped' = dumped + 1
         \/ dumped = Interval + 1 /\ dumped' = dumped
      /\ dumped' \in -1 .. Interval + 1
  <2>1. dumped \in Int /\ -1 <= dumped /\ dumped <= Interval + 1 /\ Interval \in Nat
    BY Bounds
  <2>2. QED
    BY <1>2, <2>1
<1>4. /\ handler' \in [Handler -> HandlerType]
      /\ \A h \in Handler :
           /\ handler'[h].stage = handler[h].stage /\ handler'[h].index = handler[h].index
           /\ handler'[h].report = handler[h].report
           /\ handler[h].stage # "idle" => handler'[h].since = handler[h].since + 1
  <2>1. handler' = [h \in Handler |-> IF handler[h].stage = "idle" THEN handler[h]
                                      ELSE [handler[h] EXCEPT !.since = @ + 1]]
    BY DEF Tick
  <2>2. SUFFICES ASSUME NEW h \in Handler
                 PROVE  /\ handler'[h] \in HandlerType
                        /\ handler'[h].stage = handler[h].stage
                        /\ handler'[h].index = handler[h].index
                        /\ handler'[h].report = handler[h].report
                        /\ handler[h].stage # "idle" => handler'[h].since = handler[h].since + 1
    BY <2>1
  <2>3. PICK m \in HandlerType : m = handler[h]
    BY Handled
  <2>4. CASE m.stage = "idle"
    BY <2>1, <2>3, <2>4
  <2>5. CASE m.stage # "idle"
    <3>1. PICK s \in 0 .. Grace - 1 : s = m.since + 1
      BY <1>1, <2>3, <2>5, Handled, Bounds
    <3>2. PICK n : n = [m EXCEPT !.since = s]
      OBVIOUS
    <3>3. handler'[h] = n
      BY <2>1, <2>3, <2>5, <3>1, <3>2
    <3>4. n \in HandlerType
      BY <3>1, <3>2 DEF HandlerType
    <3>5. n.stage = m.stage /\ n.index = m.index /\ n.report = m.report /\ n.since = s
      BY <3>2 DEF HandlerType
    <3>6. QED
      BY <2>3, <3>1, <3>3, <3>4, <3>5
  <2>6. QED
    BY <2>4, <2>5
<1>5. /\ age' \in [Buffer -> [Handler -> 0 .. Grace]]
      /\ \A b \in {0, 1}, h \in Handler :
           age'[b][h] = IF age[b][h] < Grace THEN age[b][h] + 1 ELSE Grace
  <2>1. age' = [b \in Buffer |-> [h \in Handler |->
                  IF age[b][h] < Grace THEN age[b][h] + 1 ELSE Grace]]
    BY DEF Tick, Older
  <2>2. \A b \in Buffer, h \in Handler :
          (IF age[b][h] < Grace THEN age[b][h] + 1 ELSE Grace) \in 0 .. Grace
    BY Ages, Tables, Bounds
  <2>3. QED
    BY <2>1, <2>2, Tables
<1>6. /\ \/ /\ phase < Interval - 1 /\ phase' = phase + 1 /\ queue' = queue
            /\ written' = written
         \/ /\ phase = Interval - 1 /\ phase' = 0
            /\ \A d \in Db : /\ written'[d] = IF written[d] < 2 THEN written[d] + 1 ELSE 2
                             /\ Len(queue'[d]) = Len(queue[d])
            /\ \A d \in Db : \A i \in 1 .. Len(queue[d]) :
                 /\ queue'[d][i].batch = queue[d][i].batch
                 /\ queue'[d][i].flag = IF queue[d][i].flag < 2 THEN queue[d][i].flag + 1 ELSE 2
      /\ phase' \in 0 .. Interval - 1
      /\ queue' \in [Db -> Seq(BatchType)] /\ written' \in [Db -> 0 .. 2]
  <2>1. CASE phase < Interval - 1
    <3>1. phase' = phase + 1 /\ queue' = queue /\ written' = written
      BY <2>1 DEF Tick
    <3>2. phase' \in 0 .. Interval - 1
      BY <2>1, <3>1, Bounds
    <3>3. QED
      BY <2>1, <3>1, <3>2 DEF Types
  <2>2. CASE ~(phase < Interval - 1)
    <3>1. /\ phase' = 0
          /\ queue' = [d \in Db |-> [i \in 1 .. Len(queue[d]) |->
                         [queue[d][i] EXCEPT !.flag = IF queue[d][i].flag < 2
                                                      THEN queue[d][i].flag + 1 ELSE 2]]]
          /\ written' = [d \in Db |-> IF written[d] < 2 THEN written[d] + 1 ELSE 2]
      BY <2>2 DEF Tick, Older
    <3>2. phase = Interval - 1 /\ phase' \in 0 .. Interval - 1
      <4>1. phase = Interval - 1 /\ Interval \in Nat /\ 1 <= Interval
        BY <2>2, Bounds
      <4>2. 0 \in 0 .. Interval - 1
        BY <4>1
      <4>3. QED
        BY <3>1, <4>1, <4>2
    <3>3. written' \in [Db -> 0 .. 2]
      <4>1. \A d \in Db : written[d] \in 0 .. 2
        BY DEF Types
      <4>2. QED
        BY <3>1, <4>1
    <3>4. ASSUME NEW d \in Db
          PROVE  /\ queue'[d] \in Seq(BatchType) /\ Len(queue'[d]) = Len(queue[d])
                 /\ \A i \in 1 .. Len(queue[d]) :
                      /\ queue'[d][i].batch = queue[d][i].batch
                      /\ queue'[d][i].flag = IF queue[d][i].flag < 2
                                             THEN queue[d][i].flag + 1 ELSE 2
      <4>1. PICK q \in Seq(BatchType) : q = queue[d]
        BY Queues
      <4>2. PICK p : p = [i \in 1 .. Len(q) |->
                            [q[i] EXCEPT !.flag = IF q[i].flag < 2 THEN q[i].flag + 1 ELSE 2]]
        OBVIOUS
      <4>3. queue'[d] = p
        BY <3>1, <4>1, <4>2
      <4>4. ASSUME NEW i \in 1 .. Len(q)
            PROVE  /\ p[i] \in BatchType /\ p[i].batch = q[i].batch
                   /\ p[i].flag = IF q[i].flag < 2 THEN q[i].flag + 1 ELSE 2
        <5>1. PICK b \in BatchType : b = q[i]
          BY <4>1
        <5>2. PICK f \in 0 .. 2 : f = IF b.flag < 2 THEN b.flag + 1 ELSE 2
          BY DEF BatchType
        <5>3. p[i] = [b EXCEPT !.flag = f]
          BY <4>2, <5>1, <5>2
        <5>4. QED
          BY <5>1, <5>2, <5>3 DEF BatchType
      <4>5. p \in Seq(BatchType) /\ Len(p) = Len(q)
        <5>1. PICK n \in Nat : n = Len(q)
          BY <4>1
        <5>2. p \in [1 .. n -> BatchType]
          BY <4>2, <4>4, <5>1
        <5>3. QED
          BY <5>1, <5>2
      <4>6. QED
        BY <4>1, <4>3, <4>4, <4>5
    <3>5. queue' \in [Db -> Seq(BatchType)]
      BY <3>1, <3>4
    <3>6. \A d \in Db : written'[d] = IF written[d] < 2 THEN written[d] + 1 ELSE 2
      BY <3>1
    <3>7. QED
      BY <3>1, <3>2, <3>3, <3>4, <3>5, <3>6
  <2>3. QED
    BY <2>1, <2>2
<1>7. Types'
  BY <1>2, <1>3, <1>4, <1>5, <1>6 DEF Types
<1>8. QED
  BY <1>1, <1>2, <1>3, <1>4, <1>5, <1>6, <1>7

LEMMA RestartMoves ==
  ASSUME Types, Restart
  PROVE  /\ selected' \in {0, 1} /\ dumped' = -1 /\ odd' = odd \cup {"restart"}
         /\ \A b \in {0, 1}, h \in Handler : age'[b][h] = Grace
         /\ \A h \in Handler : handler'[h] = AtRest
         /\ reaper' = [stage |-> "idle", batch |-> {}] /\ last' = None
         /\ \A d \in Db : queue'[d] = <<>>
         /\ gone' = gone
              \cup {<<r, "restart">> : r \in {x \in Held : \A b \in Buffer : x \notin buffer[b]}}
              \cup {<<r, "twice">> : r \in IF reaper.stage = "handed" THEN reaper.batch \ {Noise} ELSE {}}
         /\ UNCHANGED <<phase, buffer, unsent, written, stored>>
         /\ Types'
<1>1. /\ Fault /\ selected' \in Buffer /\ dumped' = -1 /\ odd' = odd \cup {"restart"}
      /\ age' = [b \in Buffer |-> [h \in Handler |-> Grace]]
      /\ handler' = [h \in Handler |-> AtRest]
      /\ reaper' = [stage |-> "idle", batch |-> {}] /\ last' = None
      /\ queue' = [d \in Db |-> <<>>]
      /\ gone' = gone
           \cup {<<r, "restart">> : r \in {x \in Held : \A b \in Buffer : x \notin buffer[b]}}
           \cup {<<r, "twice">> : r \in IF reaper.stage = "handed" THEN reaper.batch \ {Noise} ELSE {}}
      /\ UNCHANGED <<phase, buffer, unsent, written, stored>>
  BY DEF Restart, Asleep
<1>2. Held \subseteq Report
  <2>1. \A d \in Db : \A i \in 1 .. Len(queue[d]) : queue[d][i].batch \subseteq Report
    BY Queues
  <2>2. QED
    BY <2>1 DEF Held
<1>3. \A g \in gone' : g \in Report \X Reason
  <2>1. \A r \in Report : <<r, "restart">> \in Report \X Reason /\ <<r, "twice">> \in Report \X Reason
    BY DEF Reason
  <2>2. reaper.batch \ {Noise} \subseteq Report /\ \A g \in gone : g \in Report \X Reason
    BY Read DEF Types
  <2>3. QED
    BY <1>1, <1>2, <2>1, <2>2
<1>4. AtRest \in HandlerType
  BY StatBuffersAssumption DEF AtRest, HandlerType, Buffer, Entry
<1>5. reaper' \in ReaperType /\ last' \in 0 .. None
  BY <1>1 DEF ReaperType, None
<1>6. faults' \in 0 .. MaxFaults
  <2>1. faults \in 0 .. MaxFaults
    BY DEF Types
  <2>2. QED
    BY <1>1, <2>1, StatBuffersAssumption DEF Fault
<1>7. /\ age' \in [Buffer -> [Handler -> 0 .. Grace]] /\ handler' \in [Handler -> HandlerType]
      /\ queue' \in [Db -> Seq(BatchType)] /\ dumped' \in -1 .. Interval + 1
      /\ odd' \subseteq {"late switch", "restart"}
  <2>1. Grace \in 0 .. Grace /\ -1 \in -1 .. Interval + 1
    BY StatBuffersAssumption
  <2>2. odd \subseteq {"late switch", "restart"}
    BY DEF Types
  <2>3. age' \in [Buffer -> [Handler -> 0 .. Grace]]
    BY <1>1, <2>1
  <2>4. handler' \in [Handler -> HandlerType]
    BY <1>1, <1>4
  <2>5. <<>> \in Seq(BatchType)
    OBVIOUS
  <2>6. queue' \in [Db -> Seq(BatchType)]
    BY <1>1, <2>5
  <2>7. QED
    BY <1>1, <2>1, <2>2, <2>3, <2>4, <2>6
<1>8. Types'
  BY <1>1, <1>3, <1>5, <1>6, <1>7 DEF Types
<1>9. QED
  BY <1>1, <1>8, Tables

LEMMA TypesStep == ASSUME Types, [Next]_vars PROVE Types'
<1>1. CASE UNCHANGED vars
  BY <1>1 DEF vars, threadVars, Types
<1>2. CASE Next
  BY <1>2, ReportMoves, ChooseMoves, AddMoves, ReadMoves, HandMoves, ClearMoves, SkipMoves,
     InsertMoves, FailMoves, TickMoves, RestartMoves DEF Next
<1>3. QED
  BY <1>1, <1>2

-----------------------------------------------------------------------------
(***************************************************************************)
(* What the clock separates.  As long as no switch comes in the last       *)
(* seconds of an interval, the reaper is done with a table before it is    *)
(* selected again, and no handler still has it in hand when it is read.    *)
(***************************************************************************)
Timely == "late switch" \notin odd
Other == 1 - selected

Clock == dumped = -1 \/ dumped = phase \/ dumped >= Interval

\* No handler marks the other table, and its marks run out in this interval.
Aged == Timely => \A h \in Handler :
  \/ age[Other][h] = Grace
  \/ dumped = phase /\ age[Other][h] + (Interval - 1 - phase) >= Grace

\* In a new interval, the reaper has read the other table and waits for a switch.
Rested == Timely /\ dumped >= Interval => reaper.stage = "idle" /\ last = Other

\* The mark of a handler at work is on the selected table, or there was a switch in
\* this interval, early enough for the handler to finish in it.
Marked == Timely => \A h \in Handler : handler[h].stage # "idle" =>
  /\ \/ age[selected][h] <= handler[h].since
     \/ dumped = phase /\ handler[h].since + (Interval - phase) >= Grace
  /\ handler[h].stage = "chosen" /\ handler[h].index = Other
       => age[Other][h] <= handler[h].since

\* Nothing is added to the table that the reaper is working on.
Reading == Timely /\ reaper.stage # "idle" =>
  /\ last = Other /\ buffer[Other] = reaper.batch
  /\ \A h \in Handler : handler[h].stage = "chosen" => handler[h].index = selected

Resting == reaper.stage = "idle" => reaper.batch = {}

Timing == Clock /\ Aged /\ Rested /\ Marked /\ Reading /\ Resting

LEMMA TimingInit == Init => Timing
<1> SUFFICES ASSUME Init PROVE Timing
  OBVIOUS
<1>1. \A h \in Handler : age[Other][h] = Grace /\ handler[h].stage = "idle"
  BY Tables DEF Init, Other, AtRest
<1>2. dumped = -1 /\ ~(dumped >= Interval) /\ reaper.stage = "idle" /\ reaper.batch = {}
  BY StatBuffersAssumption DEF Init, Asleep
<1>3. QED
  BY <1>1, <1>2 DEF Timing, Clock, Aged, Rested, Marked, Reading, Resting

LEMMA ReportTiming ==
  ASSUME Types, Timing, NEW h \in Handler, reportMicMsg(h)
  PROVE  Timing'
<1>1. /\ \A k \in Handler \ {h} : handler'[k] = handler[k]
      /\ handler'[h].stage = "marked" /\ handler'[h].since = 0
      /\ \A b \in {0, 1}, k \in Handler :
           age'[b][k] = IF b = selected /\ k = h THEN 0 ELSE age[b][k]
      /\ UNCHANGED <<dumped, selected, buffer, odd, phase, reaper, last>>
  <2>1. PICK r : handler'[h] = [stage |-> "marked", index |-> 0, report |-> r, since |-> 0]
    BY ReportMoves
  <2>2. handler'[h].stage = "marked" /\ handler'[h].since = 0
    BY <2>1
  <2>3. /\ \A k \in Handler \ {h} : handler'[k] = handler[k]
        /\ \A b \in {0, 1}, k \in Handler :
             age'[b][k] = IF b = selected /\ k = h THEN 0 ELSE age[b][k]
    BY ReportMoves
  <2>4. UNCHANGED <<dumped, selected, buffer, odd>> /\ Handling
    BY ReportMoves
  <2>5. QED
    BY <2>2, <2>3, <2>4 DEF Handling
<1>2. /\ selected \in {0, 1} /\ Other \in {0, 1} /\ Other # selected
      /\ Other' = Other /\ Timely' = Timely
  BY <1>1, Bounds DEF Other, Timely
<1>3. \A k \in Handler : age'[Other][k] = age[Other][k]
  BY <1>1, <1>2
<1>4. age'[selected][h] = 0 /\ \A k \in Handler \ {h} : age'[selected][k] = age[selected][k]
  BY <1>1, <1>2
<1>5. Clock' /\ Rested' /\ Resting'
  BY <1>1, <1>2 DEF Timing, Clock, Rested, Resting
<1>6. Aged'
  BY <1>1, <1>2, <1>3 DEF Timing, Aged
<1>7. Marked'
  <2>1. SUFFICES ASSUME Timely, NEW k \in Handler, handler'[k].stage # "idle"
        PROVE  /\ \/ age'[selected][k] <= handler'[k].since
                  \/ dumped = phase /\ handler'[k].since + (Interval - phase) >= Grace
               /\ handler'[k].stage = "chosen" /\ handler'[k].index = Other
                    => age'[Other][k] <= handler'[k].since
    BY <1>1, <1>2 DEF Marked
  <2>2. CASE k = h
    BY <1>1, <1>4, <2>2
  <2>3. CASE k # h
    BY <1>1, <1>3, <1>4, <2>1, <2>3 DEF Timing, Marked
  <2>4. QED
    BY <2>2, <2>3
<1>8. Reading'
  BY <1>1, <1>2 DEF Timing, Reading
<1>9. QED
  BY <1>5, <1>6, <1>7, <1>8 DEF Timing

LEMMA ChooseTiming ==
  ASSUME Types, Timing, NEW h \in Handler, dump2file(h)
  PROVE  Timing'
<1>1. /\ handler[h].stage = "marked"
      /\ \A k \in Handler \ {h} : handler'[k] = handler[k]
      /\ handler'[h].stage = "chosen" /\ handler'[h].index = selected'
      /\ handler'[h].since = handler[h].since
      /\ UNCHANGED <<buffer, age, phase, reaper, last>>
  <2>1. handler'[h] = [stage |-> "chosen", index |-> selected',
                       report |-> handler[h].report, since |-> handler[h].since]
    BY ChooseMoves
  <2>2. /\ handler[h].stage = "marked" /\ \A k \in Handler \ {h} : handler'[k] = handler[k]
    BY ChooseMoves
  <2>3. UNCHANGED <<buffer, age, unsent, gone>> /\ Handling
    BY ChooseMoves
  <2>4. QED
    BY <2>1, <2>2, <2>3 DEF Handling
<1>2. Resting'
  BY <1>1 DEF Timing, Resting
<1>3. CASE /\ dumped > Interval /\ dumped' = phase /\ selected' = 1 - selected
           /\ odd' = IF phase + Grace >= Interval THEN odd \cup {"late switch"} ELSE odd
  <2>1. /\ Other' = selected /\ selected' = Other /\ selected \in {0, 1} /\ Other \in {0, 1}
        /\ Other # selected
    <3>1. Other = 1 - selected /\ Other' = 1 - selected'
      BY DEF Other
    <3>2. selected' = 1 - selected
      BY <1>3
    <3>3. QED
      BY <3>1, <3>2, Bounds
  <2>2. /\ dumped # phase /\ dumped' = phase' /\ ~(dumped' >= Interval) /\ dumped >= Interval
    <3>1. dumped > Interval /\ dumped' = phase
      BY <1>3
    <3>2. phase' = phase
      BY <1>1
    <3>3. QED
      BY <3>1, <3>2, Bounds
  <2>3. Clock'
    BY <2>2 DEF Clock
  <2>4. CASE ~Timely'
    BY <1>2, <2>3, <2>4 DEF Timing, Aged, Rested, Marked, Reading
  <2>5. CASE Timely'
    <3>1. Timely /\ phase + Grace < Interval
      <4>1. "late switch" \notin odd' /\ (phase + Grace >= Interval => "late switch" \in odd')
            /\ odd \subseteq odd'
        BY <1>3, <2>5 DEF Timely
      <4>2. ~(phase + Grace >= Interval)
        BY <4>1
      <4>3. phase + Grace < Interval
        BY <4>2, Bounds
      <4>4. QED
        BY <4>1, <4>3 DEF Timely
    <3>2. reaper.stage = "idle"
      BY <2>2, <3>1 DEF Timing, Rested
    <3>3. \A k \in Handler : handler[k].stage # "idle" => age[selected][k] <= handler[k].since
      BY <2>2, <3>1 DEF Timing, Marked
    <3>4. Aged'
      <4>1. SUFFICES ASSUME NEW k \in Handler
                     PROVE  age[selected][k] + (Interval - 1 - phase) >= Grace
        BY <1>1, <1>3, <2>1 DEF Aged
      <4>2. age[selected][k] \in Nat
        BY <2>1, Ages
      <4>3. QED
        BY <3>1, <4>2, Bounds
    <3>5. Marked'
      <4>1. SUFFICES ASSUME NEW k \in Handler, handler'[k].stage # "idle"
            PROVE  /\ handler'[k].since + (Interval - phase) >= Grace
                   /\ age[selected][k] <= handler'[k].since
        BY <1>1, <1>3, <2>1 DEF Marked
      <4>2. handler[k].stage # "idle" /\ handler'[k].since = handler[k].since
        BY <1>1, <4>1
      <4>3. handler[k].since \in Nat
        BY Handled
      <4>4. handler[k].since + (Interval - phase) >= Grace
        BY <3>1, <4>3, Bounds
      <4>5. QED
        BY <3>3, <4>2, <4>4
    <3>6. Rested' /\ Reading'
      BY <1>1, <2>2, <3>2 DEF Rested, Reading
    <3>7. QED
      BY <1>2, <2>3, <3>4, <3>5, <3>6 DEF Timing
  <2>6. QED
    BY <2>4, <2>5
<1>4. CASE /\ dumped <= Interval /\ dumped' = IF dumped = -1 THEN phase ELSE dumped
           /\ selected' = selected /\ odd' = odd
  <2>1. /\ selected \in {0, 1} /\ Other \in {0, 1} /\ Other # selected
        /\ Other' = Other /\ Timely' = Timely
    BY <1>4, Bounds DEF Other, Timely
  <2>2. /\ dumped = phase => dumped' = phase
        /\ dumped' >= Interval => dumped >= Interval
    BY <1>4, Bounds
  <2>3. Clock'
    BY <1>1, <1>4 DEF Timing, Clock
  <2>4. Aged' /\ Rested'
    BY <1>1, <2>1, <2>2 DEF Timing, Aged, Rested
  <2>5. Marked'
    <3>1. SUFFICES ASSUME Timely, NEW k \in Handler, handler'[k].stage # "idle"
          PROVE  /\ \/ age[selected][k] <= handler'[k].since
                    \/ dumped' = phase /\ handler'[k].since + (Interval - phase) >= Grace
                 /\ handler'[k].stage = "chosen" /\ handler'[k].index = Other
                      => age[Other][k] <= handler'[k].since
      BY <1>1, <1>4, <2>1 DEF Marked
    <3>2. handler[k].stage # "idle" /\ handler'[k].since = handler[k].since
      BY <1>1, <3>1
    <3>3. \/ age[selected][k] <= handler[k].since
          \/ dumped = phase /\ handler[k].since + (Interval - phase) >= Grace
      BY <3>1, <3>2 DEF Timing, Marked
    <3>4. handler'[k].stage = "chosen" /\ handler'[k].index = Other
            => age[Other][k] <= handler[k].since
      BY <1>1, <1>4, <2>1, <3>1 DEF Timing, Marked
    <3>5. QED
      BY <2>2, <3>2, <3>3, <3>4
  <2>6. Reading'
    <3>1. SUFFICES ASSUME Timely, reaper.stage # "idle"
          PROVE  /\ last = Other /\ buffer[Other] = reaper.batch
                 /\ \A k \in Handler : handler'[k].stage = "chosen" => handler'[k].index = selected
      BY <1>1, <1>4, <2>1 DEF Reading
    <3>2. QED
      BY <1>1, <1>4, <3>1 DEF Timing, Reading
  <2>7. QED
    BY <1>2, <2>3, <2>4, <2>5, <2>6 DEF Timing
<1>5. QED
  BY <1>3, <1>4, ChooseMoves

LEMMA AddTiming ==
  ASSUME Types, Timing, NEW h \in Handler, addHashMap(h)
  PROVE  Timing'
<1>1. /\ handler[h].stage = "chosen"
      /\ \A k \in Handler \ {h} : handler'[k] = handler[k]
      /\ handler'[h].stage = "idle"
      /\ \A b \in {0, 1} : b # handler[h].index => buffer'[b] = buffer[b]
      /\ UNCHANGED <<dumped, selected, age, odd, phase, reaper, last>>
  BY AddMoves DEF Handling, AtRest
<1>2. /\ selected \in {0, 1} /\ Other \in {0, 1} /\ Other # selected
      /\ Other' = Other /\ Timely' = Timely
  BY <1>1, Bounds DEF Other, Timely
<1>3. Clock' /\ Aged' /\ Rested' /\ Resting'
  BY <1>1, <1>2 DEF Timing, Clock, Aged, Rested, Resting
<1>4. Marked'
  BY <1>1, <1>2 DEF Timing, Marked
<1>5. Reading'
  <2>1. SUFFICES ASSUME Timely, reaper.stage # "idle"
        PROVE  /\ last = Other /\ buffer'[Other] = reaper.batch
               /\ \A k \in Handler : handler'[k].stage = "chosen" => handler'[k].index = selected
    BY <1>1, <1>2 DEF Reading
  <2>2. handler[h].index = selected
    BY <1>1, <2>1 DEF Timing, Reading
  <2>3. QED
    BY <1>1, <1>2, <2>1, <2>2 DEF Timing, Reading
<1>6. QED
  BY <1>3, <1>4, <1>5 DEF Timing

LEMMA ReadTiming ==
  ASSUME Types, Timing, getDataFromBuffer
  PROVE  Timing'
<1>1. /\ reaper.stage = "idle" /\ last # Other /\ getSelectBuffer(Other)
      /\ last' = Other /\ reaper' = [stage |-> "read", batch |-> buffer[Other]]
      /\ UNCHANGED <<buffer, phase, dumped, selected, age, handler, odd>>
  BY ReadMoves DEF Reaping, Other
<1>2. Other' = Other /\ Timely' = Timely /\ Other \in {0, 1}
  BY <1>1, Bounds DEF Other, Timely
<1>3. reaper'.stage = "read" /\ reaper'.batch = buffer[Other]
  BY <1>1
<1>4. Clock' /\ Aged' /\ Marked' /\ Resting'
  BY <1>1, <1>2, <1>3 DEF Timing, Clock, Aged, Marked, Resting
<1>5. Rested'
  BY <1>1, <1>2 DEF Timing, Rested
<1>6. Reading'
  <2>1. SUFFICES ASSUME Timely, NEW k \in Handler, handler[k].stage = "chosen",
                        handler[k].index # selected
                 PROVE  FALSE
    BY <1>1, <1>2, <1>3 DEF Reading
  <2>2. handler[k].index = Other
    BY <2>1, Handled, Bounds DEF Other
  <2>3. age[Other][k] <= handler[k].since
    BY <2>1, <2>2 DEF Timing, Marked
  <2>4. age[Other][k] >= Grace
    BY <1>1 DEF getSelectBuffer
  <2>5. handler[k].since \in Nat /\ handler[k].since <= Grace - 1 /\ age[Other][k] \in Nat
    BY <1>2, Handled, Ages
  <2>6. QED
    BY <2>3, <2>4, <2>5, Bounds
<1>7. QED
  BY <1>4, <1>5, <1>6 DEF Timing

LEMMA HandTiming ==
  ASSUME Types, Timing, HandOver
  PROVE  Timing'
<1>1. /\ reaper.stage = "read" /\ reaper'.stage = "handed" /\ reaper'.batch = reaper.batch
      /\ UNCHANGED <<buffer, last, phase, dumped, selected, age, handler, odd>>
  BY HandMoves DEF Reaping
<1>2. Other' = Other /\ Timely' = Timely
  BY <1>1 DEF Other, Timely
<1>3. QED
  BY <1>1, <1>2 DEF Timing, Clock, Aged, Rested, Marked, Reading, Resting

LEMMA ClearTiming ==
  ASSUME Types, Timing, Clear
  PROVE  Timing'
<1>1. /\ reaper.stage = "handed" /\ reaper'.stage = "idle" /\ reaper'.batch = {}
      /\ UNCHANGED <<last, phase, dumped, selected, age, handler, odd>>
  BY ClearMoves DEF Reaping
<1>2. Other' = Other /\ Timely' = Timely
  BY <1>1 DEF Other, Timely
<1>3. QED
  BY <1>1, <1>2 DEF Timing, Clock, Aged, Rested, Marked, Reading, Resting

LEMMA WriteTiming ==
  ASSUME Timing, Writing
  PROVE  Timing'
<1>1. UNCHANGED <<phase, dumped, selected, buffer, age, handler, reaper, last, odd>>
  BY DEF Writing
<1>2. QED
  BY <1>1 DEF Timing, Clock, Aged, Rested, Marked, Reading, Resting, Other, Timely

LEMMA TickTiming ==
  ASSUME Types, Timing, Tick
  PROVE  Timing'
<1>1. UNCHANGED <<selected, buffer, reaper, last, odd>>
  BY TickMoves
<1>2. Other' = Other /\ Timely' = Timely /\ Other \in {0, 1} /\ selected \in {0, 1}
  BY <1>1, Bounds DEF Other, Timely
<1>3. \/ dumped = -1 /\ dumped' = -1
      \/ dumped # -1 /\ dumped < Interval + 1 /\ dumped' = dumped + 1
      \/ dumped = Interval + 1 /\ dumped' = dumped
  BY TickMoves
<1>4. \/ phase < Interval - 1 /\ phase' = phase + 1
      \/ phase = Interval - 1 /\ phase' = 0
  BY TickMoves
<1>5. \A h \in Handler :
        /\ handler'[h].stage = handler[h].stage /\ handler'[h].index = handler[h].index
        /\ handler[h].stage # "idle" =>
             handler[h].since < Grace - 1 /\ handler'[h].since = handler[h].since + 1
  BY TickMoves
<1>6. \A b \in {0, 1}, h \in Handler :
        age'[b][h] = IF age[b][h] < Grace THEN age[b][h] + 1 ELSE Grace
  BY TickMoves
<1>7. Clock'
  BY <1>3, <1>4, Bounds DEF Timing, Clock
<1>8. Aged'
  <2>1. SUFFICES ASSUME Timely, NEW h \in Handler
                 PROVE  \/ age'[Other][h] = Grace
                        \/ dumped' = phase' /\ age'[Other][h] + (Interval - 1 - phase') >= Grace
    BY <1>1, <1>2 DEF Aged
  <2>2. \/ age[Other][h] = Grace
        \/ dumped = phase /\ age[Other][h] + (Interval - 1 - phase) >= Grace
    BY <2>1 DEF Timing, Aged
  <2>3. /\ age[Other][h] \in Nat
        /\ age'[Other][h] = IF age[Other][h] < Grace THEN age[Other][h] + 1 ELSE Grace
    BY <1>2, <1>6, Ages
  <2>4. CASE age[Other][h] = Grace
    BY <2>3, <2>4, Bounds
  <2>5. CASE /\ age[Other][h] # Grace
             /\ dumped = phase /\ age[Other][h] + (Interval - 1 - phase) >= Grace
    <3>1. age[Other][h] <= Grace
      BY <1>2, Ages
    <3>2. phase < Interval - 1 /\ age'[Other][h] = age[Other][h] + 1
      BY <2>3, <2>5, <3>1, Bounds
    <3>3. phase' = phase + 1 /\ dumped' = dumped + 1
      BY <1>3, <1>4, <2>5, <3>2, Bounds
    <3>4. QED
      BY <2>3, <2>5, <3>2, <3>3, Bounds
  <2>6. QED
    BY <2>2, <2>4, <2>5
<1>9. Rested'
  <2>1. SUFFICES ASSUME Timely, dumped' >= Interval
                 PROVE  reaper.stage = "idle" /\ last = Other
    BY <1>1, <1>2 DEF Rested
  <2>2. CASE dumped >= Interval
    BY <2>1, <2>2 DEF Timing, Rested
  <2>3. CASE ~(dumped >= Interval)
    <3>1. dumped = Interval - 1 /\ dumped # -1
      BY <1>3, <2>1, <2>3, Bounds
    <3>2. phase = Interval - 1
      BY <2>3, <3>1 DEF Timing, Clock
    <3>3. reaper.stage = "idle" /\ ~Due
      BY <3>2, TickMoves
    <3>4. getSelectBuffer(Other)
      <4>1. SUFFICES ASSUME NEW h \in Handler PROVE age[Other][h] >= Grace
        BY DEF getSelectBuffer
      <4>2. \/ age[Other][h] = Grace
            \/ dumped = phase /\ age[Other][h] + (Interval - 1 - phase) >= Grace
        BY <2>1 DEF Timing, Aged
      <4>3. age[Other][h] \in Nat
        BY <1>2, Ages
      <4>4. QED
        BY <3>2, <4>2, <4>3, Bounds
    <3>5. QED
      BY <3>3, <3>4 DEF Due, Other
  <2>4. QED
    BY <2>2, <2>3
<1>10. Marked'
  <2>1. SUFFICES ASSUME Timely, NEW h \in Handler, handler[h].stage # "idle"
        PROVE  /\ \/ age'[selected][h] <= handler'[h].since
                  \/ dumped' = phase' /\ handler'[h].since + (Interval - phase') >= Grace
               /\ handler[h].stage = "chosen" /\ handler[h].index = Other
                    => age'[Other][h] <= handler'[h].since
    BY <1>1, <1>2, <1>5 DEF Marked
  <2>2. /\ handler[h].since \in Nat /\ handler[h].since < Grace - 1
        /\ handler'[h].since = handler[h].since + 1
    BY <1>5, <2>1, Handled
  <2>3. ASSUME NEW b \in {0, 1}, age[b][h] <= handler[h].since
        PROVE  age'[b][h] <= handler'[h].since
    <3>1. age[b][h] \in Nat /\ age'[b][h] = IF age[b][h] < Grace THEN age[b][h] + 1 ELSE Grace
      BY <1>6, Ages
    <3>2. QED
      BY <2>2, <2>3, <3>1, Bounds
  <2>4. handler[h].stage = "chosen" /\ handler[h].index = Other
          => age'[Other][h] <= handler'[h].since
    BY <1>2, <2>1, <2>3 DEF Timing, Marked
  <2>5. \/ age[selected][h] <= handler[h].since
        \/ dumped = phase /\ handler[h].since + (Interval - phase) >= Grace
    BY <2>1 DEF Timing, Marked
  <2>6. CASE age[selected][h] <= handler[h].since
    BY <1>2, <2>3, <2>4, <2>6
  <2>7. CASE dumped = phase /\ handler[h].since + (Interval - phase) >= Grace
    <3>1. phase < Interval - 1
      BY <2>2, <2>7, Bounds
    <3>2. phase' = phase + 1 /\ dumped' = dumped + 1
      BY <1>3, <1>4, <2>7, <3>1, Bounds
    <3>3. QED
      BY <2>2, <2>4, <2>7, <3>2, Bounds
  <2>8. QED
    BY <2>5, <2>6, <2>7
<1>11. Reading' /\ Resting'
  BY <1>1, <1>2, <1>5 DEF Timing, Reading, Resting
<1>12. QED
  BY <1>7, <1>8, <1>9, <1>10, <1>11 DEF Timing

LEMMA RestartTiming ==
  ASSUME Types, Timing, Restart
  PROVE  Timing'
<1>1. /\ selected' \in {0, 1} /\ dumped' = -1
      /\ \A b \in {0, 1}, h \in Handler : age'[b][h] = Grace
      /\ \A h \in Handler : handler'[h].stage = "idle"
      /\ reaper'.stage = "idle" /\ reaper'.batch = {}
  BY RestartMoves DEF AtRest
<1>2. Other' \in {0, 1} /\ ~(dumped' >= Interval)
  <2>1. Other' = 1 - selected' /\ selected' \in {0, 1} /\ dumped' = -1
    BY <1>1 DEF Other
  <2>2. Other' \in {0, 1}
    <3>1. CASE selected' = 0
      BY <2>1, <3>1
    <3>2. CASE selected' = 1
      BY <2>1, <3>2
    <3>3. QED
      BY <2>1, <3>1, <3>2
  <2>3. ~(dumped' >= Interval)
    BY <2>1, StatBuffersAssumption
  <2>4. QED
    BY <2>2, <2>3
<1>3. QED
  BY <1>1, <1>2 DEF Timing, Clock, Aged, Rested, Marked, Reading, Resting

LEMMA TimingStep == ASSUME Types, Timing, [Next]_vars PROVE Timing'
<1>1. CASE UNCHANGED vars
  BY <1>1 DEF vars, threadVars, Timing, Clock, Aged, Rested, Marked, Reading, Resting,
              Other, Timely
<1>2. CASE Next
  BY <1>2, ReportTiming, ChooseTiming, AddTiming, ReadTiming, HandTiming, ClearTiming,
     SkipMoves, InsertMoves, FailMoves, WriteTiming, TickTiming, RestartTiming DEF Next
<1>3. QED
  BY <1>1, <1>2

-----------------------------------------------------------------------------
(***************************************************************************)
(* Where a record is                                                       *)
(***************************************************************************)
Batched(d, i, r) == i \in 1 .. Len(queue[d]) /\ r \in queue[d][i].batch
Queued(r) == \E d \in Db, i \in Nat : Batched(d, i, r)
Handed(r) == \E h \in Handler : handler[h].report = r
Gone(r) == \E g \in gone : g[1] = r

\* The reaper is done with it.
Down(r) == stored[r] > 0 \/ Gone(r) \/ Queued(r)

Known(r) == r \in unsent \/ Handed(r) \/ Waiting(r) \/ Down(r)

LEMMA HeldIs ==
  ASSUME Types, NEW r \in Report
  PROVE  r \in Held <=> Handed(r) \/ Queued(r)
<1>1. Queued(r) <=> \E d \in Db : \E i \in 1 .. Len(queue[d]) : r \in queue[d][i].batch
  <2>1. \A d \in Db : Len(queue[d]) \in Nat
    BY Queues
  <2>2. \A d \in Db : \A i \in 1 .. Len(queue[d]) : i \in Nat
    BY <2>1
  <2>3. QED
    BY <2>2 DEF Queued, Batched
<1>2. r \in Held <=> \/ \E h \in Handler : handler[h].report = r
                     \/ \E d \in Db : \E i \in 1 .. Len(queue[d]) : r \in queue[d][i].batch
  BY DEF Held
<1>3. QED
  BY <1>1, <1>2 DEF Handed

\* How the places in the queues move.
LEMMA LeavesMoves ==
  ASSUME Types, NEW d \in Db, NEW r, Leaves(d), \A e \in Db \ {d} : queue'[e] = queue[e]
  PROVE  /\ \A e \in Db, i \in Nat : e # d => (Batched(e, i, r)' <=> Batched(e, i, r))
         /\ \A i \in Nat : Batched(d, i, r)' => Batched(d, i + 1, r)
         /\ \A i \in Nat : Batched(d, i, r) /\ i # 1 => i - 1 \in Nat /\ Batched(d, i - 1, r)'
<1>1. \A e \in Db, i \in Nat : e # d => (Batched(e, i, r)' <=> Batched(e, i, r))
  BY DEF Batched
<1>2. PICK n \in Nat : n = Len(queue[d])
  BY Queues
<1>3. /\ Len(queue'[d]) = n - 1
      /\ \A i \in 1 .. n - 1 : i + 1 \in 1 .. n /\ queue'[d][i] = queue[d][i + 1]
  BY <1>2 DEF Leaves
<1>4. ASSUME NEW i \in Nat, Batched(d, i, r)'
      PROVE  Batched(d, i + 1, r)
  <2>1. i \in 1 .. n - 1 /\ r \in queue'[d][i].batch
    BY <1>3, <1>4 DEF Batched
  <2>2. QED
    BY <1>2, <1>3, <2>1 DEF Batched
<1>5. ASSUME NEW i \in Nat, Batched(d, i, r), i # 1
      PROVE  i - 1 \in Nat /\ Batched(d, i - 1, r)'
  <2>1. i \in 1 .. n /\ r \in queue[d][i].batch
    BY <1>2, <1>5 DEF Batched
  <2>2. PICK j \in 1 .. n - 1 : j = i - 1 /\ i = j + 1
    BY <1>5, <2>1
  <2>3. queue'[d][j] = queue[d][i]
    BY <1>3, <2>2
  <2>4. j \in 1 .. Len(queue'[d]) /\ r \in queue'[d][j].batch
    BY <1>3, <2>1, <2>3
  <2>5. Batched(d, j, r)'
    BY <2>4 DEF Batched
  <2>6. QED
    BY <2>2, <2>5
<1>6. QED
  BY <1>1, <1>4, <1>5

LEMMA StaysMoves ==
  ASSUME Types, NEW d \in Db, NEW r, Stays(d), \A e \in Db \ {d} : queue'[e] = queue[e]
  PROVE  \A e \in Db, i \in Nat : Batched(e, i, r)' <=> Batched(e, i, r)
BY DEF Stays, Batched

LEMMA TickBatches ==
  ASSUME Types, Tick, NEW r
  PROVE  \A e \in Db, i \in Nat : Batched(e, i, r)' <=> Batched(e, i, r)
<1>1. CASE queue' = queue
  BY <1>1 DEF Batched
<1>2. CASE /\ \A d \in Db : Len(queue'[d]) = Len(queue[d])
           /\ \A d \in Db : \A i \in 1 .. Len(queue[d]) : queue'[d][i].batch = queue[d][i].batch
  BY <1>2 DEF Batched
<1>3. QED
  BY <1>1, <1>2, TickMoves

\* A batch for every database is appended: r is in one of them if it was read.
LEMMA HandBatches ==
  ASSUME Types, HandOver, NEW r \in Report
  PROVE  /\ \A d \in Db, i \in Nat : Batched(d, i, r) => Batched(d, i, r)'
         /\ r \notin reaper.batch =>
              \A d \in Db, i \in Nat : Batched(d, i, r)' => Batched(d, i, r)
         /\ r \in reaper.batch =>
              \E e \in Db, n \in Nat :
                 /\ ~(n \in 1 .. Len(queue[e])) /\ Batched(e, n, r)'
                 /\ \A d \in Db, i \in Nat :
                      Batched(d, i, r)' /\ ~Batched(d, i, r) => d = e /\ i = n
<1>1. CASE reaper.batch = {} /\ queue' = queue
  BY <1>1 DEF Batched
<1>2. CASE /\ reaper.batch # {}
           /\ \E db \in [reaper.batch \ {Noise} -> Db] : \A d \in Db :
                queue'[d] = Append(queue[d],
                  [batch |-> {x \in reaper.batch \ {Noise} : db[x] = d}, flag |-> 0, tries |-> 0])
  <2>1. PICK db \in [reaper.batch \ {Noise} -> Db] : \A d \in Db :
                queue'[d] = Append(queue[d],
                  [batch |-> {x \in reaper.batch \ {Noise} : db[x] = d}, flag |-> 0, tries |-> 0])
    BY <1>2
  <2>2. ASSUME NEW d \in Db
        PROVE  /\ Len(queue[d]) \in Nat /\ Len(queue'[d]) = Len(queue[d]) + 1
               /\ \A i \in 1 .. Len(queue[d]) : queue'[d][i] = queue[d][i]
               /\ queue'[d][Len(queue[d]) + 1].batch = {x \in reaper.batch \ {Noise} : db[x] = d}
    <3>1. PICK q \in Seq(BatchType) : q = queue[d]
      BY Queues
    <3>2. PICK b : b = [batch |-> {x \in reaper.batch \ {Noise} : db[x] = d}, flag |-> 0, tries |-> 0]
      OBVIOUS
    <3>3. queue'[d] = Append(q, b) /\ b.batch = {x \in reaper.batch \ {Noise} : db[x] = d}
      BY <2>1, <3>1, <3>2
    <3>4. b \in BatchType
      <4>1. reaper.batch \ {Noise} \subseteq Report
        BY Read
      <4>2. QED
        BY <3>2, <4>1 DEF BatchType
    <3>5. /\ Len(q) \in Nat /\ Len(Append(q, b)) = Len(q) + 1
          /\ \A i \in 1 .. Len(q) : Append(q, b)[i] = q[i]
          /\ Append(q, b)[Len(q) + 1] = b
      BY <3>1, <3>4
    <3>6. QED
      BY <3>1, <3>3, <3>5
  <2>3. ASSUME NEW d \in Db, NEW i \in Nat
        PROVE  /\ Batched(d, i, r) => Batched(d, i, r)'
               /\ i = Len(queue[d]) + 1 /\ r \in reaper.batch /\ db[r] = d => Batched(d, i, r)'
               /\ Batched(d, i, r)' /\ ~Batched(d, i, r) =>
                    i = Len(queue[d]) + 1 /\ r \in reaper.batch /\ db[r] = d
    <3>1. i \in 1 .. Len(queue'[d]) <=> i \in 1 .. Len(queue[d]) \/ i = Len(queue[d]) + 1
      BY <2>2
    <3>2. ~(Len(queue[d]) + 1 \in 1 .. Len(queue[d]))
      BY <2>2
    <3>3. CASE i \in 1 .. Len(queue[d])
      <4>1. i \in 1 .. Len(queue'[d]) /\ i # Len(queue[d]) + 1 /\ queue'[d][i] = queue[d][i]
        BY <2>2, <3>1, <3>2, <3>3
      <4>2. QED
        BY <3>3, <4>1 DEF Batched
    <3>4. CASE i = Len(queue[d]) + 1
      BY <2>2, <3>1, <3>2, <3>4, Entries DEF Batched
    <3>5. QED
      BY <3>1, <3>3, <3>4 DEF Batched
  <2>4. ASSUME r \in reaper.batch
        PROVE  \E e \in Db, n \in Nat :
                 /\ ~(n \in 1 .. Len(queue[e])) /\ Batched(e, n, r)'
                 /\ \A d \in Db, i \in Nat :
                      Batched(d, i, r)' /\ ~Batched(d, i, r) => d = e /\ i = n
    <3>1. PICK e \in Db : e = db[r]
      BY <2>4, Entries
    <3>2. PICK n \in Nat : n = Len(queue[e]) + 1
      BY <2>2
    <3>3. ~(n \in 1 .. Len(queue[e]))
      BY <2>2, <3>2
    <3>4. Batched(e, n, r)'
      BY <2>3, <2>4, <3>1, <3>2
    <3>5. \A d \in Db, i \in Nat : Batched(d, i, r)' /\ ~Batched(d, i, r) => d = e /\ i = n
      <4>1. SUFFICES ASSUME NEW d \in Db, NEW i \in Nat, Batched(d, i, r)', ~Batched(d, i, r)
                     PROVE  d = e /\ i = n
        OBVIOUS
      <4>2. i = Len(queue[d]) + 1 /\ db[r] = d
        BY <2>3, <4>1
      <4>3. QED
        BY <3>1, <3>2, <4>2
    <3>6. QED
      BY <3>3, <3>4, <3>5
  <2>5. \A d \in Db, i \in Nat : Batched(d, i, r) => Batched(d, i, r)'
    BY <2>3
  <2>6. r \notin reaper.batch => \A d \in Db, i \in Nat : Batched(d, i, r)' => Batched(d, i, r)
    BY <2>3
  <2>7. QED
    BY <2>4, <2>5, <2>6
<1>3. QED
  BY <1>1, <1>2, HandMoves

-----------------------------------------------------------------------------
(***************************************************************************)
(* No record is lost                                                       *)
(***************************************************************************)
\* What was handed over is on its way.
Dealt == reaper.stage = "handed" => \A r \in reaper.batch \ {Noise} : Down(r)

EmptyHanded == \A h \in Handler : handler[h].stage = "idle" => handler[h].report = Noise

Kept == Dealt /\ EmptyHanded /\ (Timely => \A r \in Report : Known(r))

\* A batch that leaves its queue is written, skipped or given up.
LEMMA WriteKeeps ==
  ASSUME Types, NEW d \in Db, Skip(d) \/ insert2Db(d) \/ insert2DbFails(d),
         NEW r \in Report, Down(r)
  PROVE  Down(r)'
<1>1. stored[r] \in 0 .. 2
  BY DEF Types
<1>2. Gone(r) => Gone(r)'
  <2>1. gone \subseteq gone'
    BY SkipMoves, InsertMoves, FailMoves
  <2>2. QED
    BY <2>1 DEF Gone
<1>3. stored[r] > 0 => stored'[r] > 0
  <2>1. stored'[r] \in {stored[r], stored[r] + 1, 2}
    BY SkipMoves, InsertMoves, FailMoves
  <2>2. QED
    BY <1>1, <2>1
<1>4. CASE Queued(r)
  <2>1. PICK e \in Db, i \in Nat : Batched(e, i, r)
    BY <1>4 DEF Queued
  <2>2. CASE Stays(d) /\ \A c \in Db \ {d} : queue'[c] = queue[c]
    <3>1. Batched(e, i, r)'
      BY <2>1, <2>2, StaysMoves
    <3>2. QED
      BY <3>1 DEF Down, Queued
  <2>3. CASE Leaves(d) /\ \A c \in Db \ {d} : queue'[c] = queue[c]
    <3>1. CASE e # d
      <4>1. Batched(e, i, r)'
        BY <2>1, <2>3, <3>1, LeavesMoves
      <4>2. QED
        BY <4>1 DEF Down, Queued
    <3>2. CASE e = d /\ i # 1
      <4>1. i - 1 \in Nat /\ Batched(d, i - 1, r)'
        BY <2>1, <2>3, <3>2, LeavesMoves
      <4>2. QED
        BY <4>1 DEF Down, Queued
    <3>3. CASE e = d /\ i = 1
      <4>1. r \in queue[d][1].batch
        BY <2>1, <3>3 DEF Batched
      <4>2. CASE Skip(d)
        <5>1. <<r, "skipped">> \in gone'
          BY <4>1, <4>2, SkipMoves
        <5>2. QED
          BY <5>1 DEF Down, Gone
      <4>3. CASE insert2Db(d)
        <5>1. stored'[r] = IF stored[r] < 2 THEN stored[r] + 1 ELSE 2
          BY <4>1, <4>3, InsertMoves
        <5>2. stored'[r] > 0
          BY <1>1, <5>1
        <5>3. QED
          BY <5>2 DEF Down
      <4>4. CASE insert2DbFails(d) /\ gone' = gone \cup {<<x, "failed">> : x \in queue[d][1].batch}
        <5>1. <<r, "failed">> \in gone'
          BY <4>1, <4>4
        <5>2. QED
          BY <5>1 DEF Down, Gone
      <4>5. CASE insert2DbFails(d) /\ Stays(d)
        <5>1. Batched(e, i, r)'
          BY <2>1, <2>3, <4>5, StaysMoves
        <5>2. QED
          BY <5>1 DEF Down, Queued
      <4>6. QED
        BY <4>2, <4>3, <4>4, <4>5, FailMoves
    <3>4. QED
      BY <3>1, <3>2, <3>3
  <2>4. QED
    BY <2>2, <2>3, SkipMoves, InsertMoves, FailMoves
<1>5. QED
  BY <1>2, <1>3, <1>4 DEF Down

\* The other steps, but for a restart, take nothing out of a queue.
LEMMA DownKept ==
  ASSUME Types, NEW r \in Report, stored' = stored, gone \subseteq gone',
         \A d \in Db, i \in Nat : Batched(d, i, r) => Batched(d, i, r)',
         Down(r)
  PROVE  Down(r)'
<1>1. Gone(r) => Gone(r)'
  BY DEF Gone
<1>2. Queued(r) => Queued(r)'
  BY DEF Queued
<1>3. QED
  BY <1>1, <1>2 DEF Down

LEMMA KeptInit == Init => Kept
<1> SUFFICES ASSUME Init PROVE Kept
  OBVIOUS
<1>1. \A r \in Report : Known(r)
  BY DEF Init, Known
<1>2. \A h \in Handler : handler[h].report = Noise
  BY DEF Init, AtRest
<1>3. reaper.stage = "idle"
  BY DEF Init, Asleep
<1>4. QED
  BY <1>1, <1>2, <1>3 DEF Kept, Dealt, EmptyHanded

\* The handlers touch no queue.
LEMMA HandlersKeepDown ==
  ASSUME Types, stored' = stored, queue' = queue, gone \subseteq gone', NEW r \in Report, Down(r)
  PROVE  Down(r)'
<1>1. \A d \in Db, i \in Nat : Batched(d, i, r) => Batched(d, i, r)'
  BY DEF Batched
<1>2. QED
  BY <1>1, DownKept

LEMMA ReportKept ==
  ASSUME Types, Kept, NEW h \in Handler, reportMicMsg(h)
  PROVE  Kept'
<1>1. PICK x \in unsent \cup {Noise} :
        /\ unsent' = unsent \ {x}
        /\ handler'[h] = [stage |-> "marked", index |-> 0, report |-> x, since |-> 0]
  BY ReportMoves
<1>2. /\ \A k \in Handler \ {h} : handler'[k] = handler[k]
      /\ UNCHANGED <<buffer, gone, odd, reaper, queue, stored>>
  BY ReportMoves DEF Handling
<1>3. handler[h].stage = "idle" /\ handler[h].report = Noise /\ Noise \notin Report
  BY StatBuffersAssumption DEF reportMicMsg, Kept, EmptyHanded, Noise
<1>4. handler'[h].stage = "marked" /\ handler'[h].report = x
  BY <1>1
<1>5. \A r \in Report : Down(r) => Down(r)'
  BY <1>2, HandlersKeepDown
<1>6. Dealt'
  <2>1. reaper.batch \ {Noise} \subseteq Report
    BY Read
  <2>2. QED
    BY <1>2, <1>5, <2>1 DEF Kept, Dealt
<1>7. EmptyHanded'
  BY <1>2, <1>4 DEF Kept, EmptyHanded
<1>8. ASSUME Timely, NEW r \in Report
      PROVE  Known(r)'
  <2>1. Known(r)
    BY <1>8 DEF Kept
  <2>2. CASE r \in unsent
    BY <1>1, <1>4, <2>2 DEF Known, Handed
  <2>3. CASE Handed(r)
    <3>1. PICK k \in Handler : handler[k].report = r
      BY <2>3 DEF Handed
    <3>2. k # h
      BY <1>3, <3>1
    <3>3. handler'[k].report = r
      BY <1>2, <3>1, <3>2
    <3>4. QED
      BY <3>3 DEF Known, Handed
  <2>4. CASE Waiting(r)
    BY <1>2, <2>4 DEF Known, Waiting
  <2>5. CASE Down(r)
    BY <1>5, <2>5 DEF Known
  <2>6. QED
    BY <2>1, <2>2, <2>3, <2>4, <2>5 DEF Known
<1>9. QED
  BY <1>2, <1>6, <1>7, <1>8 DEF Kept, Timely

LEMMA ChooseKept ==
  ASSUME Types, Kept, NEW h \in Handler, dump2file(h)
  PROVE  Kept'
<1>1. handler'[h] = [stage |-> "chosen", index |-> selected',
                     report |-> handler[h].report, since |-> handler[h].since]
  BY ChooseMoves
<1>2. handler'[h].stage = "chosen" /\ handler'[h].report = handler[h].report
  BY <1>1
<1>3. \A k \in Handler \ {h} : handler'[k] = handler[k]
  BY ChooseMoves
<1>4. UNCHANGED <<buffer, gone, unsent, reaper, queue, stored>>
  BY ChooseMoves DEF Handling
<1>5. odd \subseteq odd'
  BY ChooseMoves
<1>6. \A r \in Report : Down(r) => Down(r)'
  BY <1>4, HandlersKeepDown
<1>7. Dealt'
  <2>1. reaper.batch \ {Noise} \subseteq Report
    BY Read
  <2>2. QED
    BY <1>4, <1>6, <2>1 DEF Kept, Dealt
<1>8. EmptyHanded'
  BY <1>2, <1>3 DEF Kept, EmptyHanded
<1>9. \A k \in Handler : handler'[k].report = handler[k].report
  BY <1>2, <1>3
<1>10. ASSUME NEW r \in Report, Known(r)
       PROVE  Known(r)'
  <2>1. Handed(r) => Handed(r)'
    BY <1>9 DEF Handed
  <2>2. Waiting(r) => Waiting(r)'
    BY <1>4 DEF Waiting
  <2>3. QED
    BY <1>4, <1>6, <1>10, <2>1, <2>2 DEF Known
<1>11. QED
  BY <1>5, <1>7, <1>8, <1>10 DEF Kept, Timely

LEMMA AddKept ==
  ASSUME Types, Kept, NEW h \in Handler, addHashMap(h)
  PROVE  Kept'
<1>1. /\ \A k \in Handler \ {h} : handler'[k] = handler[k]
      /\ handler'[h].stage = "idle" /\ handler'[h].report = Noise
  BY AddMoves DEF AtRest
<1>2. \/ handler[h].report = Noise /\ UNCHANGED <<buffer, gone>>
      \/ /\ handler[h].report \in Report /\ UNCHANGED buffer
         /\ gone' = gone \cup {<<handler[h].report, "full">>}
      \/ /\ UNCHANGED gone
         /\ buffer'[handler[h].index] = buffer[handler[h].index] \cup {handler[h].report}
         /\ \A b \in {0, 1} : b # handler[h].index => buffer'[b] = buffer[b]
  BY AddMoves
<1>3. UNCHANGED <<odd, unsent, reaper, queue, stored>> /\ gone \subseteq gone'
  BY <1>2, AddMoves DEF Handling
<1>4. \A r \in Report : Down(r) => Down(r)'
  BY <1>3, HandlersKeepDown
<1>5. Dealt'
  <2>1. reaper.batch \ {Noise} \subseteq Report
    BY Read
  <2>2. QED
    BY <1>3, <1>4, <2>1 DEF Kept, Dealt
<1>6. EmptyHanded'
  BY <1>1 DEF Kept, EmptyHanded
<1>7. ASSUME NEW r \in Report, Known(r)
      PROVE  Known(r)'
  <2>1. handler[h].index \in {0, 1} /\ Noise \notin Report
    BY Handled, Entries
  <2>2. \A b \in {0, 1} : buffer[b] \subseteq buffer'[b]
    BY <1>2
  <2>3. Waiting(r) => Waiting(r)'
    BY <2>2, Tables DEF Waiting
  <2>4. CASE handler[h].report = r
    <3>1. CASE buffer'[handler[h].index] = buffer[handler[h].index] \cup {handler[h].report}
      <4>1. r \in buffer'[handler[h].index]
        BY <2>4, <3>1
      <4>2. QED
        BY <2>1, <4>1, Tables DEF Known, Waiting
    <3>2. CASE gone' = gone \cup {<<handler[h].report, "full">>}
      <4>1. <<r, "full">> \in gone'
        BY <2>4, <3>2
      <4>2. QED
        BY <4>1 DEF Known, Down, Gone
    <3>3. QED
      BY <1>2, <2>1, <2>4, <3>1, <3>2
  <2>5. CASE handler[h].report # r
    <3>1. Handed(r) => Handed(r)'
      BY <1>1, <2>5 DEF Handed
    <3>2. QED
      BY <1>3, <1>4, <1>7, <2>3, <3>1 DEF Known
  <2>6. QED
    BY <2>4, <2>5
<1>8. QED
  BY <1>3, <1>5, <1>6, <1>7 DEF Kept, Timely

LEMMA ReaperKept ==
  ASSUME Types, Timing, Kept, getDataFromBuffer \/ HandOver \/ Clear
  PROVE  Kept'
<1>1. UNCHANGED <<unsent, handler, stored, gone, odd>>
  BY ReadMoves, HandMoves, ClearMoves DEF Reaping
<1>2. \A r \in Report : Down(r) => Down(r)'
  <2>1. CASE queue' = queue
    BY <1>1, <2>1, HandlersKeepDown
  <2>2. CASE HandOver
    <3>1. SUFFICES ASSUME NEW r \in Report, Down(r) PROVE Down(r)'
      OBVIOUS
    <3>2. \A d \in Db, i \in Nat : Batched(d, i, r) => Batched(d, i, r)'
      BY <2>2, HandBatches
    <3>3. QED
      BY <1>1, <3>1, <3>2, DownKept
  <2>3. QED
    BY <2>1, <2>2, ReadMoves, ClearMoves
<1>3. EmptyHanded'
  BY <1>1 DEF Kept, EmptyHanded
<1>4. Dealt'
  <2>1. CASE getDataFromBuffer
    <3>1. reaper'.stage = "read"
      BY <2>1, ReadMoves
    <3>2. QED
      BY <3>1 DEF Dealt
  <2>2. CASE Clear
    <3>1. reaper'.stage = "idle"
      BY <2>2, ClearMoves
    <3>2. QED
      BY <3>1 DEF Dealt
  <2>3. CASE HandOver
    <3>1. reaper'.batch = reaper.batch
      BY <2>3, HandMoves
    <3>2. SUFFICES ASSUME NEW r \in reaper.batch \ {Noise} PROVE Down(r)'
      BY <3>1 DEF Dealt
    <3>5. r \in Report
      BY Read
    <3>3. PICK e \in Db, n \in Nat : Batched(e, n, r)'
      BY <2>3, <3>5, HandBatches
    <3>4. QED
      BY <3>3 DEF Down, Queued
  <2>4. QED
    BY <2>1, <2>2, <2>3
<1>5. ASSUME Timely, NEW r \in Report
      PROVE  Known(r)'
  <2>1. Known(r)
    BY <1>5 DEF Kept
  <2>2. Waiting(r) => Waiting(r)' \/ Down(r)
    <3>1. CASE buffer' = buffer
      BY <3>1 DEF Waiting
    <3>2. CASE Clear
      <4>1. /\ reaper.stage = "handed"
            /\ \A b \in {0, 1} : b # last => buffer'[b] = buffer[b]
        BY <3>2, ClearMoves
      <4>2. buffer[last] = reaper.batch
        BY <1>5, <4>1 DEF Timing, Reading
      <4>3. \A x \in reaper.batch \ {Noise} : Down(x)
        BY <4>1 DEF Kept, Dealt
      <4>4. SUFFICES ASSUME NEW b \in {0, 1}, r \in buffer[b]
                     PROVE  Waiting(r)' \/ Down(r)
        BY Tables DEF Waiting
      <4>5. CASE b = last
        BY <4>2, <4>3, <4>4, <4>5, Entries
      <4>6. CASE b # last
        <5>1. r \in buffer'[b]
          BY <4>1, <4>4, <4>6
        <5>2. QED
          BY <5>1, Tables DEF Waiting
      <4>7. QED
        BY <4>5, <4>6
    <3>3. QED
      BY <3>1, <3>2, ReadMoves, HandMoves
  <2>3. Handed(r) => Handed(r)'
    BY <1>1 DEF Handed
  <2>4. QED
    BY <1>1, <1>2, <2>1, <2>2, <2>3 DEF Known
<1>6. QED
  BY <1>1, <1>3, <1>4, <1>5 DEF Kept, Timely

LEMMA WriterKept ==
  ASSUME Types, Kept, NEW d \in Db, Skip(d) \/ insert2Db(d) \/ insert2DbFails(d)
  PROVE  Kept'
<1>1. UNCHANGED <<unsent, buffer, handler, reaper, odd>>
  BY SkipMoves, InsertMoves, FailMoves DEF Writing
<1>2. \A r \in Report : Down(r) => Down(r)'
  BY WriteKeeps
<1>3. reaper.batch \ {Noise} \subseteq Report
  BY Read
<1>4. Dealt' /\ EmptyHanded'
  BY <1>1, <1>2, <1>3 DEF Kept, Dealt, EmptyHanded
<1>5. \A r \in Report : Known(r) => Known(r)'
  <2>1. SUFFICES ASSUME NEW r \in Report, Known(r) PROVE Known(r)'
    OBVIOUS
  <2>2. (Handed(r) => Handed(r)') /\ (Waiting(r) => Waiting(r)')
    BY <1>1 DEF Handed, Waiting
  <2>3. QED
    BY <1>1, <1>2, <2>1, <2>2 DEF Known
<1>6. QED
  BY <1>1, <1>4, <1>5 DEF Kept, Timely

LEMMA TickKept ==
  ASSUME Types, Kept, Tick
  PROVE  Kept'
<1>1. /\ UNCHANGED <<buffer, unsent, reaper, stored, gone, odd>>
      /\ \A h \in Handler : /\ handler'[h].stage = handler[h].stage
                            /\ handler'[h].report = handler[h].report
  BY TickMoves
<1>2. \A r \in Report : Down(r) => Down(r)'
  <2>1. SUFFICES ASSUME NEW r \in Report, Down(r) PROVE Down(r)'
    OBVIOUS
  <2>2. \A e \in Db, i \in Nat : Batched(e, i, r) => Batched(e, i, r)'
    BY TickBatches
  <2>3. QED
    BY <1>1, <2>1, <2>2, DownKept
<1>3. reaper.batch \ {Noise} \subseteq Report
  BY Read
<1>4. Dealt' /\ EmptyHanded'
  BY <1>1, <1>2, <1>3 DEF Kept, Dealt, EmptyHanded
<1>5. \A r \in Report : Known(r) => Known(r)'
  <2>1. SUFFICES ASSUME NEW r \in Report, Known(r) PROVE Known(r)'
    OBVIOUS
  <2>2. (Handed(r) => Handed(r)') /\ (Waiting(r) => Waiting(r)')
    BY <1>1 DEF Handed, Waiting
  <2>3. QED
    BY <1>1, <1>2, <2>1, <2>2 DEF Known
<1>6. QED
  BY <1>1, <1>4, <1>5 DEF Kept, Timely

\* What the threads held is entered in the ledger, unless it is in a table as well.
LEMMA RestartKept ==
  ASSUME Types, Kept, Restart
  PROVE  Kept'
<1>1. /\ odd' = odd \cup {"restart"} /\ reaper'.stage = "idle"
      /\ \A h \in Handler : handler'[h].report = Noise
      /\ UNCHANGED <<buffer, unsent, stored>>
  BY RestartMoves DEF AtRest
<1>2. /\ gone \subseteq gone'
      /\ \A r \in Held : (\A b \in Buffer : r \notin buffer[b]) => <<r, "restart">> \in gone'
  BY RestartMoves
<1>3. Dealt' /\ EmptyHanded'
  BY <1>1 DEF Dealt, EmptyHanded
<1>4. ASSUME NEW r \in Report, Known(r)
      PROVE  Known(r)'
  <2>1. CASE Waiting(r)
    BY <1>1, <2>1 DEF Known, Waiting
  <2>2. CASE ~Waiting(r) /\ (Handed(r) \/ Queued(r))
    <3>1. r \in Held
      BY <2>2, HeldIs
    <3>2. <<r, "restart">> \in gone'
      BY <1>2, <2>2, <3>1 DEF Waiting
    <3>3. QED
      BY <3>2 DEF Known, Down, Gone
  <2>3. CASE r \in unsent \/ stored[r] > 0 \/ Gone(r)
    BY <1>1, <1>2, <2>3 DEF Known, Down, Gone
  <2>4. QED
    BY <1>4, <2>1, <2>2, <2>3 DEF Known, Down
<1>5. Timely' => Timely
  BY <1>1 DEF Timely
<1>6. QED
  BY <1>3, <1>4, <1>5 DEF Kept

LEMMA KeptStep == ASSUME Types, Timing, Kept, [Next]_vars PROVE Kept'
<1>1. CASE UNCHANGED vars
  BY <1>1 DEF vars, threadVars, Kept, Dealt, EmptyHanded, Timely, Known, Handed, Waiting,
              Down, Gone, Queued, Batched
<1>2. CASE Next
  BY <1>2, ReportKept, ChooseKept, AddKept, ReaperKept, WriterKept, TickKept, RestartKept
     DEF Next
<1>3. QED
  BY <1>1, <1>2

\* A record is known to be somewhere, and that is what NothingLost says.
LEMMA KeptIsNothingLost == ASSUME Types, Kept PROVE NothingLost
<1>1. SUFFICES ASSUME NEW r \in Report, Timely
               PROVE  \/ r \in unsent \/ Waiting(r) \/ stored[r] > 0
                      \/ (\E g \in gone : g[1] = r) \/ r \in Held
  BY DEF NothingLost, Timely
<1>2. Known(r)
  BY <1>1 DEF Kept
<1>3. Handed(r) \/ Queued(r) => r \in Held
  BY HeldIs
<1>4. QED
  BY <1>2, <1>3 DEF Known, Down, Gone

-----------------------------------------------------------------------------
(***************************************************************************)
(* No record is in two places, and so none is stored twice                 *)
(***************************************************************************)
InBoth(r) == r \in buffer[0] /\ r \in buffer[1]

\* It is being handed over and still waits to be cleared.
Copied(r) == reaper.stage = "handed" /\ r \in reaper.batch

Single(r) ==
  /\ r \in unsent => ~Handed(r)
  /\ \A h, k \in Handler : handler[h].report = r /\ handler[k].report = r => h = k
  /\ r \in unsent \/ Handed(r) => ~Waiting(r) /\ ~Queued(r) /\ stored[r] = 0
  /\ ~InBoth(r)
  /\ r \in reaper.batch => last \in {0, 1} /\ r \in buffer[last]
  /\ Waiting(r) /\ ~Copied(r) => ~Queued(r) /\ stored[r] = 0
  /\ \A d, e \in Db, i, j \in Nat : Batched(d, i, r) /\ Batched(e, j, r) => d = e /\ i = j
  /\ Queued(r) => stored[r] = 0
  /\ stored[r] < 2

Once == \A r \in Report : <<r, "twice">> \in gone \/ Single(r)

LEMMA OnceInit == Init => Once
<1> SUFFICES ASSUME Init PROVE Once
  OBVIOUS
<1>1. SUFFICES ASSUME NEW r \in Report PROVE Single(r)
  BY DEF Once
<1>2. r # Noise /\ stored[r] = 0 /\ reaper.batch = {}
  BY StatBuffersAssumption DEF Init, Noise, Asleep
<1>3. ~Handed(r)
  BY <1>2 DEF Init, AtRest, Handed
<1>4. ~Waiting(r) /\ ~InBoth(r)
  BY DEF Init, Waiting, InBoth, Buffer
<1>5. \A d \in Db, i \in Nat : ~Batched(d, i, r)
  BY DEF Init, Batched
<1>6. ~Queued(r)
  BY <1>5 DEF Queued
<1>7. QED
  BY <1>2, <1>3, <1>4, <1>5, <1>6 DEF Single, Handed

\* Where a record is does not change.
LEMMA SingleKept ==
  ASSUME NEW r \in Report, Single(r),
         r \in unsent' => r \in unsent,
         \A h \in Handler : handler'[h].report = r => handler[h].report = r,
         \A b \in {0, 1} : r \in buffer'[b] <=> r \in buffer[b],
         reaper' = reaper, last' = last,
         \A d \in Db, i \in Nat : Batched(d, i, r)' => Batched(d, i, r),
         stored'[r] = stored[r]
  PROVE  Single(r)'
<1>1. Handed(r)' => Handed(r)
  BY DEF Handed
<1>2. Queued(r)' => Queued(r)
  BY DEF Queued
<1>3. (Waiting(r)' => Waiting(r)) /\ (InBoth(r)' => InBoth(r))
  BY Tables DEF Waiting, InBoth
<1>4. Copied(r) => Copied(r)'
  BY DEF Copied
<1>5. QED
  BY <1>1, <1>2, <1>3, <1>4 DEF Single

LEMMA ReportOnce ==
  ASSUME Types, Kept, NEW h \in Handler, reportMicMsg(h), NEW r \in Report, Single(r)
  PROVE  Single(r)'
<1>1. PICK x \in unsent \cup {Noise} :
        /\ unsent' = unsent \ {x}
        /\ handler'[h] = [stage |-> "marked", index |-> 0, report |-> x, since |-> 0]
  BY ReportMoves
<1>2. /\ \A k \in Handler \ {h} : handler'[k] = handler[k]
      /\ UNCHANGED <<buffer, reaper, last, queue, stored>>
  BY ReportMoves DEF Handling
<1>3. handler'[h].report = x
  BY <1>1
<1>4. CASE x # r
  <2>1. \A d \in Db, i \in Nat : Batched(d, i, r)' => Batched(d, i, r)
    BY <1>2 DEF Batched
  <2>2. \A k \in Handler : handler'[k].report = r => handler[k].report = r
    BY <1>2, <1>3, <1>4
  <2>3. QED
    BY <1>1, <1>2, <2>1, <2>2, SingleKept
<1>5. CASE x = r
  <2>1. r \in unsent /\ r \notin unsent'
    BY <1>1, <1>5, StatBuffersAssumption DEF Noise
  <2>2. ~Handed(r) /\ ~Waiting(r) /\ ~Queued(r) /\ stored[r] = 0
    BY <2>1 DEF Single
  <2>3. \A k \in Handler : handler'[k].report = r => k = h
    BY <1>2, <2>2 DEF Handed
  <2>4. ~Queued(r)' /\ ~Waiting(r)'
    BY <1>2, <2>2 DEF Queued, Batched, Waiting
  <2>5. ~InBoth(r)' /\ r \notin reaper'.batch /\ stored'[r] = 0
    BY <1>2, <2>2, Tables DEF Single, InBoth, Waiting
  <2>6. \A d \in Db, i \in Nat : ~Batched(d, i, r)'
    BY <2>4 DEF Queued
  <2>7. QED
    BY <2>1, <2>3, <2>4, <2>5, <2>6 DEF Single
<1>6. QED
  BY <1>4, <1>5

LEMMA ChooseOnce ==
  ASSUME Types, NEW h \in Handler, dump2file(h), NEW r \in Report, Single(r)
  PROVE  Single(r)'
<1>1. handler'[h] = [stage |-> "chosen", index |-> selected',
                     report |-> handler[h].report, since |-> handler[h].since]
  BY ChooseMoves
<1>2. /\ \A k \in Handler \ {h} : handler'[k] = handler[k]
      /\ UNCHANGED <<buffer, unsent, reaper, last, queue, stored>>
  BY ChooseMoves DEF Handling
<1>3. \A k \in Handler : handler'[k].report = handler[k].report
  BY <1>1, <1>2
<1>4. \A d \in Db, i \in Nat : Batched(d, i, r)' => Batched(d, i, r)
  BY <1>2 DEF Batched
<1>5. QED
  BY <1>2, <1>3, <1>4, SingleKept

LEMMA AddOnce ==
  ASSUME Types, NEW h \in Handler, addHashMap(h), NEW r \in Report, Single(r)
  PROVE  Single(r)'
<1>1. /\ \A k \in Handler \ {h} : handler'[k] = handler[k]
      /\ handler'[h].report = Noise /\ Noise \notin Report
  BY AddMoves, StatBuffersAssumption DEF AtRest, Noise
<1>2. /\ UNCHANGED <<unsent, reaper, last, queue, stored>>
      /\ handler[h].index \in {0, 1}
  BY AddMoves, Handled DEF Handling
<1>3. \A b \in {0, 1} : r \in buffer[b] => r \in buffer'[b]
  BY AddMoves
<1>4. \A b \in {0, 1} : r \in buffer'[b] /\ r \notin buffer[b] =>
        b = handler[h].index /\ r = handler[h].report
  BY AddMoves
<1>5. \A d \in Db, i \in Nat : Batched(d, i, r)' => Batched(d, i, r)
  BY <1>2 DEF Batched
<1>6. CASE handler[h].report # r
  <2>1. \A b \in {0, 1} : r \in buffer'[b] <=> r \in buffer[b]
    BY <1>3, <1>4, <1>6
  <2>2. \A k \in Handler : handler'[k].report = r => handler[k].report = r
    BY <1>1
  <2>3. QED
    BY <1>2, <1>5, <2>1, <2>2, SingleKept
<1>7. CASE handler[h].report = r
  <2>1. Handed(r)
    BY <1>7 DEF Handed
  <2>2. r \notin unsent /\ ~Waiting(r) /\ ~Queued(r) /\ stored[r] = 0
    BY <2>1 DEF Single
  <2>3. \A k \in Handler : handler'[k].report # r
    BY <1>1, <1>7 DEF Single
  <2>4. \A b \in {0, 1} : r \notin buffer[b]
    BY <2>2, Tables DEF Waiting
  <2>5. r \notin reaper.batch
    BY <2>4 DEF Single
  <2>6. ~InBoth(r)'
    BY <1>4, <2>4 DEF InBoth
  <2>7. \A d \in Db, i \in Nat : ~Batched(d, i, r)'
    BY <1>5, <2>2 DEF Queued
  <2>8. ~Queued(r)' /\ ~Handed(r)'
    BY <2>3, <2>7 DEF Queued, Handed
  <2>9. QED
    BY <1>2, <2>2, <2>3, <2>5, <2>6, <2>7, <2>8 DEF Single
<1>8. QED
  BY <1>6, <1>7

LEMMA ReadOnce ==
  ASSUME Types, getDataFromBuffer, NEW r \in Report, Single(r)
  PROVE  Single(r)'
<1>1. /\ reaper.stage = "idle" /\ last' = 1 - selected
      /\ reaper' = [stage |-> "read", batch |-> buffer[1 - selected]]
      /\ UNCHANGED <<buffer, queue, unsent, handler, stored>>
  BY ReadMoves DEF Reaping
<1>2. ~Copied(r)
  BY <1>1 DEF Copied
<1>3. last' \in {0, 1} /\ reaper'.batch = buffer'[last']
  BY <1>1, Bounds
<1>4. /\ Handed(r)' => Handed(r)
      /\ Waiting(r)' => Waiting(r)
      /\ InBoth(r)' => InBoth(r)
  BY <1>1 DEF Handed, Waiting, InBoth
<1>5. \A d \in Db, i \in Nat : Batched(d, i, r)' => Batched(d, i, r)
  BY <1>1 DEF Batched
<1>6. Queued(r)' => Queued(r)
  BY <1>5 DEF Queued
<1>7. QED
  BY <1>1, <1>2, <1>3, <1>4, <1>5, <1>6 DEF Single

LEMMA HandOnce ==
  ASSUME Types, HandOver, NEW r \in Report, Single(r)
  PROVE  Single(r)'
<1>1. /\ reaper.stage = "read" /\ reaper'.stage = "handed" /\ reaper'.batch = reaper.batch
      /\ UNCHANGED <<buffer, last, unsent, handler, stored>>
  BY HandMoves DEF Reaping
<1>2. /\ Handed(r)' => Handed(r)
      /\ Waiting(r)' => Waiting(r)
      /\ InBoth(r)' => InBoth(r)
  BY <1>1 DEF Handed, Waiting, InBoth
<1>3. ~Copied(r)
  BY <1>1 DEF Copied
<1>4. CASE r \notin reaper.batch
  <2>1. \A d \in Db, i \in Nat : Batched(d, i, r)' => Batched(d, i, r)
    BY <1>4, HandBatches
  <2>2. Queued(r)' => Queued(r)
    BY <2>1 DEF Queued
  <2>3. QED
    BY <1>1, <1>2, <1>3, <1>4, <2>1, <2>2 DEF Single
<1>5. CASE r \in reaper.batch
  <2>1. last \in {0, 1} /\ r \in buffer[last]
    BY <1>5 DEF Single
  <2>2. Waiting(r)
    BY <2>1, Tables DEF Waiting
  <2>3. ~Queued(r) /\ stored[r] = 0 /\ r \notin unsent /\ ~Handed(r)
    BY <1>3, <2>2 DEF Single
  <2>4. PICK c \in Db, n \in Nat :
          \A d \in Db, i \in Nat : Batched(d, i, r)' /\ ~Batched(d, i, r) => d = c /\ i = n
    BY <1>5, HandBatches
  <2>5. \A d \in Db, i \in Nat : Batched(d, i, r)' => d = c /\ i = n
    BY <2>3, <2>4 DEF Queued
  <2>6. ~Handed(r)' /\ \A k \in Handler : handler'[k].report # r
    BY <1>1, <1>2, <2>3 DEF Handed
  <2>7. Copied(r)'
    BY <1>1, <1>5 DEF Copied
  <2>8. \A d, e \in Db, i, j \in Nat : Batched(d, i, r)' /\ Batched(e, j, r)' => d = e /\ i = j
    BY <2>5
  <2>9. QED
    BY <1>1, <1>2, <2>1, <2>3, <2>6, <2>7, <2>8 DEF Single
<1>6. QED
  BY <1>4, <1>5

LEMMA ClearOnce ==
  ASSUME Types, Clear, NEW r \in Report, Single(r)
  PROVE  Single(r)'
<1>1. /\ reaper.stage = "handed" /\ reaper'.batch = {}
      /\ last \in {0, 1} => buffer'[last] = {}
      /\ \A b \in {0, 1} : b # last => buffer'[b] = buffer[b]
      /\ UNCHANGED <<last, queue, unsent, handler, stored>>
  BY ClearMoves DEF Reaping
<1>2. \A b \in {0, 1} : r \in buffer'[b] => b # last /\ r \in buffer[b]
  BY <1>1
<1>3. Handed(r)' => Handed(r)
  BY <1>1 DEF Handed
<1>4. Waiting(r)' => Waiting(r)
  BY <1>2, Tables DEF Waiting
<1>5. Waiting(r)' => ~Copied(r)
  <2>1. SUFFICES ASSUME Copied(r), NEW b \in {0, 1}, r \in buffer'[b] PROVE FALSE
    BY Tables DEF Waiting
  <2>2. b # last /\ r \in buffer[b] /\ last \in {0, 1} /\ r \in buffer[last]
    BY <1>2, <2>1 DEF Copied, Single
  <2>3. InBoth(r)
    BY <2>2 DEF InBoth
  <2>4. QED
    BY <2>3 DEF Single
<1>6. InBoth(r)' => InBoth(r)
  BY <1>2 DEF InBoth
<1>7. \A d \in Db, i \in Nat : Batched(d, i, r)' => Batched(d, i, r)
  BY <1>1 DEF Batched
<1>8. Queued(r)' => Queued(r)
  BY <1>7 DEF Queued
<1>9. QED
  BY <1>1, <1>3, <1>4, <1>5, <1>6, <1>7, <1>8 DEF Single

LEMMA WriterOnce ==
  ASSUME Types, NEW d \in Db, Skip(d) \/ insert2Db(d) \/ insert2DbFails(d),
         NEW r \in Report, Single(r)
  PROVE  Single(r)'
<1>1. UNCHANGED <<unsent, buffer, handler, reaper, last>>
  BY SkipMoves, InsertMoves, FailMoves DEF Writing
<1>2. CASE Stays(d) /\ (\A c \in Db \ {d} : queue'[c] = queue[c]) /\ stored' = stored
  <2>1. \A e \in Db, i \in Nat : Batched(e, i, r)' => Batched(e, i, r)
    BY <1>2, StaysMoves
  <2>2. QED
    BY <1>1, <1>2, <2>1, SingleKept
<1>3. CASE Leaves(d) /\ \A c \in Db \ {d} : queue'[c] = queue[c]
  <2>1. /\ \A e \in Db, i \in Nat : e # d => (Batched(e, i, r)' => Batched(e, i, r))
        /\ \A i \in Nat : Batched(d, i, r)' => Batched(d, i + 1, r)
    BY <1>3, LeavesMoves
  <2>2. Queued(r)' => Queued(r)
    <3>1. SUFFICES ASSUME NEW e \in Db, NEW i \in Nat, Batched(e, i, r)' PROVE Queued(r)
      BY DEF Queued
    <3>2. i + 1 \in Nat
      OBVIOUS
    <3>3. QED
      BY <2>1, <3>1, <3>2 DEF Queued
  <2>3. \A c, e \in Db, i, j \in Nat : Batched(c, i, r)' /\ Batched(e, j, r)' => c = e /\ i = j
    <3>1. SUFFICES ASSUME NEW c \in Db, NEW e \in Db, NEW i \in Nat, NEW j \in Nat,
                          Batched(c, i, r)', Batched(e, j, r)'
                   PROVE  c = e /\ i = j
      OBVIOUS
    <3>2. PICK m \in Nat : Batched(c, m, r) /\ m = IF c = d THEN i + 1 ELSE i
      BY <2>1, <3>1
    <3>3. PICK n \in Nat : Batched(e, n, r) /\ n = IF e = d THEN j + 1 ELSE j
      BY <2>1, <3>1
    <3>4. c = e /\ m = n
      BY <3>2, <3>3 DEF Single
    <3>5. QED
      BY <3>2, <3>3, <3>4
  <2>4. /\ Handed(r)' => Handed(r)
        /\ Waiting(r)' => Waiting(r)
        /\ InBoth(r)' => InBoth(r)
        /\ Copied(r) => Copied(r)'
    BY <1>1 DEF Handed, Waiting, InBoth, Copied
  <2>5. CASE stored'[r] = stored[r]
    BY <1>1, <2>2, <2>3, <2>4, <2>5 DEF Single
  <2>6. CASE insert2Db(d) /\ r \in queue[d][1].batch
    <3>1. Batched(d, 1, r)
      BY <2>6, InsertMoves DEF Batched
    <3>2. Queued(r)
      BY <3>1 DEF Queued
    <3>3. /\ stored[r] = 0 /\ r \notin unsent /\ ~Handed(r)
          /\ Waiting(r) => Copied(r)
      BY <3>2 DEF Single
    <3>4. stored'[r] = 1
      <4>1. stored'[r] = IF stored[r] < 2 THEN stored[r] + 1 ELSE 2
        BY <2>6, InsertMoves
      <4>2. QED
        BY <3>3, <4>1
    <3>5. ~Queued(r)'
      <4>1. SUFFICES ASSUME NEW e \in Db, NEW i \in Nat, Batched(e, i, r)' PROVE FALSE
        BY DEF Queued
      <4>2. PICK m \in Nat : Batched(e, m, r) /\ m = IF e = d THEN i + 1 ELSE i
        BY <2>1, <4>1
      <4>3. e = d /\ m = 1
        BY <3>1, <4>2 DEF Single
      <4>4. i = 0
        BY <4>2, <4>3
      <4>5. i \in 1 .. Len(queue'[d])
        BY <4>1, <4>3 DEF Batched
      <4>6. Len(queue'[d]) \in Int
        BY <1>3, Queues DEF Leaves
      <4>7. QED
        BY <4>4, <4>5, <4>6
    <3>6. QED
      BY <1>1, <2>3, <2>4, <3>3, <3>4, <3>5 DEF Single
  <2>7. QED
    BY <2>5, <2>6, SkipMoves, InsertMoves, FailMoves
<1>4. QED
  BY <1>2, <1>3, SkipMoves, InsertMoves, FailMoves

LEMMA TickOnce ==
  ASSUME Types, Tick, NEW r \in Report, Single(r)
  PROVE  Single(r)'
<1>1. /\ UNCHANGED <<buffer, unsent, reaper, last, stored>>
      /\ \A h \in Handler : handler'[h].report = handler[h].report
  BY TickMoves
<1>2. \A d \in Db, i \in Nat : Batched(d, i, r)' => Batched(d, i, r)
  BY TickBatches
<1>3. QED
  BY <1>1, <1>2, SingleKept

\* What is on its way to a database and in a table as well is entered in the ledger.
LEMMA RestartOnce ==
  ASSUME Types, Restart, NEW r \in Report, Single(r)
  PROVE  <<r, "twice">> \in gone' \/ Single(r)'
<1>1. /\ \A h \in Handler : handler'[h].report = Noise
      /\ reaper'.batch = {} /\ \A d \in Db : queue'[d] = <<>>
      /\ UNCHANGED <<buffer, unsent, stored>>
  BY RestartMoves DEF AtRest
<1>2. CASE Copied(r)
  <2>1. r \in reaper.batch \ {Noise} /\ reaper.stage = "handed"
    BY <1>2, Entries DEF Copied
  <2>2. QED
    BY <2>1, RestartMoves
<1>3. CASE ~Copied(r)
  <2>1. \A h \in Handler : handler'[h].report # r
    BY <1>1, StatBuffersAssumption DEF Noise
  <2>2. ~Handed(r)'
    BY <2>1 DEF Handed
  <2>3. \A d \in Db, i \in Nat : ~Batched(d, i, r)'
    BY <1>1 DEF Batched
  <2>4. ~Queued(r)'
    BY <2>3 DEF Queued
  <2>5. (Waiting(r)' => Waiting(r)) /\ (InBoth(r)' => InBoth(r))
    BY <1>1 DEF Waiting, InBoth
  <2>6. QED
    BY <1>1, <1>3, <2>1, <2>2, <2>3, <2>4, <2>5 DEF Single
<1>4. QED
  BY <1>2, <1>3

LEMMA OnceStep == ASSUME Types, Kept, Once, [Next]_vars PROVE Once'
<1>1. CASE UNCHANGED vars
  <2>1. UNCHANGED <<unsent, handler, buffer, reaper, last, queue, stored, gone>>
    BY <1>1 DEF vars, threadVars
  <2>2. SUFFICES ASSUME NEW r \in Report, Single(r) PROVE Single(r)'
    BY <2>1 DEF Once
  <2>3. \A d \in Db, i \in Nat : Batched(d, i, r)' => Batched(d, i, r)
    BY <2>1 DEF Batched
  <2>4. QED
    BY <2>1, <2>2, <2>3, SingleKept
<1>2. CASE Next
  <2>1. gone \subseteq gone'
    BY <1>2, ReportMoves, ChooseMoves, AddMoves, ReadMoves, HandMoves, ClearMoves, SkipMoves,
       InsertMoves, FailMoves, TickMoves, RestartMoves DEF Next, Reaping
  <2>2. SUFFICES ASSUME NEW r \in Report, Single(r)
                 PROVE  <<r, "twice">> \in gone' \/ Single(r)'
    BY <2>1 DEF Once
  <2>3. QED
    BY <1>2, <2>2, ReportOnce, ChooseOnce, AddOnce, ReadOnce, HandOnce, ClearOnce, WriterOnce,
       TickOnce, RestartOnce DEF Next
<1>3. QED
  BY <1>1, <1>2

LEMMA OnceIsStoredOnce == Once => StoredOnce
BY DEF Once, Single, StoredOnce


-----------------------------------------------------------------------------
(***************************************************************************)
(* In order, no batch is taken for one that is in the database already     *)
(***************************************************************************)
\* The batches of a database are of intervals that it does not have yet.
InOrder(d) ==
  /\ \A i \in 1 .. Len(queue[d]) : queue[d][i].flag < written[d]
  /\ \A i, j \in 1 .. Len(queue[d]) : i < j => queue[d][i].flag > queue[d][j].flag

\* Nothing was handed to a database in this interval yet.
Fresh(d) == written[d] >= 1 /\ \A i \in 1 .. Len(queue[d]) : queue[d][i].flag >= 1

AllFresh == \A d \in Db : Fresh(d)

NoneSkipped == \A r \in Report : <<r, "skipped">> \notin gone

\* The other table is empty until the first switch.
FirstTable == selected = 0 /\ buffer[1] = {} /\ \A h \in Handler : handler[h].index = 0

Flagged == odd = {} =>
  /\ \A d \in Db : InOrder(d)
  /\ reaper.stage = "read" /\ reaper.batch # {} => AllFresh
  /\ last = selected => AllFresh
  /\ dumped >= Interval => AllFresh
  /\ last = None => FirstTable
  /\ NoneSkipped

LEMMA Flags ==
  ASSUME Types, NEW d \in Db
  PROVE  /\ written[d] \in Nat /\ written[d] <= 2 /\ Len(queue[d]) \in Nat
         /\ \A i \in 1 .. Len(queue[d]) : queue[d][i].flag \in Nat
<1>1. written[d] \in 0 .. 2
  BY DEF Types
<1>2. QED
  BY <1>1, Queues

LEMMA FlaggedInit == Init => Flagged
<1> SUFFICES ASSUME Init PROVE Flagged
  OBVIOUS
<1>1. \A d \in Db : InOrder(d)
  BY DEF Init, InOrder
<1>2. ~(dumped >= Interval) /\ last # selected /\ reaper.stage = "idle"
  BY StatBuffersAssumption DEF Init, Asleep, None
<1>3. FirstTable /\ NoneSkipped
  BY DEF Init, AtRest, FirstTable, NoneSkipped, Buffer
<1>4. QED
  BY <1>1, <1>2, <1>3 DEF Flagged

LEMMA OtherReason ==
  \A x, r : <<x, "full">> # <<r, "skipped">> /\ <<x, "failed">> # <<r, "skipped">>
OBVIOUS

\* The queues stay as they are.
LEMMA SameFlags ==
  ASSUME queue' = queue, written' = written
  PROVE  /\ (\A d \in Db : InOrder(d)) => \A d \in Db : InOrder(d)'
         /\ AllFresh => AllFresh'
BY DEF InOrder, AllFresh, Fresh

LEMMA ReportFlagged ==
  ASSUME Types, Flagged, NEW h \in Handler, reportMicMsg(h)
  PROVE  Flagged'
<1>1. /\ handler'[h].index = 0 /\ \A k \in Handler \ {h} : handler'[k] = handler[k]
      /\ UNCHANGED <<odd, queue, written, reaper, last, selected, dumped, buffer, gone>>
  <2>1. PICK r : handler'[h] = [stage |-> "marked", index |-> 0, report |-> r, since |-> 0]
    BY ReportMoves
  <2>2. handler'[h].index = 0
    BY <2>1
  <2>3. QED
    BY <2>2, ReportMoves DEF Handling
<1>2. FirstTable => FirstTable'
  BY <1>1 DEF FirstTable
<1>3. NoneSkipped => NoneSkipped'
  BY <1>1 DEF NoneSkipped
<1>4. QED
  BY <1>1, <1>2, <1>3, SameFlags DEF Flagged

LEMMA ChooseFlagged ==
  ASSUME Types, Timing, Flagged, NEW h \in Handler, dump2file(h)
  PROVE  Flagged'
<1>1. /\ handler'[h].index = selected' /\ \A k \in Handler \ {h} : handler'[k] = handler[k]
      /\ UNCHANGED <<queue, written, reaper, last, buffer, gone>>
  <2>1. handler'[h] = [stage |-> "chosen", index |-> selected',
                       report |-> handler[h].report, since |-> handler[h].since]
    BY ChooseMoves
  <2>2. handler'[h].index = selected'
    BY <2>1
  <2>3. QED
    BY <2>2, ChooseMoves DEF Handling
<1>2. NoneSkipped => NoneSkipped'
  BY <1>1 DEF NoneSkipped
<1>3. CASE dumped > Interval /\ dumped' = phase /\ selected' = 1 - selected /\ odd \subseteq odd'
  <2>1. SUFFICES ASSUME odd' = {} PROVE Flagged'
    BY DEF Flagged
  <2>2. odd = {} /\ Timely
    BY <1>3, <2>1 DEF Timely
  <2>3. dumped >= Interval /\ ~(dumped' >= Interval)
    BY <1>3, Bounds
  <2>4. AllFresh /\ reaper.stage = "idle" /\ last = Other
    BY <2>2, <2>3 DEF Flagged, Timing, Rested
  <2>5. last # None
    BY <2>4, Bounds DEF Other, None
  <2>6. QED
    BY <1>1, <1>2, <2>2, <2>3, <2>4, <2>5, SameFlags DEF Flagged
<1>4. CASE dumped <= Interval /\ dumped' \in {phase, dumped} /\ selected' = selected /\ odd' = odd
  <2>1. dumped' >= Interval => dumped >= Interval
    BY <1>4, Bounds
  <2>2. FirstTable => FirstTable'
    BY <1>1, <1>4 DEF FirstTable
  <2>3. QED
    BY <1>1, <1>2, <1>4, <2>1, <2>2, SameFlags DEF Flagged
<1>5. QED
  BY <1>3, <1>4, ChooseMoves

LEMMA AddFlagged ==
  ASSUME Types, Flagged, NEW h \in Handler, addHashMap(h)
  PROVE  Flagged'
<1>1. /\ handler'[h].index = 0 /\ \A k \in Handler \ {h} : handler'[k] = handler[k]
      /\ UNCHANGED <<odd, queue, written, reaper, last, selected, dumped>>
  BY AddMoves DEF Handling, AtRest
<1>2. NoneSkipped => NoneSkipped'
  <2>1. PICK x : x = handler[h].report
    OBVIOUS
  <2>2. gone' = gone \/ gone' = gone \cup {<<x, "full">>}
    BY <2>1, AddMoves
  <2>3. SUFFICES ASSUME NoneSkipped, NEW r \in Report PROVE <<r, "skipped">> \notin gone'
    BY DEF NoneSkipped
  <2>4. <<r, "skipped">> \notin gone /\ <<x, "full">> # <<r, "skipped">>
    BY <2>3, OtherReason DEF NoneSkipped
  <2>5. QED
    BY <2>2, <2>4, Zenon
<1>3. FirstTable => FirstTable'
  <2>1. SUFFICES ASSUME FirstTable PROVE buffer'[1] = {}
    BY <1>1 DEF FirstTable
  <2>2. handler[h].index # 1 /\ buffer[1] = {}
    BY <2>1 DEF FirstTable
  <2>3. QED
    BY <2>2, AddMoves
<1>4. QED
  BY <1>1, <1>2, <1>3, SameFlags DEF Flagged

LEMMA ReadFlagged ==
  ASSUME Types, Flagged, getDataFromBuffer
  PROVE  Flagged'
<1>1. /\ last # 1 - selected /\ last' = 1 - selected
      /\ reaper' = [stage |-> "read", batch |-> buffer[1 - selected]]
      /\ UNCHANGED <<odd, queue, written, selected, dumped, gone>>
  BY ReadMoves DEF Reaping
<1>2. NoneSkipped => NoneSkipped'
  BY <1>1 DEF NoneSkipped
<1>3. last' # selected' /\ last' # None
  BY <1>1, Bounds DEF None
<1>4. last = None \/ last = selected
  <2>1. last \in 0 .. 2
    BY DEF Types, None
  <2>2. QED
    BY <1>1, <2>1, Bounds DEF None
<1>5. ASSUME odd = {} PROVE reaper'.batch = {} \/ AllFresh
  <2>1. CASE last = None
    <3>1. FirstTable
      BY <1>5, <2>1 DEF Flagged
    <3>2. QED
      BY <1>1, <3>1 DEF FirstTable
  <2>2. CASE last = selected
    BY <1>5, <2>2 DEF Flagged
  <2>3. QED
    BY <1>4, <2>1, <2>2
<1>6. QED
  BY <1>1, <1>2, <1>3, <1>5, SameFlags DEF Flagged

LEMMA HandFlagged ==
  ASSUME Types, Timing, Flagged, HandOver
  PROVE  Flagged'
<1>1. /\ reaper.stage = "read" /\ reaper'.stage = "handed"
      /\ UNCHANGED <<odd, last, written, selected, dumped, gone, buffer, handler>>
  BY HandMoves DEF Reaping
<1>2. SUFFICES ASSUME odd = {} PROVE Flagged'
  BY <1>1 DEF Flagged
<1>3. NoneSkipped' /\ (FirstTable => FirstTable')
  BY <1>1, <1>2 DEF NoneSkipped, FirstTable, Flagged
<1>4. ~(dumped >= Interval) /\ last = Other
  BY <1>1, <1>2 DEF Timing, Rested, Reading, Timely
<1>5. last # selected
  BY <1>4, Bounds DEF Other
<1>6. \A d \in Db : InOrder(d)'
  <2>1. CASE queue' = queue
    BY <1>1, <1>2, <2>1, SameFlags DEF Flagged
  <2>2. CASE /\ reaper.batch # {}
             /\ \E db \in [reaper.batch \ {Noise} -> Db] : \A d \in Db :
                  queue'[d] = Append(queue[d],
                    [batch |-> {x \in reaper.batch \ {Noise} : db[x] = d}, flag |-> 0, tries |-> 0])
    <3>1. SUFFICES ASSUME NEW d \in Db PROVE InOrder(d)'
      OBVIOUS
    <3>2. InOrder(d) /\ Fresh(d)
      BY <1>1, <1>2, <2>2 DEF Flagged, AllFresh
    <3>3. PICK q \in Seq(BatchType) : q = queue[d]
      BY Queues
    <3>4. PICK b \in BatchType : queue'[d] = Append(q, b) /\ b.flag = 0
      <4>1. PICK db \in [reaper.batch \ {Noise} -> Db] :
              queue'[d] = Append(queue[d],
                [batch |-> {x \in reaper.batch \ {Noise} : db[x] = d}, flag |-> 0, tries |-> 0])
        BY <2>2
      <4>2. reaper.batch \ {Noise} \subseteq Report
        BY Read
      <4>3. PICK b : b = [batch |-> {x \in reaper.batch \ {Noise} : db[x] = d}, flag |-> 0, tries |-> 0]
        OBVIOUS
      <4>4. b \in BatchType /\ b.flag = 0
        BY <4>2, <4>3 DEF BatchType
      <4>5. QED
        BY <3>3, <4>1, <4>3, <4>4
    <3>5. PICK n \in Nat : n = Len(q)
      BY <3>3
    <3>6. /\ Len(queue'[d]) = n + 1 /\ queue'[d][n + 1].flag = 0
          /\ \A i \in 1 .. n : queue'[d][i].flag = queue[d][i].flag
      <4>1. PICK p : p = Append(q, b)
        OBVIOUS
      <4>2. Len(p) = n + 1 /\ p[n + 1] = b /\ \A i \in 1 .. n : p[i] = q[i]
        BY <3>3, <3>4, <3>5, <4>1
      <4>3. QED
        BY <3>3, <3>4, <4>1, <4>2
    <3>7. /\ written[d] >= 1 /\ \A i \in 1 .. n : queue[d][i].flag >= 1
          /\ \A i \in 1 .. n : queue[d][i].flag < written[d]
          /\ \A i, j \in 1 .. n : i < j => queue[d][i].flag > queue[d][j].flag
      BY <3>2, <3>3, <3>5 DEF InOrder, Fresh
    <3>8. \A i \in 1 .. n + 1 : i \in 1 .. n \/ i = n + 1
      OBVIOUS
    <3>9. ASSUME NEW i \in 1 .. n + 1 PROVE queue'[d][i].flag < written'[d]
      <4>1. written[d] \in Nat
        BY Flags
      <4>2. CASE i \in 1 .. n
        BY <1>1, <3>6, <3>7, <4>2
      <4>3. CASE i = n + 1
        BY <1>1, <3>6, <3>7, <4>1, <4>3
      <4>4. QED
        BY <3>8, <4>2, <4>3
    <3>10. ASSUME NEW i \in 1 .. n + 1, NEW j \in 1 .. n + 1, i < j
           PROVE  queue'[d][i].flag > queue'[d][j].flag
      <4>1. i \in 1 .. n
        BY <3>10
      <4>2. queue[d][i].flag \in Nat
        BY <3>3, <3>5, <4>1, Flags
      <4>3. CASE j \in 1 .. n
        BY <3>6, <3>7, <3>10, <4>1, <4>3
      <4>4. CASE j = n + 1
        BY <3>6, <3>7, <4>1, <4>2, <4>4
      <4>5. QED
        BY <3>8, <4>3, <4>4
    <3>11. QED
      BY <3>6, <3>9, <3>10 DEF InOrder
  <2>3. QED
    BY <2>1, <2>2, HandMoves
<1>7. QED
  BY <1>1, <1>2, <1>3, <1>4, <1>5, <1>6 DEF Flagged

LEMMA ClearFlagged ==
  ASSUME Types, Flagged, Clear
  PROVE  Flagged'
<1>1. /\ reaper'.stage = "idle"
      /\ UNCHANGED <<odd, queue, last, written, selected, dumped, gone, handler>>
      /\ \A b \in {0, 1} : b # last => buffer'[b] = buffer[b]
  BY ClearMoves DEF Reaping
<1>2. NoneSkipped => NoneSkipped'
  BY <1>1 DEF NoneSkipped
<1>3. last = None /\ FirstTable => FirstTable'
  BY <1>1 DEF FirstTable, None
<1>4. QED
  BY <1>1, <1>2, <1>3, SameFlags DEF Flagged

\* A batch leaves its queue, written or given up, or is tried again.
LEMMA WriterFlagged ==
  ASSUME Types, Flagged, NEW d \in Db, Skip(d) \/ insert2Db(d) \/ insert2DbFails(d)
  PROVE  Flagged'
<1>1. /\ UNCHANGED <<odd, reaper, last, selected, dumped, buffer, handler>>
      /\ \A e \in Db \ {d} : queue'[e] = queue[e] /\ written'[e] = written[e]
      /\ 1 \in 1 .. Len(queue[d])
  BY SkipMoves, InsertMoves, FailMoves DEF Writing
<1>2. SUFFICES ASSUME odd = {} PROVE Flagged'
  BY <1>1 DEF Flagged
<1>3. \A e \in Db : InOrder(e)
  BY <1>2 DEF Flagged
<1>4. ~Skip(d)
  <2>1. queue[d][1].flag < written[d]
    BY <1>1, <1>3 DEF InOrder
  <2>2. queue[d][1].flag \in Nat /\ written[d] \in Nat
    BY <1>1, Flags
  <2>3. QED
    BY <2>1, <2>2, SkipMoves
<1>5. NoneSkipped'
  <2>1. NoneSkipped
    BY <1>2 DEF Flagged
  <2>2. \/ gone' = gone
        \/ gone' = gone \cup {<<r, "failed">> : r \in queue[d][1].batch}
    BY <1>4, InsertMoves, FailMoves
  <2>3. QED
    BY <2>1, <2>2, OtherReason DEF NoneSkipped
<1>6. FirstTable => FirstTable'
  BY <1>1 DEF FirstTable
<1>7. InOrder(d)' /\ (Fresh(d) => Fresh(d)')
  <2>1. CASE Stays(d) /\ written' = written
    BY <1>3, <2>1 DEF Stays, InOrder, Fresh
  <2>2. CASE Leaves(d) /\ written'[d] \in {written[d], queue[d][1].flag}
    <3>1. PICK n \in Nat : n = Len(queue'[d]) /\ Len(queue[d]) = n + 1
      BY <1>1, <2>2, Flags DEF Leaves
    <3>2. /\ \A i \in 1 .. n : queue'[d][i].flag = queue[d][i + 1].flag
          /\ \A i \in 1 .. n : i + 1 \in 1 .. n + 1 /\ 1 < i + 1
      BY <2>2, <3>1 DEF Leaves
    <3>3. /\ \A i \in 1 .. n + 1 : queue[d][i].flag < written[d]
          /\ \A i, j \in 1 .. n + 1 : i < j => queue[d][i].flag > queue[d][j].flag
          /\ 1 \in 1 .. n + 1
      BY <1>1, <1>3, <3>1 DEF InOrder
    <3>4. \A i \in 1 .. n + 1 : queue[d][i].flag \in Nat
      BY <3>1, Flags
    <3>5. ASSUME NEW i \in 1 .. n PROVE queue'[d][i].flag < written'[d]
      <4>1. queue[d][1].flag > queue[d][i + 1].flag /\ queue[d][i + 1].flag < written[d]
        BY <3>2, <3>3
      <4>2. queue[d][1].flag \in Nat /\ queue[d][i + 1].flag \in Nat
        BY <3>2, <3>3, <3>4
      <4>3. QED
        BY <2>2, <3>2, <4>1, <4>2
    <3>6. ASSUME NEW i \in 1 .. n, NEW j \in 1 .. n, i < j
          PROVE  queue'[d][i].flag > queue'[d][j].flag
      <4>1. i + 1 < j + 1
        BY <3>6
      <4>2. QED
        BY <3>2, <3>3, <4>1
    <3>7. InOrder(d)'
      BY <3>1, <3>5, <3>6 DEF InOrder
    <3>8. ASSUME Fresh(d) PROVE Fresh(d)'
      <4>1. written[d] >= 1 /\ \A i \in 1 .. n + 1 : queue[d][i].flag >= 1
        BY <3>1, <3>8 DEF Fresh
      <4>2. written'[d] >= 1
        BY <2>2, <3>3, <4>1
      <4>3. \A i \in 1 .. n : queue'[d][i].flag >= 1
        BY <3>2, <4>1
      <4>4. QED
        BY <3>1, <4>2, <4>3 DEF Fresh
    <3>9. QED
      BY <3>7, <3>8
  <2>3. QED
    BY <1>4, <2>1, <2>2, InsertMoves, FailMoves
<1>8. \A e \in Db \ {d} : InOrder(e)' /\ (Fresh(e) => Fresh(e)')
  BY <1>1, <1>3 DEF InOrder, Fresh
<1>9. (\A e \in Db : InOrder(e)') /\ (AllFresh => AllFresh')
  BY <1>7, <1>8 DEF AllFresh
<1>10. QED
  BY <1>1, <1>2, <1>5, <1>6, <1>9 DEF Flagged

LEMMA TickFlagged ==
  ASSUME Types, Timing, Flagged, Tick
  PROVE  Flagged'
<1>1. /\ UNCHANGED <<odd, reaper, last, selected, buffer, gone>>
      /\ \A h \in Handler : handler'[h].index = handler[h].index
  BY TickMoves
<1>2. (NoneSkipped => NoneSkipped') /\ (FirstTable => FirstTable')
  BY <1>1 DEF NoneSkipped, FirstTable
<1>3. CASE phase < Interval - 1 /\ queue' = queue /\ written' = written
  <2>1. dumped' >= Interval => dumped >= Interval
    <3>1. dumped = -1 \/ dumped = phase \/ dumped >= Interval
      BY DEF Timing, Clock
    <3>2. \/ dumped = -1 /\ dumped' = -1
          \/ dumped' = dumped + 1 \/ dumped' = dumped
      BY TickMoves
    <3>3. QED
      BY <1>3, <3>1, <3>2, Bounds
  <2>2. QED
    BY <1>1, <1>2, <1>3, <2>1, SameFlags DEF Flagged
<1>4. CASE /\ phase = Interval - 1
           /\ \A d \in Db : /\ written'[d] = IF written[d] < 2 THEN written[d] + 1 ELSE 2
                            /\ Len(queue'[d]) = Len(queue[d])
           /\ \A d \in Db : \A i \in 1 .. Len(queue[d]) :
                queue'[d][i].flag = IF queue[d][i].flag < 2 THEN queue[d][i].flag + 1 ELSE 2
  <2>1. SUFFICES ASSUME odd = {} PROVE Flagged'
    BY <1>1 DEF Flagged
  <2>2. ASSUME NEW d \in Db PROVE InOrder(d)' /\ Fresh(d)'
    <3>1. PICK n \in Nat : n = Len(queue[d]) /\ n = Len(queue'[d])
      BY <1>4, Flags
    <3>2. \A i \in 1 .. n : queue[d][i].flag < 1 /\ queue[d][i].flag \in Nat
      BY <1>4, <3>1, TickMoves, Flags
    <3>3. \A i \in 1 .. n : queue[d][i].flag = 0
      BY <3>2
    <3>4. \A i \in 1 .. n : queue'[d][i].flag = 1
      BY <1>4, <3>1, <3>3
    <3>5. /\ \A i \in 1 .. n : queue[d][i].flag < written[d]
          /\ \A i, j \in 1 .. n : i < j => queue[d][i].flag > queue[d][j].flag
      BY <2>1, <3>1 DEF Flagged, InOrder
    <3>6. written[d] \in Nat /\ written[d] <= 2
      BY Flags
    <3>7. written'[d] = IF written[d] < 2 THEN written[d] + 1 ELSE 2
      BY <1>4
    <3>8. written'[d] >= 1
      BY <3>6, <3>7
    <3>9. \A i \in 1 .. n : queue'[d][i].flag < written'[d]
      BY <3>3, <3>4, <3>5, <3>6, <3>7
    <3>10. \A i, j \in 1 .. n : ~(i < j)
      BY <3>3, <3>5
    <3>11. QED
      BY <3>1, <3>4, <3>8, <3>9, <3>10 DEF InOrder, Fresh
  <2>3. AllFresh' /\ \A d \in Db : InOrder(d)'
    BY <2>2 DEF AllFresh
  <2>4. QED
    BY <1>1, <1>2, <2>1, <2>3 DEF Flagged
<1>5. QED
  BY <1>3, <1>4, TickMoves

LEMMA FlaggedStep == ASSUME Types, Timing, Flagged, [Next]_vars PROVE Flagged'
<1>1. CASE UNCHANGED vars
  <2>1. UNCHANGED <<odd, queue, written, reaper, last, selected, dumped, buffer, handler, gone>>
    BY <1>1 DEF vars, threadVars
  <2>2. (NoneSkipped => NoneSkipped') /\ (FirstTable => FirstTable')
    BY <2>1 DEF NoneSkipped, FirstTable
  <2>3. QED
    BY <2>1, <2>2, SameFlags DEF Flagged
<1>2. CASE Restart
  <2>1. odd' # {}
    BY <1>2, RestartMoves
  <2>2. QED
    BY <2>1 DEF Flagged
<1>3. CASE Next /\ ~Restart
  BY <1>3, ReportFlagged, ChooseFlagged, AddFlagged, ReadFlagged, HandFlagged, ClearFlagged,
     WriterFlagged, TickFlagged DEF Next
<1>4. QED
  BY <1>1, <1>2, <1>3

LEMMA FlaggedIsNoSkip == Flagged => SkippedOnlyIfLate
BY DEF Flagged, NoneSkipped, SkippedOnlyIfLate

-----------------------------------------------------------------------------
(***************************************************************************)
(* The theorems                                                            *)
(***************************************************************************)
LEMMA StatInvariant == Spec => [](Types /\ Timing /\ Kept /\ Once /\ Flagged)
<1>1. Init => Types /\ Timing /\ Kept /\ Once /\ Flagged
  BY TypesInit, TimingInit, KeptInit, OnceInit, FlaggedInit
<1>2. Types /\ Timing /\ Kept /\ Once /\ Flagged /\ [Next]_vars
        => (Types /\ Timing /\ Kept /\ Once /\ Flagged)'
  BY TypesStep, TimingStep, KeptStep, OnceStep, FlaggedStep
<1>3. QED
  BY <1>1, <1>2, PTL DEF Spec

\* A record that was reported can always be found, or the ledger says what
\* became of it (ReapSSDThread::run, StatImp::addHashMap).
THEOREM NothingReportedIsLost == Spec => []StatInv
<1>1. Types /\ Timing /\ Kept => StatInv
  BY TypesAreTypeOK, KeptIsNothingLost DEF StatInv
<1>2. QED
  BY <1>1, StatInvariant, PTL

\* However the threads interleave, and whatever fails, no record gets into a
\* database twice unless the process was stopped between handing a table over
\* and clearing it (ReapSSDThread::run).
THEOREM NoneStoredTwice == Spec => []StoredOnce
<1>1. Once => StoredOnce
  BY OnceIsStoredOnce
<1>2. QED
  BY <1>1, StatInvariant, PTL

\* A batch is taken for one that is in the database already only after a switch
\* in the last seconds of an interval, or after a restart: else its interval is
\* later than the last one the database has (StatDbManager::insert2Db).
THEOREM OnlyLateIsSkipped == Spec => []SkippedOnlyIfLate
<1>1. Flagged => SkippedOnlyIfLate
  BY FlaggedIsNoSkip
<1>2. QED
  BY <1>1, StatInvariant, PTL
=============================================================================
