--------------------------- MODULE TaskListsProofs ---------------------------
(***************************************************************************)
(* Proofs about TaskLists, for any number of lists, items, batch size and  *)
(* threads.                                                                *)
(*                                                                         *)
(* What a list does to its items is an invariant of each list by itself    *)
(* (Sound), which speaks of the record and not of the variable, so that a  *)
(* list no step touches keeps it for nothing.  That elegant lists cancel   *)
(* each other is an invariant of all of them (Handover).                   *)
(***************************************************************************)
EXTENDS TaskLists, TLAPS

\* Nobody has begun with such an item.
Fresh == {"NOT_START", "PREPARE", "CANCEL"}
Busy == {"RUNNING", "STARTING"}
Over == {"SUCCESS", "FAILED", "CANCEL"}

\* What a list looks like in each phase.
Phase(l) ==
    /\ l.pc # "add" => l.old = NoTask
    /\ l.finished => l.pc = "done"
    /\ l.kind = "none" => l.pc = "none"
    /\ l.pc = "serial" => l.kind = "serial"
    /\ l.pc = "parallel" => l.kind = "parallel"
    /\ l.pc \in {"batch", "flow", "wait"} => l.kind = "elegant"
    /\ l.pc \in {"fail", "flow"} => l.next <= Len
    /\ l.pc \in {"none", "add"} => l.next = 1

\* Only lists that carry something out have jobs and items in progress, and only
\* elegant ones in the middle of a batch have paused items.
Calm(l) ==
    /\ l.pc \notin {"parallel", "wait"} => l.jobs = {}
    /\ l.pc \notin {"parallel", "serial", "wait"} =>
         \A i \in Items : l.item[i] \notin Busy
    /\ l.pc \notin {"flow", "wait"} => \A i \in Items : l.item[i] # "PAUSE_FLOW"
    /\ l.pc \in {"none", "add", "prepare"} => \A i \in Items : l.item[i] \in Fresh

\* A serial list has come to the items before next, and carried out only those
\* whose predecessors have all succeeded.
InOrder(l) ==
    l.kind = "serial" /\ (l.pc = "serial" \/ l.finished) =>
        /\ \A i \in Items : IF i < l.next THEN l.item[i] \in Busy \cup Over
                                          ELSE l.item[i] \in Fresh
        /\ \A i, j \in Items : i < j /\ l.item[j] \in {"STARTING", "SUCCESS", "FAILED"} =>
                                   l.item[i] = "SUCCESS"

\* An elegant list is done with the batches before its current one, has not touched
\* those behind it, and every item of the current one waits for a worker, is in
\* progress or is over.
ByBatches(l) ==
    /\ l.pc = "batch" =>
         \A i \in Items : IF i < l.next THEN l.item[i] \in Over ELSE l.item[i] \in Fresh
    /\ l.pc = "flow" =>
         \A i \in Items : IF i < l.next THEN l.item[i] \in Over
                          ELSE IF i < l.next + EachNum THEN l.item[i] = "PAUSE_FLOW"
                          ELSE l.item[i] \in Fresh
    /\ l.pc = "wait" =>
         /\ \A i \in Items : IF i + EachNum < l.next THEN l.item[i] \in Over
                             ELSE IF i < l.next
                                  THEN i \in l.jobs \/ l.item[i] \in Busy \cup Over
                                  ELSE l.item[i] \in Fresh
         /\ \A i \in l.jobs : i < l.next /\ l.next <= i + EachNum

\* Batches begin at multiples of their size.
Aligned(l) ==
    /\ l.pc \in {"batch", "flow"} => \E k \in Nat : l.next = k * EachNum + 1
    /\ l.pc = "wait" => \E k \in Nat : l.next = (k * EachNum) + EachNum + 1

Complete(l) ==
    l.finished /\ ~l.cancelled /\ l.kind # "elegantSerial" =>
        \A i \in Items : l.item[i] \in Over

\* As long as an elegant list that patches nothing is not cancelled, what it has
\* not come to is NOT_START: that is what cancelTask looks for.
Cancellable(l) ==
    /\ l.pc = "none" /\ ~l.cancelled => \A i \in Items : l.item[i] = "NOT_START"
    /\ l.kind = "elegant" /\ l.command \notin {"patch", "gracePatch"} /\ ~l.cancelled =>
        /\ l.pc \in {"add", "prepare"} =>
             \A i \in Items : l.item[i] = "NOT_START"
        /\ l.pc \in {"batch", "wait"} =>
             \A i \in Items : i >= l.next => l.item[i] = "NOT_START"
        /\ l.pc = "flow" =>
             \A i \in Items : i >= l.next + EachNum => l.item[i] = "NOT_START"

Sound(l) == /\ l \in ListType
            /\ Phase(l) /\ Calm(l) /\ InOrder(l) /\ ByBatches(l)
            /\ Aligned(l) /\ Complete(l) /\ Cancellable(l)

\* It patches nothing, and has a batch to begin.
WillRoll(l) ==
    /\ l.kind = "elegant" /\ l.command \notin {"patch", "gracePatch"} /\ ~l.cancelled
    /\ \/ l.pc \in {"add", "prepare"}
       \/ l.pc \in {"batch", "wait"} /\ l.next <= Len
       \/ l.pc = "flow" /\ l.next + EachNum <= Len

-----------------------------------------------------------------------------
(***************************************************************************)
(* What a list's own threads do to its record                              *)
(***************************************************************************)
PCs == {"none", "add", "prepare", "fail", "serial", "parallel", "batch", "flow",
        "wait", "done"}

Changed(l, pc, next, jobs, item, finished) ==
    [kind |-> l.kind, command |-> l.command, pc |-> pc, old |-> l.old, next |-> next,
     jobs |-> jobs, item |-> item, cancelled |-> l.cancelled, finished |-> finished]

\* A sound step: nothing else happens to the lists, and the list does not begin to
\* roll.
Goes(t, m) == /\ list' = [list EXCEPT ![t] = m]
              /\ Sound(m)
              /\ m.old = list[t].old
              /\ WillRoll(m) => WillRoll(list[t])

\* A record is typed if its fields are.
LEMMA Fields ==
  ASSUME NEW l \in ListType
  PROVE  /\ l.kind \in {"serial", "parallel", "elegant", "elegantSerial", "none"}
         /\ l.command \in {"patch", "gracePatch", "restart", "plain", "none"}
         /\ l.pc \in PCs
         /\ l.old \in Tasks \cup {NoTask} /\ l.next \in Nat
         /\ 1 <= l.next /\ l.next <= Len + EachNum
         /\ l.jobs \subseteq Items
         /\ \A i \in Items : l.item[i] \in ItemStatus
         /\ l.item \in [Items -> ItemStatus]
         /\ l.cancelled \in BOOLEAN /\ l.finished \in BOOLEAN
<1>1. l.next \in 1..(Len + EachNum)
  BY DEF ListType
<1>2. l.next \in Nat /\ 1 <= l.next /\ l.next <= Len + EachNum
  BY <1>1, TaskListsAssumption
<1>3. l.kind \in Kinds \cup {"none"} /\ l.command \in Commands \cup {"none"}
  BY DEF ListType
<1>4. /\ l.pc \in PCs /\ l.old \in Tasks \cup {NoTask} /\ l.jobs \subseteq Items
      /\ l.item \in [Items -> ItemStatus]
      /\ l.cancelled \in BOOLEAN /\ l.finished \in BOOLEAN
  BY DEF ListType, PCs
<1>5. QED
  BY <1>2, <1>3, <1>4, TaskListsAssumption

LEMMA Typed ==
  ASSUME NEW l \in ListType, NEW pc \in PCs, NEW next \in 1..(Len + EachNum),
         NEW jobs \in SUBSET Items, NEW item \in [Items -> ItemStatus],
         NEW finished \in BOOLEAN
  PROVE  Changed(l, pc, next, jobs, item, finished) \in ListType
BY DEF Changed, ListType, PCs

LEMMA Rebuilt ==
  ASSUME NEW l \in ListType, NEW n \in ListType,
         n.kind = l.kind, n.command = l.command, n.old = l.old, n.cancelled = l.cancelled
  PROVE  n = Changed(l, n.pc, n.next, n.jobs, n.item, n.finished)
<1>1. n = [kind |-> n.kind, command |-> n.command, pc |-> n.pc, old |-> n.old,
           next |-> n.next, jobs |-> n.jobs, item |-> n.item,
           cancelled |-> n.cancelled, finished |-> n.finished]
  BY DEF ListType
<1>2. QED
  BY <1>1 DEF Changed

LEMMA PrepareSound ==
  ASSUME TypeOK, NEW t \in Tasks, Sound(list[t]), Prepare(t)
  PROVE  \E m : Goes(t, m)
<1>1. PICK l \in ListType : l = list[t]
  BY DEF TypeOK
<1> USE TaskListsAssumption DEF Items
<1>2. CASE prepareFile(t)
  <2>1. PICK pc \in {"prepare", "fail"} :
          list' = [list EXCEPT ![t].item[l.next] = "PREPARE", ![t].pc = pc,
                               ![t].next = IF pc = "fail" THEN 1 ELSE l.next + 1]
    BY <1>1, <1>2 DEF prepareFile
  <2>2. l.pc = "prepare" /\ l.next \in Items /\ IsPatch(t)
    BY <1>1, <1>2, Fields DEF prepareFile, At
  <2>3. PICK next : next = IF pc = "fail" THEN 1 ELSE l.next + 1
    OBVIOUS
  <2>4. PICK item : item = [l.item EXCEPT ![l.next] = "PREPARE"]
    OBVIOUS
  <2>5. PICK m : m = Changed(l, pc, next, l.jobs, item, l.finished)
    OBVIOUS
  <2>6. list' = [list EXCEPT ![t] = m]
    BY <1>1, <2>1, <2>2, <2>3, <2>4, <2>5 DEF TypeOK, Changed, ListType
  <2>7. m \in ListType
    <3>1. item \in [Items -> ItemStatus]
      BY <2>2, <2>4, Fields DEF ItemStatus
    <3>2. next \in 1..(Len + EachNum)
      BY <2>2, <2>3
    <3>3. pc \in PCs /\ l.jobs \in SUBSET Items /\ l.finished \in BOOLEAN
      BY Fields DEF PCs
    <3>4. QED
      BY <2>5, <3>1, <3>2, <3>3, Typed
  <2>8. Sound(m)
    BY <1>1, <2>2, <2>3, <2>4, <2>5, <2>7, Fields DEF Changed, Sound, Phase, Calm, InOrder,
         ByBatches, Aligned, Complete, Cancellable, Fresh, Busy, Over, IsPatch
  <2>9. m.old = l.old /\ ~WillRoll(m)
    BY <1>1, <2>2, <2>5 DEF Changed, WillRoll, IsPatch
  <2>10. QED
    BY <1>1, <2>6, <2>8, <2>9 DEF Goes
<1>3. CASE PrepareFails(t)
  <2>1. PICK m : m = Changed(l, "fail", 1, l.jobs, l.item, l.finished)
    OBVIOUS
  <2>2. l.pc = "prepare" /\ IsPatch(t)
    BY <1>1, <1>3 DEF PrepareFails, At
  <2>3. list' = [list EXCEPT ![t] = m]
    BY <1>1, <1>3, <2>1 DEF PrepareFails, TypeOK, Changed, ListType
  <2>4. m \in ListType
    BY <2>1, Fields, Typed DEF PCs
  <2>5. Sound(m)
    BY <1>1, <2>1, <2>2, <2>4, Fields DEF Changed, Sound, Phase, Calm, InOrder,
         ByBatches, Aligned, Complete, Cancellable, Fresh, Busy, Over
  <2>6. m.old = l.old /\ ~WillRoll(m)
    BY <2>1 DEF Changed, WillRoll
  <2>7. QED
    BY <1>1, <2>3, <2>5, <2>6 DEF Goes
<1>4. CASE FailItem(t)
  <2>1. PICK pc : pc = IF l.next = Len THEN "done" ELSE "fail"
    OBVIOUS
  <2>2. PICK item : item = [l.item EXCEPT ![l.next] = "FAILED"]
    OBVIOUS
  <2>3. PICK m : m = Changed(l, pc, l.next + 1, l.jobs, item, l.finished)
    OBVIOUS
  <2>4. l.pc = "fail" /\ l.next \in Items
    BY <1>1, <1>4, Fields DEF FailItem, At, Sound, Phase
  <2>5. list' = [list EXCEPT ![t] = m]
    <3>1. PICK n : n = [l EXCEPT !.item = item, !.next = l.next + 1, !.pc = pc]
      OBVIOUS
    <3>2. list' = [list EXCEPT ![t] = n]
      BY <1>1, <1>4, <2>1, <2>2, <3>1 DEF FailItem, TypeOK
    <3>3. n \in ListType
      <4>1. /\ item \in [Items -> ItemStatus] /\ l.next + 1 \in 1..(Len + EachNum)
            /\ pc \in PCs
        BY <2>1, <2>2, <2>4, Fields DEF ItemStatus, PCs
      <4>2. [l EXCEPT !.item = item] \in ListType
        BY <4>1 DEF ListType
      <4>3. [l EXCEPT !.item = item, !.next = l.next + 1] \in ListType
        BY <4>1, <4>2 DEF ListType
      <4>4. n = [[l EXCEPT !.item = item, !.next = l.next + 1] EXCEPT !.pc = pc]
        BY <3>1
      <4>5. QED
        BY <4>1, <4>3, <4>4 DEF ListType, PCs
    <3>4. /\ n.kind = l.kind /\ n.command = l.command /\ n.old = l.old
          /\ n.cancelled = l.cancelled /\ n.pc = pc /\ n.next = l.next + 1
          /\ n.jobs = l.jobs /\ n.item = item /\ n.finished = l.finished
      BY <3>1 DEF ListType
    <3>5. QED
      BY <2>3, <3>2, <3>3, <3>4, Rebuilt
  <2>6. m \in ListType
    <3>1. item \in [Items -> ItemStatus]
      BY <2>2, <2>4, Fields DEF ItemStatus
    <3>2. l.next + 1 \in 1..(Len + EachNum)
      BY <2>4
    <3>3. pc \in PCs /\ l.jobs \in SUBSET Items /\ l.finished \in BOOLEAN
      BY <2>1, Fields DEF PCs
    <3>4. QED
      BY <2>3, <3>1, <3>2, <3>3, Typed
  <2>7. Sound(m)
    <3>1. /\ m.pc = pc /\ m.next = l.next + 1 /\ m.jobs = l.jobs /\ m.item = item
          /\ m.finished = l.finished /\ m.kind = l.kind /\ m.command = l.command
          /\ m.old = l.old /\ m.cancelled = l.cancelled
      BY <2>3 DEF Changed
    <3>2. pc \in {"done", "fail"} /\ (pc = "fail" => l.next + 1 <= Len)
      BY <2>1, <2>4
    <3>3. l.item \in [Items -> ItemStatus] /\ l.next \in Nat
      BY Fields
    <3>8. ~l.finished
      BY <1>1, <2>4 DEF Sound, Phase
    <3>4. Phase(m) /\ Complete(m)
      BY <1>1, <2>4, <3>1, <3>2, <3>3, <3>8 DEF Sound, Phase, Complete
    <3>5. Calm(m)
      BY <1>1, <2>2, <2>4, <3>1, <3>2, <3>3 DEF Sound, Calm, Busy
    <3>6. InOrder(m) /\ ByBatches(m) /\ Aligned(m) /\ Cancellable(m)
      BY <2>4, <3>1, <3>2, <3>3, <3>8 DEF InOrder, ByBatches, Aligned, Cancellable
    <3>7. QED
      BY <2>6, <3>4, <3>5, <3>6 DEF Sound
  <2>8. m.old = l.old /\ ~WillRoll(m)
    BY <2>1, <2>3 DEF Changed, WillRoll
  <2>9. QED
    BY <1>1, <2>5, <2>7, <2>8 DEF Goes
<1>5. CASE onExecute(t)
  <2>1. PICK pc : pc = CASE l.kind = "elegant"       -> "batch"
                         [] l.kind = "elegantSerial" -> "done"
                         [] OTHER                    -> l.kind
    OBVIOUS
  <2>2. PICK jobs : jobs = IF l.kind = "parallel" THEN Items ELSE {}
    OBVIOUS
  <2>0. PICK finished \in BOOLEAN : finished <=> l.kind = "elegantSerial"
    OBVIOUS
  <2>3. PICK m : m = Changed(l, pc, 1, jobs, l.item, finished)
    OBVIOUS
  <2>4. l.pc = "prepare"
    BY <1>1, <1>5 DEF onExecute, At
  <2>5. /\ pc \in PCs /\ pc \in {"serial", "parallel", "batch", "done"}
        /\ jobs \in SUBSET Items
    BY <1>1, <2>1, <2>2, <2>4, Fields DEF PCs, Sound, Phase
  <2>6. list' = [list EXCEPT ![t] = m]
    <3>1. list' = [list EXCEPT ![t].next = 1, ![t].pc = pc, ![t].jobs = jobs,
                               ![t].finished = finished]
      <4>1. finished = (l.kind = "elegantSerial")
        BY <2>0
      <4>2. QED
        BY <1>1, <1>5, <2>1, <2>2, <4>1, Zenon DEF onExecute
    <3>2. PICK n : n = [l EXCEPT !.next = 1, !.pc = pc, !.jobs = jobs,
                                 !.finished = finished]
      OBVIOUS
    <3>3. list' = [list EXCEPT ![t] = n]
      BY <1>1, <3>1, <3>2 DEF TypeOK
    <3>4. n \in ListType
      <4>1. PICK o : o = [l EXCEPT !.next = 1, !.pc = pc, !.jobs = jobs]
        OBVIOUS
      <4>2. o \in ListType
        <5>1. 1 \in 1..(Len + EachNum) /\ pc \in PCs /\ jobs \in SUBSET Items
          BY <2>5
        <5>2. [l EXCEPT !.next = 1] \in ListType
          BY <5>1 DEF ListType
        <5>3. [l EXCEPT !.next = 1, !.pc = pc] \in ListType
          BY <5>1, <5>2 DEF ListType, PCs
        <5>4. o = [[l EXCEPT !.next = 1, !.pc = pc] EXCEPT !.jobs = jobs]
          BY <4>1
        <5>5. QED
          BY <5>1, <5>3, <5>4 DEF ListType
      <4>3. n = [o EXCEPT !.finished = finished]
        BY <3>2, <4>1
      <4>4. QED
        BY <4>2, <4>3 DEF ListType
    <3>5. /\ n.kind = l.kind /\ n.command = l.command /\ n.old = l.old
          /\ n.cancelled = l.cancelled /\ n.pc = pc /\ n.next = 1 /\ n.jobs = jobs
          /\ n.item = l.item /\ n.finished = finished
      BY <3>2 DEF ListType
    <3>6. QED
      BY <2>3, <3>3, <3>4, <3>5, Rebuilt
  <2>7. m \in ListType
    <3>1. l.item \in [Items -> ItemStatus] /\ 1 \in 1..(Len + EachNum)
      BY Fields
    <3>2. QED
      BY <2>3, <2>5, <3>1, Typed
  <2>8. 1 = (0 * EachNum) + 1
    OBVIOUS
  <2>9. /\ m.pc = pc /\ m.next = 1 /\ m.jobs = jobs /\ m.item = l.item
        /\ m.finished = finished /\ m.kind = l.kind /\ m.command = l.command
        /\ m.old = l.old /\ m.cancelled = l.cancelled
    BY <2>3 DEF Changed
  <2>10. Phase(m) /\ Complete(m)
    BY <1>1, <2>0, <2>1, <2>4, <2>9, Fields DEF Sound, Phase, Complete
  <2>11. Calm(m) /\ InOrder(m) /\ ByBatches(m)
    <3>1. /\ \A i \in Items : /\ i >= 1 /\ l.item[i] \in Fresh
                            /\ l.item[i] \notin Busy \cup {"PAUSE_FLOW", "SUCCESS", "FAILED"}
          /\ l.item \in [Items -> ItemStatus]
      BY <1>1, <2>4, Fields DEF Sound, Calm, Fresh, Busy
    <3>2. pc # "parallel" => jobs = {}
      BY <1>1, <2>1, <2>2, <2>4 DEF Sound, Phase
    <3>3. Calm(m)
      BY <2>5, <2>9, <3>1, <3>2 DEF Calm
    <3>4. InOrder(m)
      BY <2>9, <3>1 DEF InOrder, Busy
    <3>5. ByBatches(m)
      BY <2>5, <2>9, <3>1 DEF ByBatches
    <3>6. QED
      BY <3>3, <3>4, <3>5
  <2>12. Aligned(m) /\ Cancellable(m)
    BY <1>1, <2>4, <2>5, <2>8, <2>9 DEF Sound, Aligned, Cancellable
  <2>13. WillRoll(m) => WillRoll(l)
    BY <2>4, <2>9 DEF WillRoll
  <2>14. QED
    BY <1>1, <2>6, <2>7, <2>9, <2>10, <2>11, <2>12, <2>13 DEF Goes, Sound
<1>6. QED
  BY <1>2, <1>3, <1>4, <1>5 DEF Prepare

\* One item of a list goes on.
ItemStep(t, i, s, jobs) ==
    list' = [list EXCEPT ![t].item[i] = s, ![t].jobs = jobs]

LEMMA WorkSound ==
  ASSUME TypeOK, NEW t \in Tasks, Sound(list[t]), Work(t)
  PROVE  \E m : Goes(t, m)
<1>1. PICK l \in ListType : l = list[t]
  BY DEF TypeOK
<1> USE TaskListsAssumption DEF Items
<1>2. ASSUME NEW i \in Items, NEW s \in ItemStatus, NEW jobs \in SUBSET Items,
             ItemStep(t, i, s, jobs),
             \/ i \in l.jobs /\ s = "RUNNING" /\ jobs = l.jobs \ {i}
             \/ /\ l.item[i] \in Busy /\ s \in {"STARTING", "SUCCESS", "FAILED"}
                /\ jobs = l.jobs
                /\ l.kind = "serial" /\ i > 1 => l.item[i - 1] = "SUCCESS"
      PROVE  \E m : Goes(t, m)
  <2>0. /\ list' = [list EXCEPT ![t].item[i] = s, ![t].jobs = jobs]
        /\ i \in Items /\ s \in ItemStatus /\ jobs \in SUBSET Items
    BY <1>2 DEF ItemStep
  <2>1. PICK item : item = [l.item EXCEPT ![i] = s]
    OBVIOUS
  <2>2. PICK m : m = Changed(l, l.pc, l.next, jobs, item, l.finished)
    OBVIOUS
  <2>3. list' = [list EXCEPT ![t] = m]
    <3>1. PICK n : n = [l EXCEPT !.item[i] = s, !.jobs = jobs]
      OBVIOUS
    <3>2. list' = [list EXCEPT ![t] = n]
      BY <1>1, <2>0, <3>1 DEF TypeOK
    <3>3. n = [l EXCEPT !.item = item, !.jobs = jobs] /\ item \in [Items -> ItemStatus]
      BY <2>0, <2>1, <3>1, Fields DEF ListType
    <3>4. n \in ListType
      BY <2>0, <3>3 DEF ListType
    <3>5. /\ n.kind = l.kind /\ n.command = l.command /\ n.old = l.old
          /\ n.cancelled = l.cancelled /\ n.pc = l.pc /\ n.next = l.next
          /\ n.jobs = jobs /\ n.item = item /\ n.finished = l.finished
      BY <3>3 DEF ListType
    <3>6. QED
      BY <2>2, <3>2, <3>4, <3>5, Rebuilt
  <2>4. m \in ListType
    <3>1. item \in [Items -> ItemStatus] /\ l.next \in 1..(Len + EachNum)
      BY <2>0, <2>1, Fields
    <3>2. QED
      BY <2>0, <2>2, <3>1, Fields, Typed
  <2>5. /\ \A j \in Items : m.item[j] = IF j = i THEN s ELSE l.item[j]
        /\ l.pc \in {"parallel", "serial", "wait"}
        /\ l.kind = "serial" <=> l.pc = "serial"
    BY <1>1, <1>2, <2>1, <2>2, Fields DEF Changed, Sound, Phase, Calm
  <2>6. /\ m.pc = l.pc /\ m.next = l.next /\ m.jobs = jobs
        /\ m.finished = l.finished /\ m.kind = l.kind /\ m.command = l.command
        /\ m.old = l.old /\ m.cancelled = l.cancelled
    BY <2>2 DEF Changed
  <2>7. Phase(m) /\ Calm(m) /\ Aligned(m)
    BY <1>1, <1>2, <2>5, <2>6 DEF Sound, Phase, Calm, Aligned, Busy
  <2>8. ASSUME l.pc = "serial"
        PROVE  InOrder(m) /\ ByBatches(m) /\ Complete(m) /\ Cancellable(m)
    <3>1. l.jobs = {} /\ s \in {"STARTING", "SUCCESS", "FAILED"} /\ l.item[i] \in Busy
      BY <1>1, <1>2, <2>8 DEF Sound, Calm
    <3>2. /\ \A j \in Items : IF j < m.next THEN m.item[j] \in Busy \cup Over
                                            ELSE m.item[j] \in Fresh
      BY <1>1, <2>5, <2>6, <2>8, <3>1 DEF Sound, InOrder, Busy, Over, Fresh
    <3>3. \A j \in Items : j < i => l.item[j] = "SUCCESS"
      <4>1. ASSUME NEW j \in Items, j < i
            PROVE  l.item[j] = "SUCCESS"
        <5>1. l.item[i - 1] = "SUCCESS" /\ i - 1 \in Items
          BY <1>2, <2>0, <2>5, <2>8, <3>1, <4>1
        <5>2. CASE j < i - 1
          BY <1>1, <2>5, <2>8, <5>1, <5>2 DEF Sound, InOrder
        <5>3. QED
          BY <2>0, <4>1, <5>1, <5>2
      <4>2. QED
        BY <4>1
    <3>4. \A j, k \in Items : j < k /\ m.item[k] \in {"STARTING", "SUCCESS", "FAILED"} =>
                                  m.item[j] = "SUCCESS"
      BY <1>1, <2>5, <2>8, <3>1, <3>3 DEF Sound, InOrder, Busy
    <3>5. QED
      BY <1>1, <2>5, <2>6, <2>8, <3>2, <3>4 DEF InOrder, ByBatches, Complete, Cancellable, Sound, Phase
  <2>9. ASSUME l.pc # "serial"
        PROVE  InOrder(m) /\ ByBatches(m) /\ Complete(m) /\ Cancellable(m)
    <3>1. InOrder(m) /\ Complete(m)
      BY <1>1, <2>5, <2>6, <2>9 DEF Sound, Phase, InOrder, Complete
    <3>2. ByBatches(m)
      <4>1. \A j \in l.jobs : j = i \/ j \in jobs
        BY <1>2
      <4>2. m.item[i] \in Busy \cup Over /\ jobs \subseteq l.jobs
        BY <1>2, <2>5 DEF Busy, Over
      <4>3. ASSUME l.pc = "wait"
            PROVE  i < l.next /\ l.next <= i + EachNum
        <5>1. l.item[i] \in Busy \/ i \in l.jobs
          BY <1>2
        <5>2. CASE i \in l.jobs
          BY <1>1, <4>3, <5>2 DEF Sound, ByBatches
        <5>3. CASE l.item[i] \in Busy
          <6>1. /\ ~(i + EachNum < l.next)
                /\ ~(i < l.next) => l.item[i] \in Fresh
            BY <1>1, <2>0, <4>3, <5>3 DEF Sound, ByBatches, Busy, Over
          <6>2. i < l.next
            BY <5>3, <6>1 DEF Busy, Fresh
          <6>3. QED
            BY <2>0, <6>1, <6>2, Fields
        <5>4. QED
          BY <5>1, <5>2, <5>3
      <4>4. CASE l.pc = "wait"
        <5>1. ASSUME NEW j \in Items
              PROVE  IF j + EachNum < m.next THEN m.item[j] \in Over
                     ELSE IF j < m.next THEN j \in m.jobs \/ m.item[j] \in Busy \cup Over
                     ELSE m.item[j] \in Fresh
          <6>1. CASE j = i
            BY <2>0, <2>5, <2>6, <4>2, <4>3, <4>4, <6>1, Fields
          <6>2. CASE j # i
            BY <1>1, <2>5, <2>6, <4>1, <4>4, <6>2 DEF Sound, ByBatches
          <6>3. QED
            BY <6>1, <6>2
        <5>2. \A j \in m.jobs : j < m.next /\ m.next <= j + EachNum
          BY <1>1, <2>6, <4>2, <4>4 DEF Sound, ByBatches
        <5>3. QED
          BY <2>6, <4>4, <5>1, <5>2 DEF ByBatches
      <4>5. CASE l.pc # "wait"
        BY <2>5, <2>6, <2>9, <4>5 DEF ByBatches
      <4>6. QED
        BY <4>4, <4>5
    <3>3. Cancellable(m)
      <4>1. CASE l.pc = "wait"
        <5>1. l.item[i] # "NOT_START" \/ i < l.next
          BY <1>1, <1>2, <4>1 DEF Sound, ByBatches, Busy
        <5>2. ~l.cancelled /\ l.command \notin {"patch", "gracePatch"} /\ l.kind = "elegant" =>
                \A j \in Items : j >= l.next => l.item[j] = "NOT_START"
          BY <1>1, <4>1 DEF Sound, Cancellable
        <5>3. l.next \in Nat /\ i \in Nat
          BY <2>0, Fields
        <5>4. ~l.cancelled /\ l.command \notin {"patch", "gracePatch"} /\ l.kind = "elegant" =>
                \A j \in Items : j >= m.next => m.item[j] = "NOT_START"
          BY <2>0, <2>5, <2>6, <5>1, <5>2, <5>3
        <5>5. QED
          BY <2>6, <4>1, <5>4 DEF Cancellable
      <4>2. CASE l.pc = "parallel"
        BY <2>6, <4>2 DEF Cancellable
      <4>3. QED
        BY <2>5, <2>9, <4>1, <4>2
    <3>4. QED
      BY <3>1, <3>2, <3>3
  <2>10. m.old = l.old /\ (WillRoll(m) => WillRoll(l))
    BY <2>2 DEF Changed, WillRoll
  <2>11. QED
    BY <1>1, <2>3, <2>4, <2>7, <2>8, <2>9, <2>10 DEF Goes, Sound
<1>3. CASE Begin(t)
  <2>1. PICK i \in l.jobs : list' = [list EXCEPT ![t].item[i] = "RUNNING", ![t].jobs = @ \ {i}]
    BY <1>1, <1>3 DEF Begin
  <2>2. ItemStep(t, i, "RUNNING", l.jobs \ {i})
    BY <1>1, <2>1 DEF TypeOK, ListType, ItemStep
  <2>3. QED
    BY <1>2, <2>1, <2>2, Fields DEF ItemStatus
<1>4. CASE Restart(t)
  <2>1. PICK i \in Items :
          /\ l.item[i] \in Busy /\ Succeeding(t, i)
          /\ list' = [list EXCEPT ![t].item[i] = "STARTING"]
    BY <1>1, <1>4 DEF Restart, InProgress, Busy
  <2>2. ItemStep(t, i, "STARTING", l.jobs)
    BY <1>1, <2>1 DEF TypeOK, ListType, ItemStep
  <2>3. QED
    BY <1>1, <1>2, <2>1, <2>2, Fields DEF ItemStatus, Succeeding
<1>5. CASE End(t)
  <2>1. PICK i \in Items, s \in {"SUCCESS", "FAILED"} :
          /\ l.item[i] \in Busy /\ Succeeding(t, i)
          /\ list' = [list EXCEPT ![t].item[i] = s]
    BY <1>1, <1>5 DEF End, InProgress, Busy
  <2>2. ItemStep(t, i, s, l.jobs)
    BY <1>1, <2>1 DEF TypeOK, ListType, ItemStep
  <2>3. QED
    BY <1>1, <1>2, <2>1, <2>2, Fields DEF ItemStatus, Succeeding
<1>6. QED
  BY <1>3, <1>4, <1>5 DEF Work

LEMMA SerialSound ==
  ASSUME TypeOK, NEW t \in Tasks, Sound(list[t]), Serial(t)
  PROVE  \E m : Goes(t, m)
<1>1. PICK l \in ListType : l = list[t]
  BY DEF TypeOK
<1> USE TaskListsAssumption DEF Items
<1>2. CASE SerialBegin(t)
  <2>1. PICK item : item = [l.item EXCEPT ![l.next] = "RUNNING"]
    OBVIOUS
  <2>2. PICK m : m = Changed(l, l.pc, l.next + 1, l.jobs, item, l.finished)
    OBVIOUS
  <2>3. l.pc = "serial" /\ l.kind = "serial" /\ l.next \in Items
    BY <1>1, <1>2, Fields DEF SerialBegin, At, Sound, Phase
  <2>4. list' = [list EXCEPT ![t] = m]
    BY <1>1, <1>2, <2>1, <2>2, <2>3 DEF SerialBegin, TypeOK, Changed, ListType
  <2>5. m \in ListType
    BY <2>1, <2>2, <2>3, Fields, Typed DEF ItemStatus
  <2>6. /\ \A j \in Items : m.item[j] = IF j = l.next THEN "RUNNING" ELSE l.item[j]
        /\ m.pc = l.pc /\ m.next = l.next + 1 /\ m.jobs = l.jobs
        /\ m.finished = l.finished /\ m.kind = l.kind /\ m.command = l.command
        /\ m.old = l.old /\ m.cancelled = l.cancelled
    BY <2>1, <2>2, <2>3, Fields DEF Changed
  <2>7. Phase(m) /\ Calm(m) /\ Aligned(m) /\ Complete(m) /\ Cancellable(m) /\ ByBatches(m)
    BY <1>1, <2>3, <2>6
       DEF Sound, Phase, Calm, Aligned, Complete, Cancellable, ByBatches
  <2>8. l.item[l.next] \in Fresh
    BY <1>1, <2>3, Fields DEF Sound, InOrder
  <2>9. InOrder(m)
    <3>1. \A j \in Items : IF j < m.next THEN m.item[j] \in Busy \cup Over
                                          ELSE m.item[j] \in Fresh
      BY <1>1, <2>3, <2>6, Fields DEF Sound, InOrder, Busy
    <3>2. \A i, j \in Items : i < j /\ m.item[j] \in {"STARTING", "SUCCESS", "FAILED"} =>
                                  m.item[i] = "SUCCESS"
      BY <1>1, <2>3, <2>6, <2>8 DEF Sound, InOrder, Fresh
    <3>3. QED
      BY <3>1, <3>2 DEF InOrder
  <2>10. ~WillRoll(m)
    BY <2>3, <2>6 DEF WillRoll
  <2>11. QED
    BY <1>1, <2>4, <2>5, <2>6, <2>7, <2>9, <2>10 DEF Goes, Sound
<1>3. CASE SerialCancel(t)
  <2>1. PICK i \in Items :
          /\ l.item[i] \in Busy /\ ~Succeeding(t, i)
          /\ list' = [list EXCEPT ![t].item[i] = "CANCEL"]
    BY <1>1, <1>3 DEF SerialCancel, InProgress, Busy
  <2>2. PICK item \in [Items -> ItemStatus] : item = [l.item EXCEPT ![i] = "CANCEL"]
    BY <2>1, Fields DEF ItemStatus
  <2>3. PICK m : m = [l EXCEPT !.item = item]
    OBVIOUS
  <2>4. l.pc = "serial" /\ l.kind = "serial"
    BY <1>1, <2>1, Fields DEF Succeeding, Sound, Phase, Calm, PCs
  <2>5. list' = [list EXCEPT ![t] = m]
    BY <1>1, <2>1, <2>2, <2>3 DEF TypeOK, ListType
  <2>6. m \in ListType
    BY <2>2, <2>3 DEF ListType
  <2>7. /\ \A j \in Items : m.item[j] = IF j = i THEN "CANCEL" ELSE l.item[j]
        /\ m.pc = l.pc /\ m.next = l.next /\ m.jobs = l.jobs
        /\ m.finished = l.finished /\ m.kind = l.kind /\ m.command = l.command
        /\ m.old = l.old /\ m.cancelled = l.cancelled
    BY <2>1, <2>2, <2>3, Fields DEF ListType
  <2>8. Phase(m) /\ Calm(m) /\ Aligned(m) /\ Complete(m) /\ Cancellable(m) /\ ByBatches(m)
    BY <1>1, <2>4, <2>7
       DEF Sound, Phase, Calm, Aligned, Complete, Cancellable, ByBatches
  <2>9. InOrder(m)
    <3>1. \A j \in Items : IF j < m.next THEN m.item[j] \in Busy \cup Over
                                          ELSE m.item[j] \in Fresh
      BY <1>1, <2>1, <2>4, <2>7 DEF Sound, InOrder, Over, Fresh
    <3>2. \A j, k \in Items : j < k /\ m.item[k] \in {"STARTING", "SUCCESS", "FAILED"} =>
                                  m.item[j] = "SUCCESS"
      BY <1>1, <2>1, <2>4, <2>7 DEF Sound, InOrder, Busy
    <3>3. QED
      BY <3>1, <3>2 DEF InOrder
  <2>10. ~WillRoll(m)
    BY <2>4, <2>7 DEF WillRoll
  <2>11. QED
    BY <1>1, <2>5, <2>6, <2>7, <2>8, <2>9, <2>10 DEF Goes, Sound
<1>4. CASE SerialFinish(t)
  <2>1. PICK m : m = [l EXCEPT !.pc = "done", !.finished = TRUE]
    OBVIOUS
  <2>2. /\ l.pc = "serial" /\ l.kind = "serial" /\ l.next > Len
        /\ \A i \in Items : l.item[i] \notin Busy
    BY <1>1, <1>4, Fields DEF SerialFinish, At, Sound, Phase, InProgress, Busy
  <2>3. list' = [list EXCEPT ![t] = m]
    BY <1>1, <1>4, <2>1 DEF SerialFinish, TypeOK
  <2>4. m \in ListType
    BY <2>1 DEF ListType
  <2>5. /\ m.pc = "done" /\ m.next = l.next /\ m.jobs = l.jobs /\ m.item = l.item
        /\ m.finished /\ m.kind = l.kind /\ m.command = l.command
        /\ m.old = l.old /\ m.cancelled = l.cancelled
    BY <2>1 DEF ListType
  <2>6. \A i \in Items : l.item[i] \in Over /\ i < l.next
    BY <1>1, <2>2, Fields DEF Sound, InOrder
  <2>7. Phase(m) /\ Calm(m) /\ Aligned(m) /\ Complete(m) /\ Cancellable(m) /\ ByBatches(m)
    BY <1>1, <2>2, <2>5, <2>6
       DEF Sound, Phase, Calm, Aligned, Complete, Cancellable, ByBatches
  <2>8. InOrder(m)
    BY <1>1, <2>2, <2>5 DEF Sound, InOrder
  <2>9. ~WillRoll(m)
    BY <2>5 DEF WillRoll
  <2>10. QED
    BY <1>1, <2>3, <2>4, <2>5, <2>7, <2>8, <2>9 DEF Goes, Sound
<1>5. QED
  BY <1>2, <1>3, <1>4 DEF Serial

LEMMA ElegantSound ==
  ASSUME TypeOK, NEW t \in Tasks, Sound(list[t]), Elegant(t)
  PROVE  \E m : Goes(t, m)
<1>1. PICK l \in ListType : l = list[t]
  BY DEF TypeOK
<1> USE TaskListsAssumption DEF Items
<1>2. CASE BatchBegin(t)
  <2>1. PICK item \in [Items -> ItemStatus] :
          item = [i \in Items |-> IF i \in Batch(t) THEN "PAUSE_FLOW" ELSE l.item[i]]
    BY Fields DEF ItemStatus
  <2>2. PICK m : m = [l EXCEPT !.pc = "flow", !.item = item]
    OBVIOUS
  <2>3. l.pc = "batch" /\ l.kind = "elegant" /\ l.next <= Len
    BY <1>1, <1>2 DEF BatchBegin, At, Sound, Phase
  <2>4. list' = [list EXCEPT ![t] = m]
    BY <1>1, <1>2, <2>1, <2>2 DEF BatchBegin, TypeOK, ListType
  <2>5. m \in ListType
    BY <2>1, <2>2 DEF ListType
  <2>6. /\ \A j \in Items : m.item[j] = IF l.next <= j /\ j < l.next + EachNum
                                        THEN "PAUSE_FLOW" ELSE l.item[j]
        /\ m.pc = "flow" /\ m.next = l.next /\ m.jobs = l.jobs
        /\ m.finished = l.finished /\ m.kind = l.kind /\ m.command = l.command
        /\ m.old = l.old /\ m.cancelled = l.cancelled
    BY <1>1, <2>1, <2>2 DEF Batch, ListType
  <2>7. Phase(m) /\ Calm(m) /\ Aligned(m) /\ Complete(m) /\ InOrder(m)
    <3>1. Phase(m) /\ Aligned(m) /\ Complete(m) /\ InOrder(m)
      BY <1>1, <2>3, <2>6, Fields DEF Sound, Phase, Aligned, Complete, InOrder
    <3>2. Calm(m)
      BY <1>1, <2>3, <2>6, Fields DEF Sound, Phase, Calm, Busy
    <3>3. QED
      BY <3>1, <3>2
  <2>8. ByBatches(m) /\ Cancellable(m)
    <3>1. \A i \in Items : IF i < m.next THEN m.item[i] \in Over
                           ELSE IF i < m.next + EachNum THEN m.item[i] = "PAUSE_FLOW"
                           ELSE m.item[i] \in Fresh
      BY <1>1, <2>3, <2>6, Fields DEF Sound, ByBatches
    <3>2. \A i \in Items : i >= m.next + EachNum => i >= l.next /\ m.item[i] = l.item[i]
      BY <2>6, Fields
    <3>3. QED
      BY <1>1, <2>3, <2>6, <3>1, <3>2 DEF Sound, ByBatches, Cancellable
  <2>9. WillRoll(m) => WillRoll(l)
    BY <2>3, <2>6 DEF WillRoll
  <2>10. QED
    BY <1>1, <2>4, <2>5, <2>6, <2>7, <2>8, <2>9 DEF Goes, Sound
<1>3. CASE BatchPause(t)
  <2>1. PICK jobs \in SUBSET Items : jobs = {i \in Items : l.next <= i /\ i < l.next + EachNum}
    OBVIOUS
  <2>2. PICK m : m = Changed(l, "wait", l.next + EachNum, jobs, l.item, l.finished)
    OBVIOUS
  <2>3. l.pc = "flow" /\ l.kind = "elegant" /\ l.next <= Len
    BY <1>1, <1>3 DEF BatchPause, At, Sound, Phase
  <2>4. m \in ListType
    BY <2>1, <2>2, <2>3, Fields, Typed DEF PCs
  <2>5. /\ m.pc = "wait" /\ m.next = l.next + EachNum /\ m.jobs = jobs /\ m.item = l.item
        /\ m.finished = l.finished /\ m.kind = l.kind /\ m.command = l.command
        /\ m.old = l.old /\ m.cancelled = l.cancelled
    BY <2>2 DEF Changed
  <2>6. list' = [list EXCEPT ![t] = m]
    <3>1. PICK n : n = [l EXCEPT !.pc = "wait", !.jobs = jobs, !.next = l.next + EachNum]
      OBVIOUS
    <3>2. list' = [list EXCEPT ![t] = n]
      BY <1>1, <1>3, <2>1, <3>1 DEF BatchPause, Batch, TypeOK
    <3>3. n \in ListType
      <4>1. l.next + EachNum \in 1..(Len + EachNum)
        BY <2>3, Fields
      <4>2. [l EXCEPT !.pc = "wait", !.next = l.next + EachNum] \in ListType
        BY <4>1 DEF ListType
      <4>3. n = [[l EXCEPT !.pc = "wait", !.next = l.next + EachNum] EXCEPT !.jobs = jobs]
        BY <3>1
      <4>4. QED
        BY <4>2, <4>3 DEF ListType
    <3>4. /\ n.kind = l.kind /\ n.command = l.command /\ n.old = l.old
          /\ n.cancelled = l.cancelled /\ n.pc = "wait" /\ n.next = l.next + EachNum
          /\ n.jobs = jobs /\ n.item = l.item /\ n.finished = l.finished
      BY <3>1 DEF ListType
    <3>5. QED
      BY <2>2, <3>2, <3>3, <3>4, Rebuilt
  <2>7. Phase(m) /\ Calm(m) /\ Complete(m) /\ InOrder(m)
    <3>1. ~l.finished /\ \A i \in Items : l.item[i] \notin Busy
      BY <1>1, <2>3 DEF Sound, Phase, Calm
    <3>2. Phase(m) /\ Complete(m) /\ InOrder(m)
      BY <1>1, <2>3, <2>5, <3>1 DEF Sound, Phase, Complete, InOrder
    <3>3. Calm(m)
      BY <2>5 DEF Calm
    <3>4. QED
      BY <3>2, <3>3
  <2>8. Aligned(m)
    <3>1. PICK k \in Nat : l.next = k * EachNum + 1
      BY <1>1, <2>3 DEF Sound, Aligned
    <3>2. m.next = (k * EachNum) + EachNum + 1
      BY <2>5, <3>1
    <3>3. QED
      BY <2>5, <3>2 DEF Aligned
  <2>9. ByBatches(m)
    <3>1. \A i \in Items : IF i < l.next THEN l.item[i] \in Over
                           ELSE IF i < l.next + EachNum THEN l.item[i] = "PAUSE_FLOW"
                           ELSE l.item[i] \in Fresh
      BY <1>1, <2>3 DEF Sound, ByBatches
    <3>2. \A i \in Items : IF i + EachNum < l.next + EachNum THEN l.item[i] \in Over
                           ELSE IF i < l.next + EachNum
                                THEN i \in jobs \/ l.item[i] \in Busy \cup Over
                                ELSE l.item[i] \in Fresh
      <4>1. l.next \in Nat
        BY Fields
      <4>2. QED
        BY <2>1, <3>1, <4>1
    <3>3. \A i \in jobs : i < l.next + EachNum /\ l.next + EachNum <= i + EachNum
      <4>1. l.next \in Nat
        BY Fields
      <4>2. QED
        BY <2>1, <4>1
    <3>4. QED
      BY <2>5, <3>2, <3>3 DEF ByBatches
  <2>10. Cancellable(m)
    BY <1>1, <2>3, <2>5, Fields DEF Sound, Cancellable
  <2>11. WillRoll(m) => WillRoll(l)
    BY <2>3, <2>5 DEF WillRoll
  <2>12. QED
    BY <1>1, <2>4, <2>5, <2>6, <2>7, <2>8, <2>9, <2>10, <2>11 DEF Goes, Sound
<1>4. CASE BatchWait(t)
  <2>1. PICK m : m = [l EXCEPT !.pc = "batch"]
    OBVIOUS
  <2>2. /\ l.pc = "wait" /\ l.kind = "elegant" /\ l.jobs = {}
        /\ \A i \in Items : l.item[i] \notin Busy
    BY <1>1, <1>4 DEF BatchWait, At, Sound, Phase, Idle, InProgress, Busy
  <2>3. list' = [list EXCEPT ![t] = m]
    BY <1>1, <1>4, <2>1 DEF BatchWait, TypeOK
  <2>4. m \in ListType
    BY <2>1 DEF ListType
  <2>5. /\ m.pc = "batch" /\ m.next = l.next /\ m.jobs = l.jobs /\ m.item = l.item
        /\ m.finished = l.finished /\ m.kind = l.kind /\ m.command = l.command
        /\ m.old = l.old /\ m.cancelled = l.cancelled
    BY <2>1 DEF ListType
  <2>6. \A i \in Items : IF i < l.next THEN l.item[i] \in Over ELSE l.item[i] \in Fresh
    BY <1>1, <2>2, Fields DEF Sound, ByBatches
  <2>7. Phase(m) /\ Calm(m) /\ Complete(m) /\ InOrder(m) /\ ByBatches(m) /\ Cancellable(m)
    BY <1>1, <2>2, <2>5, <2>6
       DEF Sound, Phase, Calm, Complete, InOrder, ByBatches, Cancellable, Over, Fresh
  <2>8. Aligned(m)
    <3>1. PICK k \in Nat : l.next = (k * EachNum) + EachNum + 1
      BY <1>1, <2>2 DEF Sound, Aligned
    <3>2. l.next = ((k + 1) * EachNum) + 1 /\ k + 1 \in Nat
      BY <3>1
    <3>3. QED
      BY <2>5, <3>2 DEF Aligned
  <2>9. WillRoll(m) => WillRoll(l)
    BY <2>2, <2>5 DEF WillRoll
  <2>10. QED
    BY <1>1, <2>3, <2>4, <2>5, <2>7, <2>8, <2>9 DEF Goes, Sound
<1>5. CASE BatchFinish(t)
  <2>1. PICK m : m = [l EXCEPT !.pc = "done", !.finished = TRUE]
    OBVIOUS
  <2>2. l.pc = "batch" /\ l.kind = "elegant" /\ (l.cancelled \/ l.next > Len)
    BY <1>1, <1>5 DEF BatchFinish, At, Sound, Phase
  <2>3. list' = [list EXCEPT ![t] = m]
    BY <1>1, <1>5, <2>1 DEF BatchFinish, TypeOK
  <2>4. m \in ListType
    BY <2>1 DEF ListType
  <2>5. /\ m.pc = "done" /\ m.next = l.next /\ m.jobs = l.jobs /\ m.item = l.item
        /\ m.finished /\ m.kind = l.kind /\ m.command = l.command
        /\ m.old = l.old /\ m.cancelled = l.cancelled
    BY <2>1 DEF ListType
  <2>6. ~l.cancelled => \A i \in Items : l.item[i] \in Over
    BY <1>1, <2>2, Fields DEF Sound, ByBatches
  <2>7. Phase(m) /\ Calm(m) /\ Aligned(m) /\ Complete(m) /\ Cancellable(m) /\ ByBatches(m)
        /\ InOrder(m)
    BY <1>1, <2>2, <2>5, <2>6
       DEF Sound, Phase, Calm, Aligned, Complete, Cancellable, ByBatches, InOrder
  <2>8. ~WillRoll(m)
    BY <2>5 DEF WillRoll
  <2>9. QED
    BY <1>1, <2>3, <2>4, <2>5, <2>7, <2>8 DEF Goes, Sound
<1>6. QED
  BY <1>2, <1>3, <1>4, <1>5 DEF Elegant

-----------------------------------------------------------------------------
(***************************************************************************)
(* All lists together                                                      *)
(***************************************************************************)

\* A list that will roll is one ExecuteTask knows or is deleting, and the one that
\* the next request finds, unless somebody is about to cancel it.
Handover ==
    \A u \in Tasks : WillRoll(list[u]) =>
        /\ u \in known \/ u = deleting
        /\ ToBeCancelled(u) \/ u = elegant

TaskInv == TypeOK /\ (\A t \in Tasks : Sound(list[t])) /\ Handover

LEMMA OwnStep ==
  ASSUME TaskInv, NEW t \in Tasks, NEW m, Goes(t, m), flow' \subseteq Items,
         UNCHANGED <<known, elegant, deleting>>
  PROVE  TaskInv'
<1>1. list' = [list EXCEPT ![t] = m] /\ m \in ListType /\ list \in [Tasks -> ListType]
  BY DEF Goes, Sound, TaskInv, TypeOK
<1>2. TypeOK'
  BY <1>1 DEF TaskInv, TypeOK
<1>3. \A u \in Tasks : list'[u] = IF u = t THEN m ELSE list[u]
  BY <1>1
<1>4. \A u \in Tasks : Sound(list'[u])
  BY <1>3 DEF Goes, TaskInv
<1>5. \A u \in Tasks : WillRoll(list'[u]) => WillRoll(list[u])
  BY <1>3 DEF Goes
<1>6. \A u \in Tasks : ToBeCancelled(u) <=> ToBeCancelled(u)'
  BY <1>3 DEF ToBeCancelled, Goes
<1>7. QED
  BY <1>2, <1>4, <1>5, <1>6 DEF TaskInv, Handover

\* A request: the list takes over from the one it is to cancel.
LEMMA RequestSound ==
  ASSUME TaskInv, NEW t \in Tasks, addTaskReq(t)
  PROVE  TaskInv'
<1>1. PICK k \in Kinds, c \in Commands, o \in {elegant, NoTask} :
        /\ o = IF elegant \in known /\ ~list[elegant].finished THEN elegant ELSE NoTask
        /\ list' = [list EXCEPT ![t].kind = k, ![t].command = c,
                                ![t].pc = "add", ![t].old = o]
        /\ elegant' = IF k \in {"elegant", "elegantSerial"} THEN t ELSE o
  BY DEF addTaskReq
<1>2. PICK l \in ListType : l = list[t]
  BY DEF TaskInv, TypeOK
<1>3. PICK m : m = [l EXCEPT !.kind = k, !.command = c, !.pc = "add", !.old = o]
  OBVIOUS
<1>4. /\ l.pc = "none" /\ Sound(l) /\ deleting = NoTask
      /\ known' = known \cup {t} /\ deleting' = deleting /\ flow' = flow
  BY <1>2 DEF addTaskReq, At, TaskInv
<1>5. list' = [list EXCEPT ![t] = m]
  BY <1>1, <1>2, <1>3 DEF TaskInv, TypeOK
<1>6. o \in Tasks \cup {NoTask} /\ k # "none" /\ c # "none"
  BY <1>1, TaskListsAssumption DEF TaskInv, TypeOK
<1>7. m \in ListType
  BY <1>1, <1>3, <1>6 DEF ListType
<1>8. /\ m.kind = k /\ m.command = c /\ m.pc = "add" /\ m.old = o /\ m.next = l.next
      /\ m.jobs = l.jobs /\ m.item = l.item /\ m.cancelled = l.cancelled
      /\ m.finished = l.finished
  BY <1>3 DEF ListType
<1>9. Sound(m)
  BY <1>4, <1>6, <1>7, <1>8
     DEF Sound, Phase, Calm, InOrder, ByBatches, Aligned, Complete, Cancellable
<1>10. \A u \in Tasks : list'[u] = IF u = t THEN m ELSE list[u]
  BY <1>5 DEF TaskInv, TypeOK
<1>11. TypeOK' /\ \A u \in Tasks : Sound(list'[u])
  <2>1. \A u \in Tasks : Sound(list'[u])
    BY <1>9, <1>10 DEF TaskInv
  <2>2. TypeOK'
    <3>1. elegant' \in Tasks \cup {NoTask}
      BY <1>1, <1>6
    <3>2. list' \in [Tasks -> ListType]
      BY <1>5, <1>7 DEF TaskInv, TypeOK
    <3>3. QED
      BY <1>4, <3>1, <3>2 DEF TaskInv, TypeOK
  <2>3. QED
    BY <2>1, <2>2
<1>12. ASSUME NEW u \in Tasks, WillRoll(list'[u])
       PROVE  /\ u \in known' \/ u = deleting'
              /\ ToBeCancelled(u)' \/ u = elegant'
  <2>1. CASE u = t
    <3>1. k = "elegant"
      BY <1>8, <1>10, <1>12, <2>1 DEF WillRoll
    <3>2. QED
      BY <1>1, <1>4, <2>1, <3>1
  <2>2. CASE u # t
    <3>1. WillRoll(list[u]) /\ u \in known
      BY <1>4, <1>10, <1>12, <2>2, TaskListsAssumption DEF TaskInv, Handover
    <3>2. ~list[u].finished
      BY <3>1 DEF TaskInv, Sound, Phase, WillRoll
    <3>3. CASE u = elegant
      <4>1. list'[t].old = u
        BY <1>1, <1>8, <1>10, <3>1, <3>2, <3>3
      <4>2. QED
        BY <1>4, <3>1, <4>1 DEF ToBeCancelled
    <3>4. CASE u # elegant
      <4>1. PICK v \in Tasks : list[v].old = u
        BY <3>1, <3>4 DEF TaskInv, Handover, ToBeCancelled
      <4>2. v # t
        BY <1>2, <1>4, <4>1, TaskListsAssumption DEF Sound, Phase
      <4>3. QED
        BY <1>4, <1>10, <3>1, <4>1, <4>2 DEF ToBeCancelled
    <3>5. QED
      BY <3>3, <3>4
  <2>3. QED
    BY <2>1, <2>2
<1>13. QED
  BY <1>11, <1>12 DEF TaskInv, Handover

\* cancelTask finds something to cancel in every list that will roll.
LEMMA CancelSound ==
  ASSUME NEW l, Sound(l)
  PROVE  Sound(Cancelled(l)) /\ ~WillRoll(Cancelled(l)) /\ Cancelled(l).old = l.old
<1>1. PICK U \in SUBSET Items : U = {i \in Items : l.item[i] = "NOT_START"}
  OBVIOUS
<1>2. PICK item : item = [i \in Items |-> IF i \in U THEN "CANCEL" ELSE l.item[i]]
  OBVIOUS
<1>3. PICK b \in BOOLEAN : b <=> l.cancelled \/ U # {}
  OBVIOUS
<1>4. PICK m : m = [l EXCEPT !.item = item, !.cancelled = b]
  OBVIOUS
<1>5. l \in ListType
  BY DEF Sound
<1>6. item \in [Items -> ItemStatus]
  BY <1>2, <1>5, Fields DEF ItemStatus
<1>7. m \in ListType
  BY <1>3, <1>4, <1>5, <1>6 DEF ListType
<1>8. /\ m.kind = l.kind /\ m.command = l.command /\ m.pc = l.pc /\ m.old = l.old
      /\ m.next = l.next /\ m.jobs = l.jobs /\ m.item = item
      /\ m.finished = l.finished /\ m.cancelled = b
  BY <1>4, <1>5 DEF ListType
<1>9. Cancelled(l) = m
  <2>1. (l.cancelled \/ U # {}) = b
    BY <1>3, <1>5, Fields
  <2>2. QED
    BY <1>1, <1>2, <1>4, <1>5, <2>1 DEF Cancelled, ListType
<1>10. \A i \in Items : \/ m.item[i] = l.item[i]
                        \/ l.item[i] = "NOT_START" /\ m.item[i] = "CANCEL"
  BY <1>1, <1>2, <1>8
<1>11. ~b => ~l.cancelled /\ m.item = l.item
  BY <1>1, <1>2, <1>3, <1>5, <1>8, Fields
<1>12. Phase(m) /\ Calm(m) /\ Aligned(m)
  BY <1>8, <1>10 DEF Sound, Phase, Calm, Aligned, Busy, Fresh
<1>13. InOrder(m) /\ ByBatches(m)
  BY <1>5, <1>8, <1>10, Fields DEF Sound, InOrder, ByBatches, Busy, Over, Fresh
<1>14. Complete(m) /\ Cancellable(m)
  BY <1>8, <1>11 DEF Sound, Complete, Cancellable
<1>15. ~WillRoll(m)
  <2>1. SUFFICES ASSUME WillRoll(m)
                 PROVE  FALSE
    OBVIOUS
  <2>2. WillRoll(l) /\ ~l.cancelled /\ U = {}
    BY <1>3, <1>8, <1>11, <2>1 DEF WillRoll
  <2>3. \E i \in Items : l.item[i] = "NOT_START"
    <3>1. CASE l.pc \in {"add", "prepare"}
      BY <2>2, <3>1, TaskListsAssumption DEF WillRoll, Sound, Cancellable, Items
    <3>2. CASE l.pc \in {"batch", "wait"} /\ l.next <= Len
      BY <1>5, <2>2, <3>2, Fields, TaskListsAssumption DEF WillRoll, Sound, Cancellable, Items
    <3>3. CASE l.pc = "flow" /\ l.next + EachNum <= Len
      BY <1>5, <2>2, <3>3, Fields, TaskListsAssumption DEF WillRoll, Sound, Cancellable, Items
    <3>4. QED
      BY <2>2, <3>1, <3>2, <3>3 DEF WillRoll
  <2>4. QED
    BY <1>1, <2>2, <2>3
<1>16. QED
  BY <1>7, <1>8, <1>9, <1>12, <1>13, <1>14, <1>15 DEF Sound

LEMMA ExecuteSound ==
  ASSUME TaskInv, NEW t \in Tasks, execute(t)
  PROVE  TaskInv'
<1>1. PICK l \in ListType : l = list[t]
  BY DEF TaskInv, TypeOK
<1>2. PICK m : m = [l EXCEPT !.pc = "prepare", !.old = NoTask]
  OBVIOUS
<1>3. PICK started : started = [list EXCEPT ![t] = m]
  OBVIOUS
<1>4. /\ l.pc = "add" /\ Sound(l) /\ (l.old # NoTask => deleting = NoTask)
      /\ list' = IF l.old \in known THEN [started EXCEPT ![l.old] = Cancelled(@)] ELSE started
      /\ UNCHANGED <<known, elegant, deleting, flow>>
  BY <1>1, <1>2, <1>3 DEF execute, At, TaskInv, TypeOK
<1>5. m \in ListType
  BY <1>2 DEF ListType
<1>6. /\ m.kind = l.kind /\ m.command = l.command /\ m.pc = "prepare" /\ m.old = NoTask
      /\ m.next = l.next /\ m.jobs = l.jobs /\ m.item = l.item
      /\ m.cancelled = l.cancelled /\ m.finished = l.finished
  BY <1>2 DEF ListType
<1>7. Sound(m) /\ (WillRoll(m) => WillRoll(l))
  BY <1>4, <1>5, <1>6
     DEF Sound, Phase, Calm, InOrder, ByBatches, Aligned, Complete, Cancellable, WillRoll
<1>8. /\ started \in [Tasks -> ListType]
      /\ \A u \in Tasks : started[u] = IF u = t THEN m ELSE list[u]
      /\ \A u \in Tasks : Sound(started[u])
      /\ known \subseteq Tasks
  BY <1>3, <1>5, <1>7 DEF TaskInv, TypeOK
<1>9. /\ list' \in [Tasks -> ListType]
      /\ \A u \in Tasks : list'[u] = IF u = l.old /\ u \in known THEN Cancelled(started[u])
                                                                 ELSE started[u]
  BY <1>4, <1>8, CancelSound DEF Sound
<1>10. \A u \in Tasks : Sound(list'[u]) /\ (WillRoll(list'[u]) => WillRoll(list[u]))
  BY <1>1, <1>7, <1>8, <1>9, CancelSound
<1>11. TypeOK'
  BY <1>4, <1>9 DEF TaskInv, TypeOK
<1>12. ASSUME NEW u \in Tasks, WillRoll(list'[u])
       PROVE  /\ u \in known' \/ u = deleting'
              /\ ToBeCancelled(u)' \/ u = elegant'
  <2>1. WillRoll(list[u]) /\ (u \in known \/ u = deleting)
    BY <1>10, <1>12 DEF TaskInv, Handover
  <2>2. u # l.old
    <3>1. SUFFICES ASSUME u = l.old
                   PROVE  FALSE
      OBVIOUS
    <3>2. u \in known
      BY <1>4, <2>1, <3>1, TaskListsAssumption
    <3>3. QED
      BY <1>8, <1>9, <1>12, <3>1, <3>2, CancelSound
  <2>3. ASSUME NEW v \in Tasks, list[v].old = u
        PROVE  list'[v].old = u
    <3>1. v # t
      BY <1>1, <2>2, <2>3
    <3>2. started[v].old = u
      BY <1>8, <2>3, <3>1
    <3>3. QED
      BY <1>8, <1>9, <3>2, CancelSound
  <2>4. QED
    BY <1>4, <2>1, <2>3 DEF TaskInv, Handover, ToBeCancelled
<1>13. QED
  BY <1>10, <1>11, <1>12 DEF TaskInv, Handover

\* A list that is deleted is known no more, but it is the one being deleted until its
\* threads have ended.
LEMMA DeletionSound ==
  ASSUME TaskInv, NEW t \in Tasks, Expire(t) \/ Delete(t)
  PROVE  TaskInv'
<1>1. CASE Expire(t)
  <2>1. PICK l \in ListType : l = list[t]
    BY DEF TaskInv, TypeOK
  <2>2. PICK jobs \in SUBSET Items : jobs = IF l.kind = "parallel" THEN {} ELSE l.jobs
    BY Fields
  <2>3. PICK m : m = [l EXCEPT !.jobs = jobs]
    OBVIOUS
  <2>4. list' = [list EXCEPT ![t] = m] /\ Sound(l)
    BY <1>1, <2>1, <2>2, <2>3 DEF Expire, TaskInv, TypeOK
  <2>5. m \in ListType
    BY <2>3 DEF ListType
  <2>6. /\ m.kind = l.kind /\ m.command = l.command /\ m.pc = l.pc /\ m.old = l.old
        /\ m.next = l.next /\ m.jobs = jobs /\ m.item = l.item
        /\ m.cancelled = l.cancelled /\ m.finished = l.finished
    BY <2>3 DEF ListType
  <2>7. Sound(m)
    BY <2>2, <2>4, <2>5, <2>6
       DEF Sound, Phase, Calm, InOrder, ByBatches, Aligned, Complete, Cancellable
  <2>8. \A u \in Tasks : list'[u] = IF u = t THEN m ELSE list[u]
    BY <2>4 DEF TaskInv, TypeOK
  <2>9. /\ deleting = NoTask /\ known' = known \ {t} /\ deleting' = t
        /\ elegant' = elegant /\ flow' = flow
    BY <1>1 DEF Expire
  <2>10. TypeOK'
    BY <2>4, <2>5, <2>9 DEF TaskInv, TypeOK
  <2>11. \A u \in Tasks : Sound(list'[u]) /\ (WillRoll(list'[u]) => WillRoll(list[u]))
    BY <2>1, <2>6, <2>7, <2>8 DEF TaskInv, WillRoll
  <2>12. \A u \in Tasks : ToBeCancelled(u) <=> ToBeCancelled(u)'
    BY <2>1, <2>6, <2>8 DEF ToBeCancelled
  <2>13. QED
    BY <2>9, <2>10, <2>11, <2>12, TaskListsAssumption DEF TaskInv, Handover
<1>2. CASE Delete(t)
  <2>1. /\ UNCHANGED <<list, known, elegant, flow>> /\ deleting = t /\ deleting' = NoTask
        /\ ~WillRoll(list[t])
    BY <1>2 DEF Delete, WillRoll, TaskInv
  <2>2. QED
    BY <2>1 DEF TaskInv, TypeOK, Handover, ToBeCancelled
<1>3. QED
  BY <1>1, <1>2

-----------------------------------------------------------------------------
\* The inductive invariant holds in every reachable state.
THEOREM TaskInvariant == Spec => []TaskInv
<1>1. Init => TaskInv
  <2>1. SUFFICES ASSUME Init
                 PROVE  TaskInv
    OBVIOUS
  <2>2. PICK l : l = [kind |-> "none", command |-> "none", pc |-> "none",
                      old |-> NoTask, next |-> 1, jobs |-> {},
                      item |-> [i \in Items |-> "NOT_START"],
                      cancelled |-> FALSE, finished |-> FALSE]
    OBVIOUS
  <2>3. l \in ListType
    BY <2>2, TaskListsAssumption DEF ListType, ItemStatus
  <2>4. Sound(l) /\ ~WillRoll(l)
    BY <2>2, <2>3 DEF Sound, Phase, Calm, InOrder, ByBatches, Aligned, Complete,
                      Cancellable, WillRoll, Busy, Fresh
  <2>5. list = [t \in Tasks |-> l] /\ known = {} /\ elegant = NoTask /\ deleting = NoTask
        /\ flow = Items
    BY <2>1, <2>2 DEF Init
  <2>6. QED
    BY <2>3, <2>4, <2>5 DEF TaskInv, TypeOK, Handover
<1>2. TaskInv /\ [Next]_vars => TaskInv'
  <2>1. ASSUME TaskInv, NEW t \in Tasks, Prepare(t) \/ Work(t) \/ Serial(t) \/ Elegant(t)
        PROVE  TaskInv'
    <3>1. UNCHANGED <<known, elegant, deleting>> /\ flow' \subseteq Items
      BY <2>1 DEF Prepare, Work, Serial, Elegant, prepareFile, PrepareFails, FailItem,
                  onExecute, Begin, Restart, End, SerialBegin, SerialCancel, SerialFinish,
                  BatchBegin, BatchPause, BatchWait, BatchFinish, UpdateFlow, TaskInv, TypeOK,
                  InProgress
    <3>2. PICK m : Goes(t, m)
      BY <2>1, PrepareSound, WorkSound, SerialSound, ElegantSound DEF TaskInv
    <3>3. QED
      BY <2>1, <3>1, <3>2, OwnStep
  <2>2. ASSUME TaskInv, UNCHANGED vars
        PROVE  TaskInv'
    BY <2>2 DEF vars, TaskInv, TypeOK, Handover, ToBeCancelled
  <2>3. QED
    BY <2>1, <2>2, RequestSound, ExecuteSound, DeletionSound DEF Next
<1>3. QED
  BY <1>1, <1>2, PTL DEF Spec

\* Of the elegant lists that patch nothing at most one rolls through the nodes, or is
\* not about to be cancelled: for any number of requests in any order, while lists
\* are cancelled, expire and are deleted.
THEOREM OneRollsAtATime == Spec => []OneRolling
<1>1. TaskInv => OneRolling
  <2>1. ASSUME TaskInv, NEW u \in Tasks, Rolling(u), ~IsPatch(u), ~ToBeCancelled(u)
        PROVE  u = elegant
    <3>1. WillRoll(list[u])
      BY <2>1 DEF Rolling, IsPatch, WillRoll, At
    <3>2. QED
      BY <2>1, <3>1 DEF TaskInv, Handover
  <2>2. QED
    BY <2>1 DEF OneRolling
<1>2. QED
  BY <1>1, TaskInvariant, PTL

\* A serial list goes no further than its first failure, with any number of nodes.
THEOREM StopsAtFailure == Spec => []FailureStops
<1>1. TaskInv => FailureStops
  BY DEF TaskInv, Sound, InOrder, FailureStops, At
<1>2. QED
  BY <1>1, TaskInvariant, PTL

\* What counts as finished has an outcome for every item.
THEOREM FinishedMeansDone == Spec => []FinishedIsDone
<1>1. TaskInv => FinishedIsDone
  BY DEF TaskInv, Sound, Complete, FinishedIsDone, Ended, Over
<1>2. QED
  BY <1>1, TaskInvariant, PTL

\* Division by the size of a batch.
LEMMA Quotient ==
  ASSUME NEW n \in Nat \ {0}, NEW k \in Nat, NEW i \in Nat,
         k * n <= i, i < (k * n) + n
  PROVE  i \div n = k
OBVIOUS

\* An elegant list takes at most one batch out of service at a time, for any size of
\* list and batch and any number of workers.
THEOREM OneBatchAtATime == Spec => []BatchesApart
<1>1. TaskInv => BatchesApart
  <2>1. SUFFICES ASSUME TaskInv, NEW t \in Tasks, list[t].kind = "elegant"
                 PROVE  \E k \in Nat :
                          \A i \in InProgress(t) \cup {j \in Items : list[t].item[j] = "PAUSE_FLOW"} :
                              (i - 1) \div EachNum = k
    BY DEF BatchesApart
  <2>2. PICK l \in ListType : l = list[t] /\ Sound(l) /\ l.kind = "elegant"
    BY <2>1 DEF TaskInv, TypeOK
  <2>3. PICK A : A = InProgress(t) \cup {j \in Items : list[t].item[j] = "PAUSE_FLOW"}
    OBVIOUS
  <2>4. \A i \in A : i \in Items /\ l.item[i] \in Busy \cup {"PAUSE_FLOW"}
    BY <2>2, <2>3 DEF InProgress, Busy
  <2>5. CASE l.pc \notin {"flow", "wait"}
    <3>1. A = {}
      BY <2>2, <2>4, <2>5 DEF Sound, Phase, Calm
    <3>2. QED
      BY <2>3, <3>1
  <2>6. CASE l.pc = "flow"
    <3>1. PICK k \in Nat : l.next = k * EachNum + 1
      BY <2>2, <2>6 DEF Sound, Aligned
    <3>2. \A i \in A : l.next <= i /\ i < l.next + EachNum /\ i \in Nat
      <4>1. SUFFICES ASSUME NEW i \in A
                     PROVE  l.next <= i /\ i < l.next + EachNum /\ i \in Nat
        OBVIOUS
      <4>2. l.item[i] \notin Over /\ l.item[i] \notin Fresh
        BY <2>4 DEF Busy, Over, Fresh
      <4>3. ~(i < l.next) /\ i < l.next + EachNum
        BY <2>2, <2>4, <2>6, <4>2 DEF Sound, ByBatches
      <4>4. l.next \in Nat /\ i \in Nat
        BY <2>4, Fields, TaskListsAssumption DEF Items
      <4>5. QED
        BY <4>3, <4>4
    <3>3. ASSUME NEW i \in A
          PROVE  (i - 1) \div EachNum = k
      <4>1. /\ i - 1 \in Nat /\ k * EachNum <= i - 1 /\ i - 1 < (k * EachNum) + EachNum
        BY <3>1, <3>2, <3>3, TaskListsAssumption
      <4>2. QED
        BY <4>1, Quotient, TaskListsAssumption
    <3>4. QED
      BY <2>3, <3>3
  <2>7. CASE l.pc = "wait"
    <3>1. PICK k \in Nat : l.next = (k * EachNum) + EachNum + 1
      BY <2>2, <2>7 DEF Sound, Aligned
    <3>2. ASSUME NEW i \in A
          PROVE  i < l.next /\ l.next <= i + EachNum /\ i \in Nat
      <4>1. i \in Items /\ i \in Nat /\ l.next \in Nat
        BY <2>4, Fields, TaskListsAssumption DEF Items
      <4>2. CASE i \in l.jobs
        BY <2>2, <2>7, <4>1, <4>2 DEF Sound, ByBatches
      <4>3. CASE i \notin l.jobs
        <5>1. ~(i + EachNum < l.next) /\ i < l.next
          BY <2>2, <2>4, <2>7, <4>1 DEF Sound, ByBatches, Busy, Over, Fresh
        <5>2. QED
          BY <4>1, <5>1, TaskListsAssumption
      <4>4. QED
        BY <4>2, <4>3
    <3>3. ASSUME NEW i \in A
          PROVE  (i - 1) \div EachNum = k
      <4>1. /\ i - 1 \in Nat /\ k * EachNum <= i - 1 /\ i - 1 < (k * EachNum) + EachNum
        BY <3>1, <3>2, <3>3, TaskListsAssumption
      <4>2. QED
        BY <4>1, Quotient, TaskListsAssumption
    <3>4. QED
      BY <2>3, <3>3
  <2>8. QED
    BY <2>5, <2>6, <2>7
<1>2. QED
  BY <1>1, TaskInvariant, PTL

-----------------------------------------------------------------------------
(***************************************************************************)
(* Nodes without traffic, as long as the database works                    *)
(***************************************************************************)

\* The list's item keeps the node out of the traffic: it has not restarted the
\* server.
Withholds(l, n) ==
    /\ l.kind = "elegant"
    /\ \/ l.item[n] \in {"PAUSE_FLOW", "RUNNING", "FAILED"}
       \/ l.item[n] = "SUCCESS" /\ l.command \notin {"patch", "restart"}

Withheld == \A n \in Items \ flow : \E t \in Tasks : Withholds(list[t], n)

LEMMA ItemHolds ==
  ASSUME NEW l \in ListType, NEW m, NEW n \in Items, NEW i \in Items, NEW s,
         m.kind = l.kind, m.command = l.command, m.item = [l.item EXCEPT ![i] = s],
         Withholds(l, n),
         \/ l.item[i] \in Fresh \cup {"STARTING"}
         \/ s \in {"RUNNING", "FAILED"}
         \/ s = "SUCCESS" /\ l.command \notin {"patch", "restart"}
         \/ n # i
  PROVE  Withholds(m, n)
<1>1. l.item \in [Items -> ItemStatus]
  BY Fields
<1>2. CASE n = i
  BY <1>1, <1>2 DEF Withholds, Fresh
<1>3. CASE n # i
  BY <1>1, <1>3 DEF Withholds
<1>4. QED
  BY <1>2, <1>3

\* No step of a list gives up a node that it does not return to the traffic, and
\* only a batch that pauses takes nodes.
LEMMA OwnFlow ==
  ASSUME ~DbFails, TaskInv, NEW t \in Tasks, NEW n \in Items, n \notin flow',
         Prepare(t) \/ Work(t) \/ Serial(t) \/ Elegant(t)
  PROVE  /\ \A u \in Tasks \ {t} : list'[u] = list[u]
         /\ Withholds(list[t], n) => Withholds(list'[t], n)
         /\ n \in flow => Withholds(list'[t], n)
<1>1. PICK l \in ListType : l = list[t] /\ Sound(l) /\ list \in [Tasks -> ListType]
  BY DEF TaskInv, TypeOK
<1>2. \A u \in Tasks \ {t} : list'[u] = list[u]
  BY <1>1, PrepareSound, WorkSound, SerialSound, ElegantSound DEF Goes, TaskInv
<1>3. \/ flow' = flow
      \/ \E i \in Items : flow' = flow \cup {i} /\ list' = [list EXCEPT ![t].item[i] = "STARTING"]
      \/ BatchPause(t)
  BY DEF Prepare, Work, Serial, Elegant, prepareFile, PrepareFails, FailItem, onExecute,
         Begin, Restart, End, SerialBegin, SerialCancel, SerialFinish, BatchBegin,
         BatchWait, BatchFinish, UpdateFlow, InProgress
<1>4. CASE BatchPause(t)
  <2>1. /\ list'[t].item = l.item /\ list'[t].kind = l.kind /\ list'[t].command = l.command
        /\ flow' = flow \ Batch(t) /\ l.pc = "flow"
    BY <1>1, <1>4 DEF BatchPause, UpdateFlow, At, ListType
  <2>2. Withholds(l, n) => Withholds(list'[t], n)
    BY <2>1 DEF Withholds
  <2>3. ASSUME n \in flow
        PROVE  Withholds(list'[t], n)
    <3>1. l.next <= n /\ n < l.next + EachNum
      BY <1>1, <2>1, <2>3 DEF Batch
    <3>2. l.kind = "elegant" /\ (~(n < l.next) => l.item[n] = "PAUSE_FLOW")
      BY <1>1, <2>1, <3>1 DEF Sound, Phase, ByBatches
    <3>3. ~(n < l.next)
      BY <3>1, Fields, TaskListsAssumption DEF Items
    <3>4. QED
      BY <2>1, <3>2, <3>3 DEF Withholds
  <2>4. QED
    BY <1>1, <1>2, <2>2, <2>3
<1>5. CASE ~BatchPause(t)
  <2>1. n \notin flow
    BY <1>3, <1>5
  <2>2. SUFFICES ASSUME Withholds(l, n)
                 PROVE  Withholds(list'[t], n)
    BY <1>1, <1>2, <2>1
  <2>3. l.kind = "elegant" /\ l.item[n] \notin Fresh
    BY <2>2 DEF Withholds, Fresh
  <2>4. CASE \/ PrepareFails(t) \/ onExecute(t) \/ SerialFinish(t) \/ BatchWait(t)
             \/ BatchFinish(t)
    <3>1. /\ list'[t].item = l.item /\ list'[t].kind = l.kind
          /\ list'[t].command = l.command
      BY <1>1, <2>4 DEF PrepareFails, onExecute, SerialFinish, BatchWait, BatchFinish, ListType
    <3>2. QED
      BY <2>2, <3>1 DEF Withholds
  <2>5. CASE SerialBegin(t) \/ SerialCancel(t)
    <3>1. l.pc = "serial" \/ \E i \in Items : ~Succeeding(t, i)
      BY <1>1, <2>5 DEF SerialBegin, SerialCancel, At, InProgress
    <3>2. QED
      BY <1>1, <2>3, <3>1 DEF Sound, Phase, Succeeding
  <2>6. CASE BatchBegin(t)
    <3>1. /\ \A i \in Items : list'[t].item[i] \in {"PAUSE_FLOW", l.item[i]}
          /\ list'[t].kind = l.kind /\ list'[t].command = l.command
      BY <1>1, <2>6 DEF BatchBegin, ListType
    <3>2. QED
      BY <2>2, <3>1 DEF Withholds
  <2>7. ASSUME NEW i \in Items, NEW s,
               \/ l.item[i] \in Fresh \cup {"STARTING"}
               \/ s \in {"RUNNING", "FAILED"}
               \/ s = "SUCCESS" /\ l.command \notin {"patch", "restart"}
               \/ n # i,
               list'[t].item = [l.item EXCEPT ![i] = s],
               list'[t].kind = l.kind, list'[t].command = l.command
        PROVE  Withholds(list'[t], n)
    BY <2>2, <2>7, ItemHolds
  <2>8. CASE prepareFile(t)
    <3>1. /\ list'[t].item = [l.item EXCEPT ![l.next] = "PREPARE"]
          /\ list'[t].kind = l.kind /\ list'[t].command = l.command
          /\ l.next \in Items /\ l.pc = "prepare"
      BY <1>1, <2>8, Fields DEF prepareFile, At, ListType, Items
    <3>2. l.item[l.next] \in Fresh
      BY <1>1, <3>1 DEF Sound, Calm
    <3>3. QED
      BY <2>7, <3>1, <3>2
  <2>9. CASE FailItem(t)
    <3>1. /\ list'[t].item = [l.item EXCEPT ![l.next] = "FAILED"]
          /\ list'[t].kind = l.kind /\ list'[t].command = l.command
          /\ l.pc = "fail"
      BY <1>1, <2>9 DEF FailItem, At, ListType
    <3>2. l.next \in Items
      BY <1>1, <3>1, Fields, TaskListsAssumption DEF Sound, Phase, Items
    <3>3. QED
      BY <2>7, <3>1, <3>2
  <2>10. CASE Begin(t)
    <3>1. PICK i \in l.jobs :
            list' = [list EXCEPT ![t].item[i] = "RUNNING", ![t].jobs = @ \ {i}]
      BY <1>1, <2>10 DEF Begin
    <3>2. /\ list'[t].item = [l.item EXCEPT ![i] = "RUNNING"]
          /\ list'[t].kind = l.kind /\ list'[t].command = l.command
      BY <1>1, <3>1 DEF ListType
    <3>3. i \in Items
      BY Fields
    <3>4. QED
      BY <2>7, <3>1, <3>2, <3>3
  <2>11. CASE Restart(t)
    <3>1. PICK i \in Items : /\ list' = [list EXCEPT ![t].item[i] = "STARTING"]
                             /\ flow' = flow \cup {i}
      BY <2>11 DEF Restart, InProgress, UpdateFlow
    <3>2. /\ list'[t].item = [l.item EXCEPT ![i] = "STARTING"] /\ n # i
          /\ list'[t].kind = l.kind /\ list'[t].command = l.command
      BY <1>1, <3>1 DEF ListType
    <3>3. QED
      BY <2>7, <3>2
  <2>12. CASE End(t)
    <3>1. PICK i \in Items, s \in {"SUCCESS", "FAILED"} :
            /\ list' = [list EXCEPT ![t].item[i] = s]
            /\ s = "SUCCESS" /\ Restarts(t) => list[t].item[i] = "STARTING"
      BY <2>12 DEF End, InProgress
    <3>2. /\ list'[t].item = [l.item EXCEPT ![i] = s]
          /\ list'[t].kind = l.kind /\ list'[t].command = l.command
      BY <1>1, <3>1 DEF ListType
    <3>3. QED
      BY <1>1, <2>7, <3>1, <3>2 DEF Restarts
  <2>13. QED
    BY <1>5, <2>4, <2>5, <2>6, <2>8, <2>9, <2>10, <2>11, <2>12
       DEF Prepare, Work, Serial, Elegant
<1>6. QED
  BY <1>4, <1>5

\* The other steps leave the traffic alone, and what a list withholds.
LEMMA OtherFlow ==
  ASSUME TaskInv, NEW t \in Tasks, addTaskReq(t) \/ execute(t) \/ Expire(t) \/ Delete(t)
  PROVE  /\ flow' = flow
         /\ \A u \in Tasks, n \in Items : Withholds(list[u], n) => Withholds(list'[u], n)
<1>1. flow' = flow
  BY DEF addTaskReq, execute, Expire, Delete
<1>2. list \in [Tasks -> ListType] /\ \A u \in Tasks : Sound(list[u])
  BY DEF TaskInv, TypeOK
<1>3. ASSUME NEW u \in Tasks, NEW n \in Items, Withholds(list[u], n)
      PROVE  Withholds(list'[u], n)
  <2>1. list[u].pc # "none" /\ list[u].item[n] # "NOT_START"
    BY <1>2, <1>3 DEF Sound, Calm, Withholds, Fresh
  <2>2. CASE addTaskReq(t)
    <3>1. u # t
      BY <2>1, <2>2 DEF addTaskReq, At
    <3>2. list'[u] = list[u]
      BY <1>2, <2>2, <3>1 DEF addTaskReq
    <3>3. QED
      BY <1>3, <3>2
  <2>3. CASE execute(t)
    <3>1. PICK started :
            /\ started = [list EXCEPT ![t].pc = "prepare", ![t].old = NoTask]
            /\ list' = IF list[t].old \in known
                       THEN [started EXCEPT ![list[t].old] = Cancelled(@)] ELSE started
      BY <2>3 DEF execute
    <3>2. /\ started[u].kind = list[u].kind /\ started[u].command = list[u].command
          /\ started[u].item = list[u].item
      BY <1>2, <3>1 DEF ListType
    <3>3. list'[u] = started[u] \/ list'[u] = Cancelled(started[u])
      BY <1>2, <3>1
    <3>4. started[u] \in ListType
      <4>1. PICK m : m = [list[t] EXCEPT !.pc = "prepare", !.old = NoTask]
        OBVIOUS
      <4>2. m \in ListType
        <5>1. [list[t] EXCEPT !.pc = "prepare"] \in ListType
          <6>1. PICK l \in ListType : l = list[t]
            BY <1>2
          <6>2. [l EXCEPT !.pc = "prepare"] \in ListType
            BY DEF ListType
          <6>3. QED
            BY <6>1, <6>2
        <5>2. m = [[list[t] EXCEPT !.pc = "prepare"] EXCEPT !.old = NoTask]
          BY <4>1
        <5>3. QED
          BY <5>1, <5>2 DEF ListType
      <4>3. started = [list EXCEPT ![t] = m]
        BY <1>2, <3>1, <4>1
      <4>4. QED
        BY <1>2, <4>2, <4>3
    <3>5. CASE list'[u] = started[u]
      BY <1>3, <3>2, <3>5 DEF Withholds
    <3>6. CASE list'[u] = Cancelled(started[u])
      <4>1. /\ list'[u].kind = list[u].kind /\ list'[u].command = list[u].command
            /\ list'[u].item[n] = list[u].item[n]
        BY <2>1, <3>2, <3>4, <3>6 DEF Cancelled, ListType
      <4>2. QED
        BY <1>3, <4>1 DEF Withholds
    <3>7. QED
      BY <3>3, <3>5, <3>6
  <2>4. CASE Expire(t)
    <3>1. /\ list'[u].kind = list[u].kind /\ list'[u].command = list[u].command
          /\ list'[u].item = list[u].item
      BY <1>2, <2>4 DEF Expire, ListType
    <3>2. QED
      BY <1>3, <3>1 DEF Withholds
  <2>5. CASE Delete(t)
    BY <1>3, <2>5 DEF Delete
  <2>6. QED
    BY <2>2, <2>3, <2>4, <2>5
<1>4. QED
  BY <1>1, <1>3

\* As long as the database works, a node without traffic is one that an elegant list
\* is at work on or that its item left so, for any lists, overlapping or deleted.
THEOREM TrafficIsHeldBack ==
  ASSUME ~DbFails
  PROVE  Spec => []FlowHeldBack
<1>1. Init => Withheld
  BY DEF Init, Withheld
<1>2. TaskInv /\ Withheld /\ [Next]_vars => Withheld'
  <2>1. ASSUME TaskInv, Withheld, NEW t \in Tasks,
               Prepare(t) \/ Work(t) \/ Serial(t) \/ Elegant(t),
               NEW n \in Items, n \notin flow'
        PROVE  \E u \in Tasks : Withholds(list'[u], n)
    <3>1. CASE n \in flow
      BY <2>1, <3>1, OwnFlow
    <3>2. CASE n \notin flow
      <4>1. PICK u \in Tasks : Withholds(list[u], n)
        BY <2>1, <3>2 DEF Withheld
      <4>2. Withholds(list'[u], n)
        BY <2>1, <4>1, OwnFlow
      <4>3. QED
        BY <4>2
    <3>3. QED
      BY <3>1, <3>2
  <2>2. ASSUME TaskInv, Withheld, NEW t \in Tasks,
               addTaskReq(t) \/ execute(t) \/ Expire(t) \/ Delete(t)
        PROVE  Withheld'
    BY <2>2, OtherFlow DEF Withheld
  <2>3. ASSUME Withheld, UNCHANGED vars
        PROVE  Withheld'
    BY <2>3 DEF Withheld, vars
  <2>4. QED
    BY <2>1, <2>2, <2>3 DEF Next, Withheld
<1>3. Withheld => FlowHeldBack
  BY DEF Withheld, Withholds, FlowHeldBack, Restarts
<1>4. QED
  BY <1>1, <1>2, <1>3, TaskInvariant, PTL DEF Spec
=============================================================================
