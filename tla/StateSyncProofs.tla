--------------------------- MODULE StateSyncProofs ---------------------------
(***************************************************************************)
(* Proofs about StateSync, for any number of nodes and of outstanding      *)
(* calls, any rates of loads and any number of faults: every variable      *)
(* keeps its type, and the lock of the ServerObject, which is held over a  *)
(* synchronous call, keeps the state that is being reported the server's   *)
(* state until the answer is there (SyncInv).                              *)
(***************************************************************************)
EXTENDS StateSync, TLAPS

\* The part of SyncInv that is about the calls.
InStep ==
  \A n \in Node, c \in Direct : calls[n][c].owner = "sync" =>
    /\ up[n] /\ state[n] = calls[n][c].st
    /\ \A d \in Direct : calls[n][d].owner = "sync" => d = c

CallType == [Node -> [Slot -> Call]]

LEMMA Slots == /\ Direct \subseteq Slot /\ "batch" \in Slot /\ "batch" \notin Direct
               /\ NoCall \in Call /\ NoCall.owner = "none"
               /\ Bound \in Nat
BY StateSyncAssumption DEF Slot, NoCall, Call, ServerState, Bound

LEMMA CallChanged ==
  ASSUME NEW k \in Call
  PROVE  /\ [k EXCEPT !.owner = "none"] \in Call
         /\ [k EXCEPT !.owner = "none"].owner = "none"
         /\ [k EXCEPT !.stage = "sent"] \in Call
         /\ [k EXCEPT !.stage = "sent"].owner = k.owner
         /\ [k EXCEPT !.stage = "sent"].st = k.st
BY DEF Call

\* One call is replaced by another one.
Replace(n, c, k) == calls' = [calls EXCEPT ![n][c] = k]

LEMMA CallReplaced ==
  ASSUME calls \in CallType, NEW n \in Node, NEW c \in Slot, NEW k \in Call,
         Replace(n, c, k)
  PROVE  /\ calls' \in CallType /\ calls'[n][c] = k
         /\ \A m \in Node, d \in Slot : m # n \/ d # c => calls'[m][d] = calls[m][d]
BY DEF CallType, Replace

\* A call moves on at the registry, or ends when nobody waits for its answer.
Moves(n, c) == \E s \in {"filtered", "written", "ok", "error"} :
                 calls' = [calls EXCEPT ![n][c].stage = s]
Ends(n, c)  == Free(n, c) /\ (c = "batch" \/ calls[n][c].owner = "none")

LEMMA CallMoves ==
  ASSUME calls \in CallType, NEW n \in Node, NEW c \in Slot, Moves(n, c) \/ Ends(n, c)
  PROVE  /\ calls' \in CallType
         /\ \A m \in Node, d \in Direct : calls'[m][d].owner = "sync" =>
              calls[m][d].owner = "sync" /\ calls'[m][d].st = calls[m][d].st
<1>1. calls[n][c] \in Call
  BY DEF CallType
<1>2. PICK k \in Call : /\ Replace(n, c, k)
                        /\ \/ c = "batch" \/ k.owner = "none"
                           \/ k.owner = calls[n][c].owner /\ k.st = calls[n][c].st
  <2>1. CASE Ends(n, c)
    BY <2>1, Slots DEF Ends, Free, Replace
  <2>2. CASE Moves(n, c)
    <3>1. PICK s \in {"filtered", "written", "ok", "error"} :
             calls' = [calls EXCEPT ![n][c].stage = s]
      BY <2>2 DEF Moves
    <3> DEFINE k == [calls[n][c] EXCEPT !.stage = s]
    <3>2. k \in Call /\ k.owner = calls[n][c].owner /\ k.st = calls[n][c].st
      BY <1>1 DEF Call
    <3>3. Replace(n, c, k)
      BY <3>1 DEF Replace
    <3> QED
      BY <3>2, <3>3
  <2> QED
    BY <2>1, <2>2
<1>3. /\ calls' \in CallType /\ calls'[n][c] = k
      /\ \A m \in Node, d \in Slot : m # n \/ d # c => calls'[m][d] = calls[m][d]
  BY <1>2, CallReplaced
<1> QED
  BY <1>2, <1>3, Slots

\* Steps that take no call up and leave the node's state alone keep the calls in
\* step with it.
LEMMA StaysInStep ==
  ASSUME InStep, UNCHANGED <<up, state>>,
         \A n \in Node, c \in Direct : calls'[n][c].owner = "sync" =>
            calls[n][c].owner = "sync" /\ calls'[n][c].st = calls[n][c].st
  PROVE  InStep'
BY DEF InStep

LEMMA NoticesTyped ==
  ASSUME TypeOK, NEW n \in Node, Told(n) \/ NotTold(n) \/ UNCHANGED <<noticed, fails>>
  PROVE  noticed' \in [Node -> BOOLEAN] /\ fails' \in [Node -> 0 .. AsyncAfter]
<1>1. OneMore(n) \in 0 .. AsyncAfter /\ 0 \in 0 .. AsyncAfter
  BY StateSyncAssumption DEF OneMore, TypeOK
<1>2. noticed \in [Node -> BOOLEAN] /\ fails \in [Node -> 0 .. AsyncAfter]
  BY DEF TypeOK
<1> DEFINE Times == 0 .. AsyncAfter
<1>3. fails \in [Node -> Times] /\ OneMore(n) \in Times /\ 0 \in Times
  BY <1>1, <1>2
<1> HIDE DEF Times
<1>4. noticed' \in [Node -> BOOLEAN] /\ fails' \in [Node -> Times]
  BY <1>2, <1>3 DEF Told, NotTold
<1> QED
  BY <1>4 DEF Times

LEMMA FaultTyped ==
  ASSUME faults \in 0 .. Bound, UNCHANGED protect, Fault \/ NoFault
  PROVE  faults' \in 0 .. Bound'
BY Slots DEF Fault, NoFault, Bound

LEMMA WriteTyped ==
  ASSUME TypeOK, NEW n \in Node, NEW s \in ServerState, WritePresent(n, s)
  PROVE  /\ present' \in [Node -> ServerState \cup {"Gone"}]
         /\ touched' \in [Node -> 0 .. Window]
<1> DEFINE Times == 0 .. Window
<1>1. /\ Window \in Times /\ touched \in [Node -> Times]
      /\ present \in [Node -> ServerState \cup {"Gone"}]
  BY StateSyncAssumption DEF TypeOK
<1> HIDE DEF Times
<1>2. present' \in [Node -> ServerState \cup {"Gone"}] /\ touched' \in [Node -> Times]
  BY <1>1 DEF WritePresent
<1> QED
  BY <1>2 DEF Times

-----------------------------------------------------------------------------
\* A call is sent by whoever holds the lock, or by the queue of the proxy.
LEMMA SendKeeps ==
  ASSUME TypeOK, InStep, NEW n \in Node, NEW s \in ServerState,
         up[n], ~Locked(n), synState(n, s), state' = [state EXCEPT ![n] = s],
         UNCHANGED <<up, beat, dbVars, cacheVars, protect, faults>>
  PROVE  TypeOK' /\ InStep'
<1>1. PICK c \in Direct :
        /\ calls' = [calls EXCEPT ![n][c] =
                       [stage |-> "sent", st |-> s,
                        owner |-> IF fails[n] < AsyncAfter THEN "sync" ELSE "async"]]
        /\ IF fails[n] < AsyncAfter THEN UNCHANGED <<noticed, fails>> ELSE Told(n)
  BY DEF synState
<1> DEFINE k == [stage |-> "sent", st |-> s,
                 owner |-> IF fails[n] < AsyncAfter THEN "sync" ELSE "async"]
<1>2. k \in Call /\ k.st = s
  BY DEF Call
<1>3. calls \in CallType /\ c \in Slot /\ Replace(n, c, k)
  BY <1>1, Slots DEF TypeOK, CallType, Replace
<1> HIDE DEF k
<1>4. /\ calls' \in CallType /\ calls'[n][c] = k
      /\ \A m \in Node, d \in Slot : m # n \/ d # c => calls'[m][d] = calls[m][d]
  BY <1>2, <1>3, CallReplaced
<1>5. noticed' \in [Node -> BOOLEAN] /\ fails' \in [Node -> 0 .. AsyncAfter]
  BY <1>1, NoticesTyped
<1>6. state' \in [Node -> ServerState] /\ state'[n] = s
  BY DEF TypeOK
<1>7. TypeOK'
  BY <1>4, <1>5, <1>6 DEF TypeOK, CallType, dbVars, cacheVars, Bound
<1>8. \A d \in Direct : calls[n][d].owner # "sync"
  BY DEF Locked
<1>9. InStep'
  <2>1. SUFFICES ASSUME NEW m \in Node, NEW d \in Direct, calls'[m][d].owner = "sync"
                 PROVE  /\ up'[m] /\ state'[m] = calls'[m][d].st
                        /\ \A e \in Direct : calls'[m][e].owner = "sync" => e = d
    BY DEF InStep
  <2>2. CASE m # n
    <3>1. \A e \in Direct : calls'[m][e] = calls[m][e]
      BY <1>4, <2>2, Slots
    <3>2. state'[m] = state[m] /\ up' = up
      BY <2>2 DEF TypeOK
    <3> QED
      BY <2>1, <3>1, <3>2 DEF InStep
  <2>3. CASE m = n
    <3>1. \A e \in Direct : e # c => calls'[m][e].owner # "sync"
      BY <1>4, <1>8, <2>3, Slots
    <3> QED
      BY <1>2, <1>4, <1>6, <2>1, <2>3, <3>1
  <2> QED
    BY <2>2, <2>3
<1> QED
  BY <1>7, <1>9

\* The node's other steps with its own state.
LEMMA ObjectKeeps ==
  ASSUME TypeOK, InStep, NEW n \in Node,
         \/ \E s \in ServerState : SetState(n, s)
         \/ Report(n) \/ SetQuietly(n) \/ NodeLost(n) \/ NodeBack(n)
  PROVE  TypeOK' /\ InStep'
<1>1. ASSUME NEW s \in ServerState, SetState(n, s)
      PROVE  TypeOK' /\ InStep'
  BY <1>1, SendKeeps DEF SetState
<1>2. CASE Report(n)
  <2>1. state[n] \in ServerState /\ state' = [state EXCEPT ![n] = state[n]]
    BY <1>2 DEF Report, TypeOK
  <2> QED
    BY <1>2, <2>1, SendKeeps DEF Report
<1>3. CASE SetQuietly(n)
  <2>1. TypeOK'
    BY <1>3 DEF SetQuietly, TypeOK, ServerState, dbVars, cacheVars, Bound
  <2>2. InStep'
    BY <1>3 DEF SetQuietly, InStep, Locked, TypeOK
  <2> QED
    BY <2>1, <2>2
<1>4. CASE NodeLost(n)
  <2>1. /\ up' \in [Node -> BOOLEAN] /\ state' \in [Node -> ServerState]
        /\ noticed' \in [Node -> BOOLEAN] /\ fails' \in [Node -> 0 .. AsyncAfter]
    <3>1. /\ noticed' = [noticed EXCEPT ![n] = FALSE] /\ fails' = [fails EXCEPT ![n] = 0]
          /\ up' = [up EXCEPT ![n] = FALSE] /\ state' = [state EXCEPT ![n] = "Inactive"]
      BY <1>4 DEF NodeLost
    <3>2. noticed \in [Node -> BOOLEAN] /\ fails \in [Node -> 0 .. AsyncAfter]
          /\ up \in [Node -> BOOLEAN] /\ state \in [Node -> ServerState]
          /\ 0 \in 0 .. AsyncAfter
      BY StateSyncAssumption DEF TypeOK
    <3> QED
      BY <3>1, <3>2 DEF ServerState
  <2> DEFINE left == [c \in Slot |-> IF calls[n][c].stage \in {"ok", "error"} THEN NoCall
                                     ELSE [calls[n][c] EXCEPT !.owner = "none"]]
  <2>2. \A c \in Slot : left[c] \in Call /\ left[c].owner = "none"
    <3>1. \A c \in Slot : calls[n][c] \in Call
      BY DEF TypeOK
    <3> QED
      BY <3>1, Slots, CallChanged
  <2>3. calls' = [calls EXCEPT ![n] = left] /\ left \in [Slot -> Call]
    BY <1>4, <2>2 DEF NodeLost
  <2> HIDE DEF left
  <2>4. calls' \in CallType /\ calls'[n] = left
        /\ \A m \in Node : m # n => calls'[m] = calls[m]
    BY <2>3 DEF TypeOK, CallType
  <2>5. TypeOK'
    BY <1>4, <2>1, <2>4 DEF NodeLost, TypeOK, CallType, dbVars, cacheVars, Bound
  <2>6. \A m \in Node : m # n => up'[m] = up[m] /\ state'[m] = state[m]
    BY <1>4 DEF NodeLost, TypeOK
  <2>7. InStep'
    BY <2>2, <2>4, <2>6, Slots DEF InStep
  <2> QED
    BY <2>5, <2>7
<1>5. CASE NodeBack(n)
  <2>1. TypeOK'
    BY <1>5 DEF NodeBack, TypeOK, dbVars, cacheVars, Bound
  <2>2. \A m \in Node : m # n => up'[m] = up[m] /\ state'[m] = state[m]
    BY <1>5 DEF NodeBack, TypeOK
  <2>3. \A c \in Direct : calls[n][c].owner # "sync"
    BY <1>5 DEF NodeBack, InStep
  <2>4. InStep'
    BY <1>5, <2>2, <2>3 DEF NodeBack, InStep
  <2> QED
    BY <2>1, <2>4
<1> QED
  BY <1>1, <1>2, <1>3, <1>4, <1>5

\* The answer of a call of updateServer, or its end without one.
LEMMA AnswerKeeps ==
  ASSUME TypeOK, InStep, NEW n \in Node, NEW c \in Direct,
         SyncAnswer(n, c) \/ callback_updateServer(n, c) \/ CallFails(n, c)
  PROVE  TypeOK' /\ InStep'
<1>1. calls \in CallType /\ c \in Slot /\ calls[n][c] \in Call
  BY Slots DEF TypeOK, CallType
<1>2. UNCHANGED <<up, state, beat, dbVars, cacheVars, protect>>
  BY DEF SyncAnswer, callback_updateServer, CallFails
<1>3. Told(n) \/ NotTold(n)
  BY DEF SyncAnswer, callback_updateServer, CallFails, onUpdateServerResult
<1>4. noticed' \in [Node -> BOOLEAN] /\ fails' \in [Node -> 0 .. AsyncAfter]
  BY <1>3, NoticesTyped
<1>5. faults' \in 0 .. Bound'
  <2>1. Fault \/ NoFault
    BY DEF SyncAnswer, callback_updateServer, CallFails, NoFault
  <2> QED
    BY <1>2, <2>1, FaultTyped DEF TypeOK
<1>6. PICK k \in Call : k.owner = "none" /\ Replace(n, c, k)
  <2>1. CASE Free(n, c)
    BY <2>1, Slots DEF Free, Replace
  <2>2. CASE calls' = [calls EXCEPT ![n][c].owner = "none"]
    <3> DEFINE k == [calls[n][c] EXCEPT !.owner = "none"]
    <3>1. k \in Call /\ k.owner = "none"
      BY <1>1 DEF Call
    <3>2. Replace(n, c, k)
      BY <2>2 DEF Replace
    <3> QED
      BY <3>1, <3>2
  <2> QED
    BY <2>1, <2>2 DEF SyncAnswer, callback_updateServer, CallFails
<1>7. /\ calls' \in CallType /\ calls'[n][c] = k
      /\ \A m \in Node, d \in Slot : m # n \/ d # c => calls'[m][d] = calls[m][d]
  BY <1>1, <1>6, CallReplaced
<1>8. TypeOK'
  BY <1>2, <1>4, <1>5, <1>7 DEF TypeOK, CallType, dbVars, cacheVars
<1>9. \A m \in Node, d \in Direct : calls'[m][d].owner = "sync" =>
         calls[m][d].owner = "sync" /\ calls'[m][d].st = calls[m][d].st
  BY <1>6, <1>7, Slots
<1> QED
  BY <1>2, <1>8, <1>9, StaysInStep

\* The batch of the keep-alive thread, and its heartbeats.
LEMMA KeepAliveKeeps ==
  ASSUME TypeOK, InStep, NEW n \in Node,
         synStat(n) \/ synStatFails(n) \/ reportAlive(n)
  PROVE  TypeOK' /\ InStep'
<1>1. CASE synStat(n) \/ synStatFails(n)
  <2>1. UNCHANGED <<nodeVars, beat, dbVars, cacheVars, protect>>
    BY <1>1 DEF synStat, synStatFails
  <2>2. PICK k \in Call : Replace(n, "batch", k)
    <3>1. [stage |-> "sent", st |-> state[n], owner |-> "none"] \in Call
      BY DEF TypeOK, Call
    <3> QED
      BY <1>1, <3>1, Slots DEF synStat, synStatFails, Free, Replace
  <2>3. /\ calls' \in CallType
        /\ \A m \in Node, d \in Slot : m # n \/ d # "batch" => calls'[m][d] = calls[m][d]
    BY <2>2, CallReplaced, Slots DEF TypeOK, CallType
  <2>4. faults' \in 0 .. Bound'
    <3>1. Fault \/ NoFault
      BY <1>1 DEF synStat, synStatFails, NoFault
    <3> QED
      BY <2>1, <3>1, FaultTyped DEF TypeOK
  <2>5. TypeOK'
    BY <2>1, <2>3, <2>4 DEF TypeOK, CallType, nodeVars, dbVars, cacheVars
  <2>6. \A m \in Node, d \in Direct : calls'[m][d] = calls[m][d]
    BY <2>3, Slots
  <2> QED
    BY <2>1, <2>5, <2>6, StaysInStep DEF nodeVars
<1>2. CASE reportAlive(n)
  <2>1. UNCHANGED <<nodeVars, calls, dbVars, cacheVars, protect, faults>>
        /\ beat' = [beat EXCEPT ![n] = TRUE]
    BY <1>2 DEF reportAlive
  <2>2. TypeOK'
    BY <2>1 DEF TypeOK, nodeVars, dbVars, cacheVars, Bound
  <2> QED
    BY <2>1, <2>2, StaysInStep DEF nodeVars
<1> QED
  BY <1>1, <1>2

\* The registry's handlers of reports.
LEMMA FilterKeeps ==
  ASSUME TypeOK, InStep, NEW n \in Node, FilterBatch(n)
  PROVE  TypeOK' /\ InStep'
<1>1. Moves(n, "batch") \/ Ends(n, "batch")
  BY DEF FilterBatch, Moves, Ends
<1>2. /\ calls' \in CallType
      /\ \A m \in Node, d \in Direct : calls'[m][d].owner = "sync" =>
           calls[m][d].owner = "sync" /\ calls'[m][d].st = calls[m][d].st
  BY <1>1, CallMoves, Slots DEF TypeOK, CallType
<1>3. UNCHANGED <<nodeVars, beat, dbVars, cacheVars, protect, faults>>
  BY DEF FilterBatch
<1>4. TypeOK'
  BY <1>2, <1>3 DEF TypeOK, CallType, nodeVars, dbVars, cacheVars, Bound
<1> QED
  BY <1>2, <1>3, <1>4, StaysInStep DEF nodeVars

LEMMA WriteKeeps ==
  ASSUME TypeOK, InStep, NEW n \in Node, NEW c \in Slot,
         WriteDirect(n, c) \/ (c = "batch" /\ WriteBatch(n))
  PROVE  TypeOK' /\ InStep'
<1>1. Moves(n, c) \/ Ends(n, c)
  <2>1. CASE WriteDirect(n, c)
    BY <2>1 DEF WriteDirect, Moves, Ends
  <2>2. CASE c = "batch" /\ WriteBatch(n)
    BY <2>2 DEF WriteBatch, Moves, Ends
  <2> QED
    BY <2>1, <2>2
<1>2. /\ calls' \in CallType
      /\ \A m \in Node, d \in Direct : calls'[m][d].owner = "sync" =>
           calls[m][d].owner = "sync" /\ calls'[m][d].st = calls[m][d].st
  BY <1>1, CallMoves DEF TypeOK, CallType
<1>3. /\ UNCHANGED <<nodeVars, beat, node, enabled, cacheVars, protect>>
      /\ Fault \/ NoFault
      /\ WritePresent(n, calls[n][c].st) \/ UNCHANGED <<present, touched>>
  BY DEF WriteDirect, WriteBatch
<1>4. /\ present' \in [Node -> ServerState \cup {"Gone"}]
      /\ touched' \in [Node -> 0 .. Window]
  <2>1. calls[n][c].st \in ServerState
    BY DEF TypeOK, Call
  <2>2. CASE WritePresent(n, calls[n][c].st)
    BY <2>1, <2>2, WriteTyped
  <2>3. CASE UNCHANGED <<present, touched>>
    BY <2>3 DEF TypeOK
  <2> QED
    BY <1>3, <2>2, <2>3
<1>5. faults' \in 0 .. Bound'
  BY <1>3, FaultTyped DEF TypeOK
<1>6. TypeOK'
  BY <1>2, <1>3, <1>4, <1>5 DEF TypeOK, CallType, nodeVars, cacheVars
<1> QED
  BY <1>2, <1>3, <1>6, StaysInStep DEF nodeVars

LEMMA StatusKeeps ==
  ASSUME TypeOK, InStep, NEW n \in Node, NEW c \in Slot, WriteStatus(n, c)
  PROVE  TypeOK' /\ InStep'
<1>1. Moves(n, c) \/ Ends(n, c)
  BY DEF WriteStatus, Moves, Ends
<1>2. /\ calls' \in CallType
      /\ \A m \in Node, d \in Direct : calls'[m][d].owner = "sync" =>
           calls[m][d].owner = "sync" /\ calls'[m][d].st = calls[m][d].st
  BY <1>1, CallMoves DEF TypeOK, CallType
<1>3. UNCHANGED <<nodeVars, beat, dbVars, objects, load, sinceFull, booted, protect, faults>>
  BY DEF WriteStatus
<1>4. status' \in [Node -> Listing]
  BY DEF WriteStatus, TypeOK, Call, Listing
<1>5. TypeOK'
  BY <1>2, <1>3, <1>4 DEF TypeOK, CallType, nodeVars, dbVars, Bound
<1> QED
  BY <1>2, <1>3, <1>5, StaysInStep DEF nodeVars

-----------------------------------------------------------------------------
\* What leaves the node and the calls alone concerns the types only.
LEMMA ElsewhereKeeps ==
  ASSUME InStep, UNCHANGED <<nodeVars, calls>>
  PROVE  InStep'
BY DEF InStep, nodeVars

LEMMA NodeRowsKeep ==
  ASSUME TypeOK, InStep,
         \/ \E n \in Node : registerNode(n) \/ keepAlive(n) \/ HeartbeatAges(n)
         \/ checkNodeTimeout
  PROVE  TypeOK' /\ InStep'
<1> DEFINE Rows == [Node -> [present : ServerState, fresh : BOOLEAN]]
<1>1. CASE \E n \in Node : registerNode(n) \/ keepAlive(n) \/ HeartbeatAges(n)
  <2>1. PICK n \in Node : registerNode(n) \/ keepAlive(n) \/ HeartbeatAges(n)
    BY <1>1
  <2>2. UNCHANGED <<nodeVars, calls, present, enabled, touched, cacheVars, protect>>
    BY <2>1 DEF registerNode, keepAlive, HeartbeatAges
  <2>3. node' \in Rows
    <3>1. PICK row \in [present : ServerState, fresh : BOOLEAN] :
             node' = [node EXCEPT ![n] = row]
      <4>1. node \in Rows
        BY DEF TypeOK
      <4>2. CASE MarkActive(n)
        BY <4>2 DEF MarkActive, ServerState
      <4>3. CASE UNCHANGED node
        BY <4>1, <4>3
      <4>4. CASE HeartbeatAges(n)
        BY <4>1, <4>4 DEF HeartbeatAges
      <4> QED
        BY <2>1, <4>2, <4>3, <4>4 DEF registerNode, keepAlive
    <3> QED
      BY <3>1 DEF TypeOK
  <2>4. beat' \in [Node -> BOOLEAN]
    BY <2>1 DEF registerNode, keepAlive, HeartbeatAges, TypeOK
  <2>5. faults' \in 0 .. Bound'
    <3>1. Fault \/ NoFault
      BY <2>1 DEF registerNode, keepAlive, HeartbeatAges, NoFault
    <3> QED
      BY <2>2, <3>1, FaultTyped DEF TypeOK
  <2>6. TypeOK'
    BY <2>2, <2>3, <2>4, <2>5 DEF TypeOK, nodeVars, cacheVars
  <2> QED
    BY <2>2, <2>6, ElsewhereKeeps
<1>2. CASE checkNodeTimeout
  <2>1. UNCHANGED <<nodeVars, calls, beat, enabled, cacheVars, protect, faults>>
    BY <1>2 DEF checkNodeTimeout
  <2>2. node' \in Rows /\ present' \in [Node -> ServerState \cup {"Gone"}]
    BY <1>2 DEF checkNodeTimeout, TypeOK, ServerState
  <2>3. touched' \in [Node -> 0 .. Window]
    <3> DEFINE Times == 0 .. Window
    <3>1. Window \in Times /\ touched \in [Node -> Times]
      BY StateSyncAssumption DEF TypeOK
    <3> HIDE DEF Times
    <3>2. touched' = [n \in Node |-> IF present'[n] # present[n] THEN Window ELSE touched[n]]
      BY <1>2 DEF checkNodeTimeout
    <3>3. touched' \in [Node -> Times]
      BY <3>1, <3>2
    <3> QED
      BY <3>3 DEF Times
  <2>4. TypeOK'
    BY <2>1, <2>2, <2>3 DEF TypeOK, nodeVars, cacheVars, Bound
  <2> QED
    BY <2>1, <2>4, ElsewhereKeeps
<1> QED
  BY <1>1, <1>2

-----------------------------------------------------------------------------
\* What a load reads is a listing of every node.
LEMMA Listings ==
  ASSUME TypeOK, NEW full \in BOOLEAN
  PROVE  Selected(full) \in [Node -> Listing] /\ NoLoad.rows \in [Node -> Listing]
<1>1. NoLoad.rows = [n \in Node |-> "None"]
  BY DEF NoLoad
<1>2. \A n \in Node : Listed(n) \in Listing
  BY DEF Listed, Listing, ServerState
<1> QED
  BY <1>1, <1>2 DEF Selected, Listing

LEMMA LoadReadKeeps ==
  ASSUME TypeOK, InStep, LoadRead
  PROVE  TypeOK' /\ InStep'
<1> DEFINE full == ~booted \/ sinceFull = FullEvery - 1
<1>1. /\ UNCHANGED <<nodeVars, calls, beat, node, present, enabled, status, objects,
                     booted, protect>>
      /\ Fault \/ NoFault
      /\ sinceFull' = IF full THEN 0 ELSE sinceFull + 1
      /\ touched' = [n \in Node |-> IF touched[n] > 0 THEN touched[n] - 1 ELSE 0]
      /\ \/ load' = [stage |-> "read", full |-> full, rows |-> Selected(full)]
         \/ UNCHANGED load
  BY DEF LoadRead
<1>2. sinceFull' \in 0 .. FullEvery - 1
  BY <1>1, StateSyncAssumption DEF TypeOK
<1>3. touched' \in [Node -> 0 .. Window]
  <2>1. \A n \in Node : touched[n] \in 0 .. Window
    BY DEF TypeOK
  <2>2. \A n \in Node :
          (IF touched[n] > 0 THEN touched[n] - 1 ELSE 0) \in 0 .. Window
    BY <2>1, StateSyncAssumption
  <2> QED
    BY <1>1, <2>2
<1>4. load' \in [stage : {"idle", "read"}, rows : [Node -> Listing], full : BOOLEAN]
  <2>1. full \in BOOLEAN
    OBVIOUS
  <2>2. Selected(full) \in [Node -> Listing]
    BY <2>1, Listings
  <2> HIDE DEF full
  <2> QED
    BY <1>1, <2>1, <2>2 DEF TypeOK
<1>5. faults' \in 0 .. Bound'
  BY <1>1, FaultTyped DEF TypeOK
<1>6. TypeOK'
  BY <1>1, <1>2, <1>3, <1>4, <1>5 DEF TypeOK, nodeVars
<1> QED
  BY <1>1, <1>6, ElsewhereKeeps

LEMMA LoadEndKeeps ==
  ASSUME TypeOK, InStep, LoadProtected \/ LoadInstall
  PROVE  TypeOK' /\ InStep'
<1>1. /\ UNCHANGED <<nodeVars, calls, beat, dbVars, sinceFull, protect, faults>>
      /\ load' = NoLoad /\ booted' = TRUE
  BY DEF LoadProtected, LoadInstall
<1>2. load.rows \in [Node -> Listing]
  BY DEF TypeOK
<1>3. objects' \in [Node -> Listing] /\ status' \in [Node -> Listing]
  BY <1>2 DEF LoadProtected, LoadInstall, Installed, Merged, TypeOK
<1>4. load' \in [stage : {"idle", "read"}, rows : [Node -> Listing], full : BOOLEAN]
  BY <1>1 DEF NoLoad, Listing
<1>5. TypeOK'
  BY <1>1, <1>3, <1>4 DEF TypeOK, nodeVars, dbVars, Bound
<1> QED
  BY <1>1, <1>5, ElsewhereKeeps

\* A restart loses what the registry was at, and not what nodes wait for.
LEMMA RestartKeeps ==
  ASSUME TypeOK, InStep, Restart
  PROVE  TypeOK' /\ InStep'
<1>1. /\ UNCHANGED <<nodeVars, dbVars, protect>> /\ Fault
      /\ booted' = FALSE /\ load' = NoLoad /\ sinceFull' = 0
      /\ status' = NoLoad.rows /\ objects' = NoLoad.rows
      /\ beat' = [n \in Node |-> FALSE]
  BY DEF Restart
<1> DEFINE left(n, c) == IF calls[n][c].owner = "none" THEN NoCall
                         ELSE [calls[n][c] EXCEPT !.stage = "sent"]
<1>2. ASSUME NEW n \in Node, NEW c \in Slot
      PROVE  /\ left(n, c) \in Call
             /\ left(n, c).owner = "sync" =>
                  calls[n][c].owner = "sync" /\ left(n, c).st = calls[n][c].st
  <2>1. calls[n][c] \in Call
    BY DEF TypeOK
  <2> QED
    BY <2>1, Slots, CallChanged
<1>3. calls' = [n \in Node |-> [c \in Slot |-> left(n, c)]]
  BY DEF Restart
<1> HIDE DEF left
<1>4. calls' \in CallType
  BY <1>2, <1>3 DEF CallType
<1>5. \A n \in Node, c \in Direct : calls'[n][c].owner = "sync" =>
         calls[n][c].owner = "sync" /\ calls'[n][c].st = calls[n][c].st
  BY <1>2, <1>3, Slots
<1>6. faults' \in 0 .. Bound'
  BY <1>1, FaultTyped DEF TypeOK
<1>7. /\ load' \in [stage : {"idle", "read"}, rows : [Node -> Listing], full : BOOLEAN]
      /\ status' \in [Node -> Listing] /\ objects' \in [Node -> Listing]
      /\ sinceFull' \in 0 .. FullEvery - 1
  BY <1>1, StateSyncAssumption DEF NoLoad, Listing
<1>8. TypeOK'
  BY <1>1, <1>4, <1>6, <1>7 DEF TypeOK, CallType, nodeVars, dbVars
<1> QED
  BY <1>1, <1>5, <1>8, StaysInStep DEF nodeVars

\* The operators change rows only.
LEMMA OperatorKeeps ==
  ASSUME TypeOK, InStep, NEW n \in Node, Configure(n) \/ Uninstall(n)
  PROVE  TypeOK' /\ InStep'
<1>1. UNCHANGED <<nodeVars, calls, beat, node, cacheVars, protect>> /\ Fault
  BY DEF Configure, Uninstall
<1>2. enabled' \in [Node -> BOOLEAN] /\ present' \in [Node -> ServerState \cup {"Gone"}]
  BY DEF Configure, Uninstall, TypeOK
<1> DEFINE Times == 0 .. Window
<1>3. Window \in Times /\ touched \in [Node -> Times]
  BY StateSyncAssumption DEF TypeOK
<1> HIDE DEF Times
<1>4. touched' \in [Node -> Times]
  BY <1>3 DEF Configure, Uninstall
<1>5. faults' \in 0 .. Bound'
  BY <1>1, FaultTyped DEF TypeOK
<1>6. TypeOK'
  BY <1>1, <1>2, <1>4, <1>5 DEF TypeOK, nodeVars, cacheVars, Times
<1> QED
  BY <1>1, <1>6, ElsewhereKeeps

-----------------------------------------------------------------------------
LEMMA InitSynced ==
  ASSUME Init
  PROVE  TypeOK /\ InStep
<1>1. TypeOK
  <2>1. calls \in [Node -> [Slot -> Call]]
    BY Slots DEF Init
  <2>2. load \in [stage : {"idle", "read"}, rows : [Node -> Listing], full : BOOLEAN]
    BY DEF Init, NoLoad, Listing
  <2>3. 0 \in 0 .. AsyncAfter /\ 0 \in 0 .. Window /\ 0 \in 0 .. FullEvery - 1
        /\ faults \in 0 .. Bound
    BY Slots, StateSyncAssumption DEF Init
  <2>4. /\ fails \in [Node -> 0 .. AsyncAfter] /\ touched \in [Node -> 0 .. Window]
        /\ sinceFull \in 0 .. FullEvery - 1
    BY <2>3 DEF Init
  <2> QED
    BY <2>1, <2>2, <2>3, <2>4 DEF Init, TypeOK, ServerState, Listing
<1>2. InStep
  BY Slots DEF Init, InStep
<1> QED
  BY <1>1, <1>2

LEMMA StepSynced ==
  ASSUME TypeOK, InStep, [Next]_vars
  PROVE  TypeOK' /\ InStep'
<1>1. CASE UNCHANGED vars
  BY <1>1 DEF TypeOK, InStep, vars, nodeVars, dbVars, cacheVars, Bound
<1>2. ASSUME NEW n \in Node,
             \/ \E s \in ServerState : SetState(n, s)
             \/ Report(n) \/ SetQuietly(n) \/ NodeLost(n) \/ NodeBack(n)
      PROVE  TypeOK' /\ InStep'
  BY <1>2, ObjectKeeps
<1>3. ASSUME NEW n \in Node, NEW c \in Direct,
             SyncAnswer(n, c) \/ callback_updateServer(n, c) \/ CallFails(n, c)
      PROVE  TypeOK' /\ InStep'
  BY <1>3, AnswerKeeps
<1>4. ASSUME NEW n \in Node, synStat(n) \/ synStatFails(n) \/ reportAlive(n)
      PROVE  TypeOK' /\ InStep'
  BY <1>4, KeepAliveKeeps
<1>5. ASSUME NEW n \in Node, FilterBatch(n) \/ WriteBatch(n)
      PROVE  TypeOK' /\ InStep'
  BY <1>5, FilterKeeps, WriteKeeps, Slots
<1>6. ASSUME NEW n \in Node, NEW c \in Slot,
             (c \in Direct /\ WriteDirect(n, c)) \/ WriteStatus(n, c)
      PROVE  TypeOK' /\ InStep'
  BY <1>6, WriteKeeps, StatusKeeps
<1>7. ASSUME \/ \E n \in Node : registerNode(n) \/ keepAlive(n) \/ HeartbeatAges(n)
             \/ checkNodeTimeout
      PROVE  TypeOK' /\ InStep'
  BY <1>7, NodeRowsKeep
<1>8. ASSUME LoadRead \/ LoadProtected \/ LoadInstall \/ Restart
      PROVE  TypeOK' /\ InStep'
  BY <1>8, LoadReadKeeps, LoadEndKeeps, RestartKeeps
<1>9. ASSUME NEW n \in Node, Configure(n) \/ Uninstall(n)
      PROVE  TypeOK' /\ InStep'
  BY <1>9, OperatorKeeps
<1>10. CASE Next
  BY <1>2, <1>3, <1>4, <1>5, <1>6, <1>7, <1>8, <1>9, <1>10, Slots, Zenon DEF Next
<1> QED
  BY <1>1, <1>10

(***************************************************************************)
(* Whatever is lost, restarted or changed by an operator, the state a      *)
(* synchronous updateServer reports is the server's state until the answer *)
(* sets _noticed, and there is one such call at a time (ServerObject's     *)
(* synState under its lock).                                               *)
(***************************************************************************)
THEOREM ReportsInStep == Spec => []SyncInv
<1>1. Init => TypeOK /\ InStep
  BY InitSynced
<1>2. TypeOK /\ InStep /\ [Next]_vars => TypeOK' /\ InStep'
  BY StepSynced
<1>3. TypeOK /\ InStep => SyncInv
  BY DEF SyncInv, InStep
<1> QED
  BY <1>1, <1>2, <1>3, PTL DEF Spec
=============================================================================
