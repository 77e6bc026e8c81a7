----------------------------- MODULE RouteCache -----------------------------
(***************************************************************************)
(* The lists of tarsregistry as CDbHandle keeps them: each in two buffers, *)
(* one for readers and one for the writer, of which an index tells which   *)
(* is which.  ReapThread fills the writer's buffer bit by bit and swaps;   *)
(* QueryImp's threads take a reference to the readers' buffer, without a   *)
(* lock, and go on reading from it for as long as they need.  Nothing      *)
(* waits for them: the next load may write to a buffer that a query which  *)
(* began before the last swap still reads from.  Such a query is spoiled:  *)
(* it iterates over a map that is being changed, and may answer anything.  *)
(***************************************************************************)
EXTENDS EndpointQuery, FiniteSets

CONSTANTS
  Servant, Lists, Client, Home, Star, HomeSet, Station,
  Host,        \* the addresses of endpoints
  Contents,    \* what the tables of the database may hold at first
  MaxChanges,  \* bound: changes made to them later
  MaxLoads     \* bound: loads

Groups     == "groups"
Priorities == "priorities"
Objects    == "objects"
Divisions  == "divisions"

ASSUME RouteCacheAssumption ==
  /\ Lists = {Groups, Priorities, Objects, Divisions}
  /\ Home \in DOMAIN Star /\ Host \subseteq DOMAIN Star
  /\ \A content \in Contents :
       /\ DOMAIN content = {"rules", "priorities", "rows"}
       /\ content.priorities \in Seq([station : STRING, groups : SUBSET Int])
  /\ Valid(HomeSet) /\ MaxChanges \in Nat /\ MaxLoads \in Nat

VARIABLES
  db,      \* the rows: group rules, station lists, adapters with their server
  load,    \* ReapThread: how far it is, all of the servants or those changed
  read,    \* what it has read for each list
  buffer,  \* the two buffers of each list
  current, \* which of them readers use
  query,   \* by client: what it asks, how far it is, which buffers it holds
  changes, loads

vars == <<db, load, read, buffer, current, query, changes, loads>>
loaderVars == <<db, load, read, buffer, current, changes, loads>>

NoRef == 2
NoQuery == [kind |-> "none", servant |-> "none", group |-> Ungrouped,
            ref |-> [l \in Lists |-> NoRef], answer |-> {}]
Idle == [stage |-> "idle", full |-> FALSE, servants |-> {}]

-----------------------------------------------------------------------------
Listed(rows, rules) == [s \in Servant |-> Endpoints(rows[s], rules, Star)]
DividedOf(objects) == [s \in Servant |-> Divided(objects[s])]

Table(l) == buffer[l][current[l]]
Empty(l) == IF l = Groups THEN [x \in {} |-> Ungrouped]
            ELSE IF l = Priorities THEN <<>> ELSE [s \in Servant |-> {}]

Init ==
  /\ db \in Contents
  /\ read = LET objects == Listed(db.rows, db.rules)
            IN  [l \in Lists |-> IF l = Groups THEN db.rules
                                 ELSE IF l = Priorities THEN db.priorities
                                 ELSE IF l = Objects THEN objects ELSE DividedOf(objects)]
  /\ buffer = [l \in Lists |-> [i \in 0 .. 1 |-> IF i = 1 THEN read[l] ELSE Empty(l)]]
  /\ current = [l \in Lists |-> 1]
  /\ load = Idle
  /\ query = [c \in Client |-> NoQuery]
  /\ changes = 0 /\ loads = 0

\* An operator moves a host to another group, or a server stops or starts.
Change ==
  /\ changes < MaxChanges /\ changes' = changes + 1
  /\ \/ \E x \in DOMAIN db.rules : db' = [db EXCEPT !.rules[x] = 3 - @]
     \/ \E s \in Servant : \E r \in db.rows[s] :
          db' = [db EXCEPT !.rows[s] = (@ \ {r}) \cup {[r EXCEPT !.active = ~@]}]
  /\ UNCHANGED <<load, read, buffer, current, query, loads>>

-----------------------------------------------------------------------------
(***************************************************************************)
(* ReapThread: loadObjectIdCache                                           *)
(***************************************************************************)
Unseen == UNCHANGED <<db, query, changes>>

Begin ==
  /\ load = Idle /\ loads < MaxLoads /\ loads' = loads + 1
  /\ \E full \in BOOLEAN, changed \in SUBSET Servant :
       /\ full => changed = {}
       /\ load' = [stage |-> IF full THEN Groups ELSE "rows", full |-> full,
                   servants |-> IF full THEN Servant ELSE changed]
  /\ UNCHANGED <<read, buffer, current>> /\ Unseen

To(stage) == load' = [load EXCEPT !.stage = stage]

\* What is written to a buffer spoils the queries that hold it.
Spoiled(q) == [NoQuery EXCEPT !.kind = "spoiled", !.servant = q.servant]
Write(l, i, content) ==
  /\ buffer' = [buffer EXCEPT ![l][i] = content]
  /\ query' = [c \in Client |->
                 IF query[c].ref[l] = i THEN Spoiled(query[c]) ELSE query[c]]
  /\ UNCHANGED <<db, current, changes, loads>>

Clear_Wrong(l) == Write(l, current[l], Empty(l))

\* The writer's buffer is emptied and filled, and then the buffers are swapped.
Clear(l) == Write(l, 1 - current[l], Empty(l))
Fill(l, content) == Write(l, 1 - current[l], content)

Swap(l) == current' = [current EXCEPT ![l] = 1 - @] /\ UNCHANGED buffer

loadIPPhysicalGroupInfo ==
  \/ /\ load.stage = Groups
     /\ \/ Clear(Groups) /\ read' = [read EXCEPT ![Groups] = db.rules] /\ To("fill groups")
        \/ To(Priorities) /\ UNCHANGED <<read, buffer, current, loads>> /\ Unseen
  \/ /\ load.stage = "fill groups" /\ To("swap groups")
     /\ Fill(Groups, read[Groups]) /\ UNCHANGED read
  \/ /\ load.stage = "swap groups" /\ To(Priorities) /\ Swap(Groups)
     /\ UNCHANGED <<read, loads>> /\ Unseen

\* The writer's buffer is emptied even when the statement fails.
loadGroupPriority ==
  \/ /\ load.stage = Priorities
     /\ Clear(Priorities)
     /\ \/ read' = [read EXCEPT ![Priorities] = db.priorities] /\ To("fill priorities")
        \/ UNCHANGED read /\ To("rows")
  \/ /\ load.stage = "fill priorities" /\ To("swap priorities")
     /\ Fill(Priorities, read[Priorities]) /\ UNCHANGED read
  \/ /\ load.stage = "swap priorities" /\ To("rows") /\ Swap(Priorities)
     /\ UNCHANGED <<read, loads>> /\ Unseen

\* The statement fails, or too many nodes are inactive: the load is given up.
\* An incremental load knows nothing of a servant all of whose rows it skips.
loadObjects ==
  /\ load.stage = "rows"
  /\ LET objects == Listed(db.rows, Table(Groups))
     IN  \/ load' = Idle /\ UNCHANGED read
         \/ /\ read' = [read EXCEPT ![Objects] = objects, ![Divisions] = DividedOf(objects)]
            /\ load' = [load EXCEPT !.stage = Objects,
                          !.servants = {s \in @ : load.full \/ objects[s] # {}}]
  /\ UNCHANGED <<buffer, current, loads>> /\ Unseen

\* An incremental load begins with a copy of what readers use.
Merge(l) == [s \in Servant |-> IF s \in load.servants THEN read[l][s] ELSE Table(l)[s]]

updateCache(l, swap, next) ==
  \/ /\ load.stage = l /\ To(swap)
     /\ Fill(l, Merge(l)) /\ UNCHANGED read
  \/ /\ load.stage = swap
     /\ IF next = "idle" THEN load' = Idle ELSE To(next)
     /\ Swap(l)
     /\ UNCHANGED <<read, loads>> /\ Unseen

updateObjectsCache  == updateCache(Objects, "swap objects", Divisions)
updateDivisionCache == updateCache(Divisions, "swap divisions", "idle")

-----------------------------------------------------------------------------
(***************************************************************************)
(* QueryImp: one query of a client at a time                               *)
(***************************************************************************)
Querying == UNCHANGED loaderVars

Ask(c) ==
  /\ query[c] = NoQuery
  /\ \E k \in {"all", "group", "station", "set"}, s \in Servant :
       query' = [query EXCEPT ![c] = [NoQuery EXCEPT !.kind = k, !.servant = s]]
  /\ Querying

\* The references a query takes, in order.
Held(q, l) == q.ref[l] # NoRef
Take(c, l) == /\ ~Held(query[c], l)
              /\ query' = [query EXCEPT ![c] = [query[c] EXCEPT !.ref[l] = current[l]]]
              /\ Querying

Looked(q, l) == buffer[l][q.ref[l]]

getGroupId(c) ==
  /\ query[c].kind = "group"
  /\ \/ Take(c, Groups)
     \/ /\ Held(query[c], Groups)
        /\ query' = [query EXCEPT ![c] =
                       [query[c] EXCEPT !.kind = "grouped", !.ref[Groups] = NoRef,
                          !.group = GroupOf(Looked(query[c], Groups), Star, Home)]]
        /\ Querying

findObjectById4All(c) ==
  /\ query[c].kind \in {"all", "grouped"}
  /\ Take(c, Objects)

findObjectByIdInGroupPriority(c) ==
  /\ query[c].kind = "grouped" /\ query[c].group # Ungrouped /\ Held(query[c], Objects)
  /\ Take(c, Priorities)

findObjectByIdInSameStation(c) ==
  /\ query[c].kind = "station"
  /\ \/ Take(c, Priorities)
     \/ /\ Held(query[c], Priorities)
        /\ StationKnown(Looked(query[c], Priorities), Station)
        /\ Take(c, Objects)

findObjectByIdInSameSet(c) ==
  /\ query[c].kind = "set"
  /\ \/ Take(c, Divisions)
     \/ /\ Held(query[c], Divisions)
        /\ ~UsesSet(Looked(query[c], Divisions)[query[c].servant], HomeSet[1])
        /\ query' = [query EXCEPT ![c] = [query[c] EXCEPT !.kind = "group",
                                                         !.ref[Divisions] = NoRef]]
        /\ Querying

Ready(q) ==
  CASE q.kind = "all"     -> Held(q, Objects)
    [] q.kind = "grouped" -> Held(q, Objects) /\ (q.group = Ungrouped \/ Held(q, Priorities))
    [] q.kind = "station" -> /\ Held(q, Priorities)
                             /\ StationKnown(Looked(q, Priorities), Station) => Held(q, Objects)
    [] q.kind = "set"     -> Held(q, Divisions)
                             /\ UsesSet(Looked(q, Divisions)[q.servant], HomeSet[1])
    [] OTHER              -> FALSE

AnswerTo(q) ==
  LET eps == Looked(q, Objects)[q.servant]
  IN  CASE q.kind = "all"     -> eps
        [] q.kind = "grouped" -> IF q.group = Ungrouped THEN eps
                                 ELSE InGroupPriority(eps, q.group, Looked(q, Priorities))
        [] q.kind = "station" -> IF StationKnown(Looked(q, Priorities), Station)
                                 THEN InSameStation(eps, Station, Looked(q, Priorities))
                                 ELSE {}
        [] q.kind = "set"     -> InSameSet(Looked(q, Divisions)[q.servant], HomeSet)

Answer(c) ==
  /\ Ready(query[c])
  /\ query' = [query EXCEPT ![c] = [NoQuery EXCEPT !.answer = AnswerTo(query[c])]]
  /\ Querying

\* A spoiled query ends somehow; what it answered is not kept.
Leave(c) ==
  /\ query[c].answer # {} \/ query[c].kind = "spoiled"
  /\ query' = [query EXCEPT ![c] = NoQuery]
  /\ Querying

Next ==
  \/ Change \/ Begin
  \/ loadIPPhysicalGroupInfo \/ loadGroupPriority \/ loadObjects
  \/ updateObjectsCache \/ updateDivisionCache
  \/ \E c \in Client :
       \/ Ask(c) \/ getGroupId(c) \/ findObjectById4All(c)
       \/ findObjectByIdInGroupPriority(c) \/ findObjectByIdInSameStation(c)
       \/ findObjectByIdInSameSet(c) \/ Answer(c) \/ Leave(c)

Spec == Init /\ [][Next]_vars

-----------------------------------------------------------------------------
\* What a query has seen of each list it holds a reference to, and which of them
\* have been replaced since.
SeenBy(q) ==
  [kind |-> q.kind, servant |-> q.servant, group |-> q.group, answer |-> q.answer,
   seen |-> [l \in Lists |-> IF Held(q, l) THEN {Looked(q, l)} ELSE {}],
   old |-> {l \in Lists : q.ref[l] = 1 - current[l]}]

Route == INSTANCE RouteTable WITH
  table <- [l \in Lists |-> Table(l)],
  query <- [c \in Client |-> SeenBy(query[c])]

\* Buffers, references and swaps implement lists that are replaced at once
\* and of which a query sees one version throughout; only a query that still
\* holds a list which has been replaced since it looked may be spoiled.
OneVersion == Route!Spec

\* Clients of a group are sent to the nearest active endpoints.
AnswersNearest == Route!AnswersNearest
=============================================================================
