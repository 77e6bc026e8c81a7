----------------------------- MODULE RouteTable -----------------------------
(***************************************************************************)
(* What the lists tarsregistry answers from promise to a query: each list  *)
(* is replaced at once, by all that a load has read, and a query sees one  *)
(* version of each list from the moment it first looks at it, unless it    *)
(* takes so long that one of them is replaced: then the next load may      *)
(* spoil it.  RouteCache implements this with two buffers and an index.    *)
(***************************************************************************)
EXTENDS EndpointQuery, FiniteSets

CONSTANTS
  Servant,
  Lists,     \* the lists: group rules, station lists, endpoints, divisions
  Client,    \* the handlers of the query adapter
  Home,      \* the address of the clients
  Star,      \* the network, as a rule names it, of each address
  HomeSet,   \* the division of a client that asks for one
  Station    \* the station of a client that asks for one

VARIABLES
  db,      \* the rows of the database
  read,    \* what the load in progress has read for each list
  table,   \* the lists queries are answered from
  query    \* by client: what it asks, how far it is, of each list it has looked
           \* at the version it saw, and which of them have been replaced since

vars == <<db, read, table, query>>

NoQuery == [kind |-> "none", servant |-> "none", group |-> Ungrouped,
            seen |-> [l \in Lists |-> {}], old |-> {}, answer |-> {}]

Groups     == "groups"
Priorities == "priorities"
Objects    == "objects"
Divisions  == "divisions"

\* A load replaces the endpoints of the servants it has read, or all of them.
Merge(old, new, servants) ==
  [s \in Servant |-> IF s \in servants THEN new[s] ELSE old[s]]

Installed(l, servants) ==
  IF l \in {Objects, Divisions} THEN Merge(table[l], read[l], servants)
  ELSE read[l]

\* What a load reads now; endpoints get their groups by the rules in use.
Loaded(l) ==
  LET objects == [s \in Servant |-> Endpoints(db.rows[s], table[Groups], Star)]
  IN  IF l = Groups THEN db.rules
      ELSE IF l = Priorities THEN db.priorities
      ELSE IF l = Objects THEN objects
      ELSE [s \in Servant |-> Divided(objects[s])]

Change == UNCHANGED <<read, table, query>>

\* A load is under way: it may spoil queries that hold a list replaced before.
Spoiled(q) == [NoQuery EXCEPT !.kind = "spoiled", !.servant = q.servant]

Load == /\ \E some \in SUBSET Lists :
             read' = [l \in Lists |-> IF l \in some THEN Loaded(l) ELSE read[l]]
        /\ \E late \in SUBSET {c \in Client : query[c].old # {}} :
             query' = [c \in Client |->
                         IF c \in late THEN Spoiled(query[c]) ELSE query[c]]
        /\ UNCHANGED <<db, table>>

Outdated(q, l) ==
  IF q.seen[l] = {} THEN q ELSE [q EXCEPT !.old = q.old \cup {l}]

Install(l) == \E servants \in SUBSET Servant :
  /\ table' = [table EXCEPT ![l] = Installed(l, servants)]
  /\ query' = [c \in Client |-> Outdated(query[c], l)]
  /\ UNCHANGED <<db, read>>

Ask(c) ==
  /\ query[c] = NoQuery
  /\ \E k \in {"all", "group", "station", "set"}, s \in Servant :
       query' = [query EXCEPT ![c] = [NoQuery EXCEPT !.kind = k, !.servant = s]]
  /\ UNCHANGED <<db, read, table>>

LookAt(c, l) ==
  /\ query[c].kind \notin {"none", "spoiled"} /\ query[c].seen[l] = {}
  /\ query' = [query EXCEPT ![c] = [query[c] EXCEPT !.seen[l] = {table[l]}]]
  /\ UNCHANGED <<db, read, table>>

Version(q, l) == CHOOSE v \in q.seen[l] : TRUE

\* The group rules are let go of when the group is known.
FindGroup(c) ==
  /\ query[c].kind = "group" /\ query[c].seen[Groups] # {}
  /\ query' = [query EXCEPT ![c] =
                 [query[c] EXCEPT !.kind = "grouped", !.seen[Groups] = {},
                    !.old = query[c].old \ {Groups},
                    !.group = GroupOf(Version(query[c], Groups), Star, Home)]]
  /\ UNCHANGED <<db, read, table>>

\* Not in any set, or the servant has none: ask again by group.
FallBack(c) ==
  /\ query[c].kind = "set"
  /\ query' = [query EXCEPT ![c] = [query[c] EXCEPT !.kind = "group", !.seen[Divisions] = {},
                                      !.old = query[c].old \ {Divisions}]]
  /\ UNCHANGED <<db, read, table>>

\* The lists an answer rests on; an unknown station has no endpoints.
Seen(q, l) == q.seen[l] # {}
Ready(q) ==
  CASE q.kind = "all"     -> Seen(q, Objects)
    [] q.kind = "grouped" -> Seen(q, Objects) /\ (q.group = Ungrouped \/ Seen(q, Priorities))
    [] q.kind = "station" -> /\ Seen(q, Priorities)
                             /\ Seen(q, Objects) \/ ~StationKnown(Version(q, Priorities), Station)
    [] q.kind = "set"     -> Seen(q, Divisions)
    [] OTHER              -> FALSE

AnswerTo(q) ==
  LET eps == Version(q, Objects)[q.servant]
  IN  CASE q.kind = "all"     -> eps
        [] q.kind = "grouped" -> IF q.group = Ungrouped THEN eps
                                 ELSE InGroupPriority(eps, q.group, Version(q, Priorities))
        [] q.kind = "station" -> IF StationKnown(Version(q, Priorities), Station)
                                 THEN InSameStation(eps, Station, Version(q, Priorities))
                                 ELSE {}
        [] q.kind = "set"     -> InSameSet(Version(q, Divisions)[q.servant], HomeSet)

Answer(c) ==
  /\ Ready(query[c])
  /\ query' = [query EXCEPT ![c] = [NoQuery EXCEPT !.answer = AnswerTo(query[c])]]
  /\ UNCHANGED <<db, read, table>>

Leave(c) ==
  /\ query' = [query EXCEPT ![c] = NoQuery]
  /\ UNCHANGED <<db, read, table>>

Next ==
  \/ Change \/ Load \/ \E l \in Lists : Install(l)
  \/ \E c \in Client : \/ Ask(c) \/ FindGroup(c) \/ FallBack(c) \/ Answer(c) \/ Leave(c)
                       \/ \E l \in Lists : LookAt(c, l)

Init ==
  /\ \A l \in Lists : table[l] = read[l]
  /\ query = [c \in Client |-> NoQuery]

Spec == Init /\ [][Next]_vars

\* A client of a group is given the active endpoints nearest to it: none is
\* left out, none is farther than another, and a servant with an active
\* endpoint is never answered with inactive ones alone.
NearestGiven ==
  \A c \in Client :
    (query[c].kind = "grouped" /\ query'[c].kind = "none") =>
      LET q == query[c]
          eps == Version(q, Objects)[q.servant]
      IN  IF q.group = Ungrouped THEN query'[c].answer = eps
          ELSE Active(query'[c].answer) = Nearest(eps, q.group, Version(q, Priorities))

AnswersNearest == [][NearestGiven]_vars
=============================================================================
