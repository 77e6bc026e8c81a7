---------------------------- MODULE RoutingProofs ---------------------------
(***************************************************************************)
(* RouteCache implements RouteTable, and the answers to clients of a group *)
(* are the nearest endpoints, for any servants, lists and clients.         *)
(***************************************************************************)
EXTENDS RouteCache, WellFoundedInduction, TLAPS

LEMMA FirstExists ==
  ASSUME NEW S \in SUBSET Nat, S # {}
  PROVE  \E i \in S : \A j \in S : i <= j
<1> DEFINE R == {pair \in Nat \X Nat : pair[1] < pair[2]}
<1>1. R = OpToRel(<, Nat)
  BY Zenon DEF OpToRel
<1>2. IsWellFoundedOn(R, Nat)
  BY <1>1, NatLessThanWellFounded, Zenon
<1>3. PICK i \in S : \A j \in S : ~(<<j, i>> \in R)
  BY <1>2, WFMin, Zenon
<1>4. ASSUME NEW j \in S PROVE i <= j
  <2>1. <<j, i>> \in Nat \X Nat /\ <<j, i>> \notin R
    BY <1>3
  <2>2. ~(<<j, i>>[1] < <<j, i>>[2])
    BY <2>1, Zenon
  <2>3. QED
    BY <2>2
<1>5. QED
  BY <1>4

(***************************************************************************)
(* The first stage with an active endpoint holds the nearest ones: an      *)
(* endpoint's rank is the first stage it is in.                            *)
(***************************************************************************)
LEMMA RankIsStage ==
  ASSUME NEW group, NEW lists, Len(lists) \in Nat, NEW eps, NEW e \in eps
  PROVE  LET stages == Stages(eps, group, lists)
         IN  /\ Rank(e, group, lists) \in 0 .. Len(lists) + 2
             /\ e \in stages[Rank(e, group, lists)]
             /\ \A i \in 0 .. Len(lists) + 2 : e \in stages[i] => Rank(e, group, lists) <= i
<1> DEFINE n  == Len(lists)
           in == {i \in 1 .. n : {group, e.work} \subseteq lists[i].groups}
           stages == Stages(eps, group, lists)
<1>1. ASSUME NEW i \in 0 .. n + 2
      PROVE  e \in stages[i] <=> \/ i = 0 /\ e.work = group
                                 \/ i \in in
                                 \/ i = n + 1 /\ e.work = Ungrouped
                                 \/ i = n + 2
  BY <1>1 DEF Stages, InGroups
<1>2. CASE e.work = group
  BY <1>1, <1>2 DEF Rank
<1>3. CASE e.work # group /\ in # {}
  <2>1. PICK i \in in : \A j \in in : i <= j
    <3>1. in \in SUBSET Nat
      OBVIOUS
    <3>2. QED
      BY <1>3, <3>1, FirstExists
  <2>2. /\ Rank(e, group, lists) \in in
        /\ \A j \in in : Rank(e, group, lists) <= j
    BY <1>3, <2>1 DEF Rank
  <2>3. QED
    BY <1>1, <1>3, <2>2
<1>4. CASE e.work # group /\ in = {}
  <2>1. Rank(e, group, lists) = IF e.work = Ungrouped THEN n + 1 ELSE n + 2
    BY <1>4 DEF Rank
  <2>2. QED
    BY <1>1, <1>4, <2>1
<1>5. QED
  BY <1>2, <1>3, <1>4

LEMMA NearestFound ==
  ASSUME NEW group, group # Ungrouped, NEW lists, Len(lists) \in Nat, NEW eps
  PROVE  Active(InGroupPriority(eps, group, lists)) = Nearest(eps, group, lists)
<1> DEFINE n == Len(lists)
           stages == Stages(eps, group, lists)
           found  == {i \in 0 .. n + 2 : Active(stages[i]) # {}}
           rank(e) == Rank(e, group, lists)
<1>1. DOMAIN stages = 0 .. n + 2
  BY DEF Stages
<1>2. \A i \in 0 .. n + 2 : Active(stages[i]) \subseteq Active(eps)
  BY DEF Stages, InGroups, Active
<1>3. \A e \in Active(eps) : /\ rank(e) \in found /\ e \in Active(stages[rank(e)])
                             /\ \A i \in 0 .. n + 2 : e \in stages[i] => rank(e) <= i
  <2> SUFFICES ASSUME NEW e \in Active(eps)
               PROVE  /\ rank(e) \in found /\ e \in Active(stages[rank(e)])
                      /\ \A i \in 0 .. n + 2 : e \in stages[i] => rank(e) <= i
    OBVIOUS
  <2>1. e \in eps /\ e.active
    BY DEF Active
  <2>2. /\ rank(e) \in 0 .. n + 2 /\ e \in stages[rank(e)]
        /\ \A i \in 0 .. n + 2 : e \in stages[i] => rank(e) <= i
    BY <2>1, RankIsStage
  <2>3. QED
    BY <2>1, <2>2 DEF Active
<1>4. CASE found = {}
  <2>1. InGroupPriority(eps, group, lists) = eps
    BY <1>1, <1>4 DEF InGroupPriority
  <2>2. Active(eps) = {}
    BY <1>3, <1>4
  <2>3. QED
    BY <2>1, <2>2 DEF Nearest
<1>5. CASE found # {}
  <2>1. PICK i \in found : \A j \in found : i <= j
    <3>1. found \in SUBSET Nat
      OBVIOUS
    <3>2. QED
      BY <1>5, <3>1, FirstExists
  <2> DEFINE first == CHOOSE k \in found : \A j \in found : k <= j
  <2>2. first \in found /\ \A j \in found : first <= j
    BY <2>1
  <2>3. InGroupPriority(eps, group, lists) = stages[first]
    BY <1>1, <1>5 DEF InGroupPriority
  <2> HIDE DEF first
  <2>4. \A e \in Active(stages[first]) : e \in Active(eps) /\ rank(e) = first
    <3> SUFFICES ASSUME NEW e \in Active(stages[first])
                 PROVE  e \in Active(eps) /\ rank(e) = first
      OBVIOUS
    <3>1. e \in Active(eps) /\ e \in stages[first]
      BY <1>2, <2>2 DEF Active
    <3>2. rank(e) \in found /\ rank(e) <= first /\ first <= rank(e)
      BY <1>3, <2>2, <3>1
    <3>3. QED
      BY <2>2, <3>1, <3>2
  <2>5. \A e \in Active(eps) : first <= rank(e) /\ (rank(e) = first => e \in Active(stages[first]))
    BY <1>3, <2>2
  <2>6. PICK near \in Active(stages[first]) : TRUE
    BY <2>2
  <2>7. \A e \in Active(eps) : rank(e) \in Nat
    BY <1>3
  <2>8. ASSUME NEW e \in Nearest(eps, group, lists)
        PROVE  e \in Active(stages[first])
    <3>1. e \in Active(eps) /\ rank(e) <= rank(near)
      BY <2>4, <2>6, <2>8 DEF Nearest
    <3>2. rank(e) = first
      BY <2>2, <2>4, <2>5, <2>6, <2>7, <3>1
    <3>3. QED
      BY <2>5, <3>1, <3>2
  <2>9. ASSUME NEW e \in Active(stages[first])
        PROVE  e \in Nearest(eps, group, lists)
    BY <2>4, <2>5 DEF Nearest
  <2>10. QED
    BY <2>3, <2>8, <2>9 DEF Nearest
<1>6. QED
  BY <1>4, <1>5

-----------------------------------------------------------------------------
(***************************************************************************)
(* The invariant: once ReapThread has begun to write to the writer's       *)
(* buffer of a list no query holds a reference to it that is not spoiled,  *)
(* and before the swap it holds what readers are to see.                   *)
(***************************************************************************)
Stage == {"idle", "rows", Groups, "fill groups", "swap groups",
          Priorities, "fill priorities", "swap priorities",
          Objects, "swap objects", Divisions, "swap divisions"}

Shape ==
  /\ load \in [stage : Stage, full : BOOLEAN, servants : SUBSET Servant]
  /\ read = [l \in Lists |-> read[l]]
  /\ buffer = [l \in Lists |-> [i \in 0 .. 1 |-> buffer[l][i]]]
  /\ current \in [Lists -> 0 .. 1]
  /\ query = [c \in Client |->
                [kind |-> query[c].kind, servant |-> query[c].servant,
                 group |-> query[c].group, ref |-> query[c].ref,
                 answer |-> query[c].answer]]
  /\ \A c \in Client : query[c].ref \in [Lists -> 0 .. 2]

Written(l) == buffer[l][1 - current[l]]

\* No query holds the writer's buffer of a list.
Quiet(l) == \A c \in Client : query[c].ref[l] # 1 - current[l]

Unread ==
  /\ load.stage \in {"fill groups", "swap groups"} => Quiet(Groups)
  /\ load.stage \in {"fill priorities", "swap priorities"} => Quiet(Priorities)
  /\ load.stage = "swap objects" => Quiet(Objects)
  /\ load.stage = "swap divisions" => Quiet(Divisions)

Filled ==
  /\ load.stage = "swap groups" => Written(Groups) = read[Groups]
  /\ load.stage = "swap priorities" => Written(Priorities) = read[Priorities]
  /\ load.stage = "swap objects" => Written(Objects) = Merge(Objects)
  /\ load.stage = "swap divisions" => Written(Divisions) = Merge(Divisions)

RouteInv == Shape /\ Unread /\ Filled

LEMMA ListNames ==
  /\ Lists = {Groups, Priorities, Objects, Divisions}
  /\ Groups # Priorities /\ Groups # Objects /\ Groups # Divisions
  /\ Priorities # Objects /\ Priorities # Divisions /\ Objects # Divisions
BY RouteCacheAssumption DEF RouteCacheAssumption, Groups, Priorities, Objects, Divisions

\* The fields of a query, and of what it has seen.
Query(q) == [kind |-> q.kind, servant |-> q.servant, group |-> q.group,
             ref |-> q.ref, answer |-> q.answer]
Looks(r) == [kind |-> r.kind, servant |-> r.servant, group |-> r.group,
             answer |-> r.answer, seen |-> r.seen, old |-> r.old]

IsQuery(q) == q = Query(q)
IsLooks(r) == r = Looks(r)

\* Some queries that hold a list replaced since they looked are spoiled.
SomeSpoiled ==
  \E late \in SUBSET {c \in Client : SeenBy(query[c]).old # {}} :
    [c \in Client |-> SeenBy(query[c])]'
      = [c \in Client |-> IF c \in late THEN Route!Spoiled(SeenBy(query[c]))
                          ELSE SeenBy(query[c])]

\* The shape that a write keeps.
WriteKeeps ==
  /\ buffer' = [k \in Lists |-> [i \in 0 .. 1 |-> buffer'[k][i]]]
  /\ query' = [c \in Client |-> Query(query'[c])]
  /\ \A c \in Client : query'[c].ref \in [Lists -> 0 .. 2]
  /\ current' = current

\* The updates of a query, and of what it has seen, and what they leave.
WithServant(q, kind, servant) ==
  [q EXCEPT !.kind = kind, !.servant = servant]
WithoutRef(q, kind, l, none) ==
  [q EXCEPT !.kind = kind, !.ref[l] = none]
WithGroup(q, kind, l, none, group) ==
  [q EXCEPT !.kind = kind, !.ref[l] = none, !.group = group]
WithoutSeen(r, kind, l, none, old) ==
  [r EXCEPT !.kind = kind, !.seen[l] = none, !.old = old]
GroupKnown(r, kind, l, none, old, group) ==
  [r EXCEPT !.kind = kind, !.seen[l] = none, !.old = old, !.group = group]

LEMMA AskHeld ==
  ASSUME NEW r, NEW x, NEW y, IsQuery(r)
  PROVE  WithServant(r, x, y)
           = [kind |-> x, servant |-> y, group |-> r.group,
              ref |-> r.ref, answer |-> r.answer]
<1>1. PICK a, b, g, f, w : /\ a = r.kind /\ b = r.servant /\ g = r.group
                           /\ f = r.ref /\ w = r.answer
  OBVIOUS
<1> DEFINE R(k, s) ==
             [kind |-> k, servant |-> s, group |-> g,
              ref |-> f, answer |-> w]
<1>2. /\ [R(a, b) EXCEPT !.kind = x]
             = R(x, b)
      /\ [R(x, b) EXCEPT !.servant = y]
             = R(x, y)
  OBVIOUS
<1>3. r = R(a, b)
  BY <1>1, Zenon DEF IsQuery, Query
<1>4. [r EXCEPT !.kind = x, !.servant = y] = R(x, y)
  BY <1>2, <1>3, Zenon
<1>5. QED
  BY <1>1, <1>4, Zenon DEF WithServant

LEMMA TakeHeld ==
  ASSUME NEW r, NEW l, NEW v, IsQuery(r)
  PROVE  [r EXCEPT !.ref[l] = v]
           = [kind |-> r.kind, servant |-> r.servant, group |-> r.group,
              ref |-> [r.ref EXCEPT ![l] = v], answer |-> r.answer]
<1>1. PICK a, b, g, f, w : /\ a = r.kind /\ b = r.servant /\ g = r.group
                           /\ f = r.ref /\ w = r.answer
  OBVIOUS
<1> DEFINE R(z) ==
             [kind |-> a, servant |-> b, group |-> g,
              ref |-> z, answer |-> w]
<1>2. /\ [R(f) EXCEPT !.ref[l] = v]
             = R([f EXCEPT ![l] = v])
  OBVIOUS
<1>3. r = R(f)
  BY <1>1, Zenon DEF IsQuery, Query
<1>4. [r EXCEPT !.ref[l] = v] = R([f EXCEPT ![l] = v])
  BY <1>2, <1>3, Zenon
<1>5. QED
  BY <1>1, <1>4, Zenon

LEMMA DropHeld ==
  ASSUME NEW r, NEW x, NEW l, NEW v, IsQuery(r)
  PROVE  WithoutRef(r, x, l, v)
           = [kind |-> x, servant |-> r.servant, group |-> r.group,
              ref |-> [r.ref EXCEPT ![l] = v], answer |-> r.answer]
<1>1. PICK a, b, g, f, w : /\ a = r.kind /\ b = r.servant /\ g = r.group
                           /\ f = r.ref /\ w = r.answer
  OBVIOUS
<1> DEFINE R(k, z) ==
             [kind |-> k, servant |-> b, group |-> g,
              ref |-> z, answer |-> w]
<1>2. /\ [R(a, f) EXCEPT !.kind = x]
             = R(x, f)
      /\ [R(x, f) EXCEPT !.ref[l] = v]
             = R(x, [f EXCEPT ![l] = v])
  OBVIOUS
<1>3. r = R(a, f)
  BY <1>1, Zenon DEF IsQuery, Query
<1>4. [r EXCEPT !.kind = x, !.ref[l] = v] = R(x, [f EXCEPT ![l] = v])
  BY <1>2, <1>3, Zenon
<1>5. QED
  BY <1>1, <1>4, Zenon DEF WithoutRef

LEMMA GroupHeld ==
  ASSUME NEW r, NEW x, NEW l, NEW v, NEW y, IsQuery(r)
  PROVE  WithGroup(r, x, l, v, y)
           = [kind |-> x, servant |-> r.servant, group |-> y,
              ref |-> [r.ref EXCEPT ![l] = v], answer |-> r.answer]
<1>1. PICK a, b, g, f, w : /\ a = r.kind /\ b = r.servant /\ g = r.group
                           /\ f = r.ref /\ w = r.answer
  OBVIOUS
<1> DEFINE R(k, z, u) ==
             [kind |-> k, servant |-> b, group |-> u,
              ref |-> z, answer |-> w]
<1>2. /\ [R(a, f, g) EXCEPT !.kind = x]
             = R(x, f, g)
      /\ [R(x, f, g) EXCEPT !.ref[l] = v]
             = R(x, [f EXCEPT ![l] = v], g)
      /\ [R(x, [f EXCEPT ![l] = v], g) EXCEPT !.group = y]
             = R(x, [f EXCEPT ![l] = v], y)
  OBVIOUS
<1>3. r = R(a, f, g)
  BY <1>1, Zenon DEF IsQuery, Query
<1>4. [r EXCEPT !.kind = x, !.ref[l] = v, !.group = y] = R(x, [f EXCEPT ![l] = v], y)
  BY <1>2, <1>3, Zenon
<1>5. QED
  BY <1>1, <1>4, Zenon DEF WithGroup

LEMMA AskSeen ==
  ASSUME NEW r, NEW x, NEW y, IsLooks(r)
  PROVE  WithServant(r, x, y)
           = [kind |-> x, servant |-> y, group |-> r.group,
              answer |-> r.answer, seen |-> r.seen, old |-> r.old]
<1>1. PICK a, b, g, w, f, h : /\ a = r.kind /\ b = r.servant /\ g = r.group
                              /\ w = r.answer /\ f = r.seen /\ h = r.old
  OBVIOUS
<1> DEFINE R(k, s) ==
             [kind |-> k, servant |-> s, group |-> g,
              answer |-> w, seen |-> f, old |-> h]
<1>2. /\ [R(a, b) EXCEPT !.kind = x]
             = R(x, b)
      /\ [R(x, b) EXCEPT !.servant = y]
             = R(x, y)
  OBVIOUS
<1>3. r = R(a, b)
  BY <1>1, Zenon DEF IsLooks, Looks
<1>4. [r EXCEPT !.kind = x, !.servant = y] = R(x, y)
  BY <1>2, <1>3, Zenon
<1>5. QED
  BY <1>1, <1>4, Zenon DEF WithServant

LEMMA TakeSeen ==
  ASSUME NEW r, NEW l, NEW v, IsLooks(r)
  PROVE  [r EXCEPT !.seen[l] = v]
           = [kind |-> r.kind, servant |-> r.servant, group |-> r.group,
              answer |-> r.answer, seen |-> [r.seen EXCEPT ![l] = v], old |-> r.old]
<1>1. PICK a, b, g, w, f, h : /\ a = r.kind /\ b = r.servant /\ g = r.group
                              /\ w = r.answer /\ f = r.seen /\ h = r.old
  OBVIOUS
<1> DEFINE R(z) ==
             [kind |-> a, servant |-> b, group |-> g,
              answer |-> w, seen |-> z, old |-> h]
<1>2. /\ [R(f) EXCEPT !.seen[l] = v]
             = R([f EXCEPT ![l] = v])
  OBVIOUS
<1>3. r = R(f)
  BY <1>1, Zenon DEF IsLooks, Looks
<1>4. [r EXCEPT !.seen[l] = v] = R([f EXCEPT ![l] = v])
  BY <1>2, <1>3, Zenon
<1>5. QED
  BY <1>1, <1>4, Zenon

LEMMA DropSeen ==
  ASSUME NEW r, NEW x, NEW l, NEW v, NEW o, IsLooks(r)
  PROVE  WithoutSeen(r, x, l, v, o)
           = [kind |-> x, servant |-> r.servant, group |-> r.group,
              answer |-> r.answer, seen |-> [r.seen EXCEPT ![l] = v], old |-> o]
<1>1. PICK a, b, g, w, f, h : /\ a = r.kind /\ b = r.servant /\ g = r.group
                              /\ w = r.answer /\ f = r.seen /\ h = r.old
  OBVIOUS
<1> DEFINE R(k, z, q) ==
             [kind |-> k, servant |-> b, group |-> g,
              answer |-> w, seen |-> z, old |-> q]
<1>2. /\ [R(a, f, h) EXCEPT !.kind = x]
             = R(x, f, h)
      /\ [R(x, f, h) EXCEPT !.seen[l] = v]
             = R(x, [f EXCEPT ![l] = v], h)
      /\ [R(x, [f EXCEPT ![l] = v], h) EXCEPT !.old = o]
             = R(x, [f EXCEPT ![l] = v], o)
  OBVIOUS
<1>3. r = R(a, f, h)
  BY <1>1, Zenon DEF IsLooks, Looks
<1>4. [r EXCEPT !.kind = x, !.seen[l] = v, !.old = o] = R(x, [f EXCEPT ![l] = v], o)
  BY <1>2, <1>3, Zenon
<1>5. QED
  BY <1>1, <1>4, Zenon DEF WithoutSeen

LEMMA GroupSeen ==
  ASSUME NEW r, NEW x, NEW l, NEW v, NEW o, NEW y, IsLooks(r)
  PROVE  GroupKnown(r, x, l, v, o, y)
           = [kind |-> x, servant |-> r.servant, group |-> y,
              answer |-> r.answer, seen |-> [r.seen EXCEPT ![l] = v], old |-> o]
<1>1. PICK a, b, g, w, f, h : /\ a = r.kind /\ b = r.servant /\ g = r.group
                              /\ w = r.answer /\ f = r.seen /\ h = r.old
  OBVIOUS
<1> DEFINE R(k, z, q, u) ==
             [kind |-> k, servant |-> b, group |-> u,
              answer |-> w, seen |-> z, old |-> q]
<1>2. /\ [R(a, f, h, g) EXCEPT !.kind = x]
             = R(x, f, h, g)
      /\ [R(x, f, h, g) EXCEPT !.seen[l] = v]
             = R(x, [f EXCEPT ![l] = v], h, g)
      /\ [R(x, [f EXCEPT ![l] = v], h, g) EXCEPT !.old = o]
             = R(x, [f EXCEPT ![l] = v], o, g)
      /\ [R(x, [f EXCEPT ![l] = v], o, g) EXCEPT !.group = y]
             = R(x, [f EXCEPT ![l] = v], o, y)
  OBVIOUS
<1>3. r = R(a, f, h, g)
  BY <1>1, Zenon DEF IsLooks, Looks
<1> DEFINE most == [r EXCEPT !.kind = x, !.seen[l] = v, !.old = o]
<1>4. most = R(x, [f EXCEPT ![l] = v], o, g)
  BY <1>2, <1>3, Zenon
<1>5. [most EXCEPT !.group = y] = R(x, [f EXCEPT ![l] = v], o, y)
  <2> HIDE DEF most, R
  <2>1. QED
    BY <1>2, <1>4, Zenon
<1>6. QED
  BY <1>1, <1>5, Zenon DEF GroupKnown

LEMMA SeenLooks ==
  ASSUME NEW q
  PROVE  IsLooks(SeenBy(q)) /\ SeenBy(q) = Looks(SeenBy(q))
BY DEF SeenBy, IsLooks, Looks

LEMMA SpoiledIs ==
  ASSUME NEW q
  PROVE  Spoiled(q) = [kind |-> "spoiled", servant |-> q.servant, group |-> Ungrouped,
                       ref |-> [l \in Lists |-> NoRef], answer |-> {}]
<1>1. PICK n : n = NoQuery
  OBVIOUS
<1>2. /\ IsQuery(n) /\ n.group = Ungrouped /\ n.ref = [l \in Lists |-> NoRef]
      /\ n.answer = {}
  BY <1>1 DEF NoQuery, IsQuery, Query
<1>3. WithServant(n, "spoiled", q.servant)
        = [kind |-> "spoiled", servant |-> q.servant, group |-> n.group,
           ref |-> n.ref, answer |-> n.answer]
  BY <1>2, AskHeld, Zenon
<1>4. QED
  BY <1>1, <1>2, <1>3, Zenon DEF Spoiled, WithServant

LEMMA SpoiledSeen ==
  ASSUME NEW q, current \in [Lists -> 0 .. 1]
  PROVE  SeenBy(Spoiled(q)) = Route!Spoiled(SeenBy(q))
<1>1. PICK p : p = Spoiled(q)
  OBVIOUS
<1>2. p = [kind |-> "spoiled", servant |-> q.servant, group |-> Ungrouped,
           ref |-> [l \in Lists |-> NoRef], answer |-> {}]
  BY <1>1, SpoiledIs, Zenon
<1>3. /\ [l \in Lists |-> IF Held(p, l) THEN {Looked(p, l)} ELSE {}] = [l \in Lists |-> {}]
      /\ {l \in Lists : p.ref[l] = 1 - current[l]} = {}
  BY <1>2 DEF Held, NoRef
<1>4. SeenBy(p) = [kind |-> "spoiled", servant |-> q.servant, group |-> Ungrouped,
                   answer |-> {}, seen |-> [l \in Lists |-> {}], old |-> {}]
  BY <1>2, <1>3 DEF SeenBy
<1>5. SeenBy(q).servant = q.servant
  BY DEF SeenBy
<1>6. Route!Ungrouped = Ungrouped
  BY DEF Route!Ungrouped, Ungrouped
<1>7. Route!Spoiled(SeenBy(q))
        = [kind |-> "spoiled", servant |-> q.servant, group |-> Ungrouped,
           answer |-> {}, seen |-> [l \in Lists |-> {}], old |-> {}]
  <2>1. PICK n, s : n = Route!NoQuery /\ s = SeenBy(q).servant
    OBVIOUS
  <2>2. /\ IsLooks(n) /\ n.group = Ungrouped /\ n.seen = [l \in Lists |-> {}]
        /\ n.answer = {} /\ n.old = {}
    BY <1>6, <2>1 DEF Route!NoQuery, IsLooks, Looks
  <2>3. WithServant(n, "spoiled", s)
          = [kind |-> "spoiled", servant |-> s, group |-> n.group,
             answer |-> n.answer, seen |-> n.seen, old |-> n.old]
    BY <2>2, AskSeen, Zenon
  <2>4. QED
    BY <1>5, <2>1, <2>2, <2>3, Zenon DEF Route!Spoiled, WithServant
<1>8. QED
  BY <1>1, <1>4, <1>7, Zenon

LEMMA SeenNone ==
  ASSUME current \in [Lists -> 0 .. 1], NEW answer
  PROVE  /\ SeenBy(NoQuery) = Route!NoQuery
         /\ SeenBy([NoQuery EXCEPT !.answer = answer]) = [Route!NoQuery EXCEPT !.answer = answer]
<1>1. Route!Ungrouped = Ungrouped
  BY DEF Route!Ungrouped, Ungrouped
<1>3. ASSUME NEW p, p.ref = [l \in Lists |-> NoRef]
      PROVE  /\ [l \in Lists |-> IF Held(p, l) THEN {Looked(p, l)} ELSE {}] = [l \in Lists |-> {}]
             /\ {l \in Lists : p.ref[l] = 1 - current[l]} = {}
  BY <1>3 DEF Held, NoRef
<1>4. SeenBy(NoQuery) = Route!NoQuery
  <2>1. PICK p : p = NoQuery
    OBVIOUS
  <2>2. p = [kind |-> "none", servant |-> "none", group |-> Ungrouped,
             ref |-> [l \in Lists |-> NoRef], answer |-> {}]
    BY <2>1 DEF NoQuery
  <2>3. SeenBy(p) = [kind |-> "none", servant |-> "none", group |-> Ungrouped,
                     answer |-> {}, seen |-> [l \in Lists |-> {}], old |-> {}]
    BY <1>3, <2>2 DEF SeenBy
  <2>4. QED
    BY <1>1, <2>1, <2>3 DEF Route!NoQuery
<1>5. SeenBy([NoQuery EXCEPT !.answer = answer]) = [Route!NoQuery EXCEPT !.answer = answer]
  <2>1. PICK p : p = [NoQuery EXCEPT !.answer = answer]
    OBVIOUS
  <2>2. p = [kind |-> "none", servant |-> "none", group |-> Ungrouped,
             ref |-> [l \in Lists |-> NoRef], answer |-> answer]
    BY <2>1 DEF NoQuery
  <2>3. SeenBy(p) = [kind |-> "none", servant |-> "none", group |-> Ungrouped,
                     answer |-> answer, seen |-> [l \in Lists |-> {}], old |-> {}]
    BY <1>3, <2>2 DEF SeenBy
  <2>4. [Route!NoQuery EXCEPT !.answer = answer]
          = [kind |-> "none", servant |-> "none", group |-> Ungrouped,
             answer |-> answer, seen |-> [l \in Lists |-> {}], old |-> {}]
    BY <1>1 DEF Route!NoQuery
  <2>5. QED
    BY <2>1, <2>3, <2>4
<1>6. QED
  BY <1>4, <1>5

LEMMA NoneSpoiled ==
  ASSUME UNCHANGED <<buffer, current, query>>
  PROVE  (\A c \in Client : SeenBy(query[c])' = SeenBy(query[c])) /\ SomeSpoiled
<1>1. \A c \in Client : SeenBy(query[c])' = SeenBy(query[c])
  BY DEF SeenBy, Held, Looked, NoRef
<1>2. [c \in Client |-> SeenBy(query[c])]'
        = [c \in Client |-> IF c \in {} THEN Route!Spoiled(SeenBy(query[c]))
                            ELSE SeenBy(query[c])]
  BY <1>1
<1>3. {} \in SUBSET {c \in Client : SeenBy(query[c]).old # {}}
  OBVIOUS
<1>4. SomeSpoiled
  BY <1>2, <1>3, Zenon DEF SomeSpoiled
<1>5. QED
  BY <1>1, <1>4

\* A write to the writer's buffer spoils the queries that hold it, which looked
\* before it was taken from the readers; nobody else sees it.
LEMMA WriteSpoils ==
  ASSUME Shape, NEW l \in Lists, NEW v, Fill(l, v)
  PROVE  /\ WriteKeeps /\ db' = db
         /\ \A k \in Lists : Table(k)' = Table(k)
         /\ Written(l)' = v
         /\ \A k \in Lists : k # l => Written(k)' = Written(k)
         /\ Quiet(l)' /\ SomeSpoiled
<1>1. /\ current[l] \in 0 .. 1 /\ 1 - current[l] \in 0 .. 1 /\ current[l] # 1 - current[l]
      /\ current' = current /\ db' = db
  BY DEF Shape, Fill, Write
<1>2. \A k \in Lists, i \in 0 .. 1 :
        buffer'[k][i] = IF k = l /\ i = 1 - current[l] THEN v ELSE buffer[k][i]
  BY <1>1 DEF Shape, Fill, Write
<1>3. buffer' = [k \in Lists |-> [i \in 0 .. 1 |-> buffer'[k][i]]]
  BY <1>1 DEF Shape, Fill, Write
<1>4. /\ \A k \in Lists : Table(k)' = Table(k)
      /\ Written(l)' = v
      /\ \A k \in Lists : k # l => Written(k)' = Written(k)
  <2>1. \A k \in Lists : current[k] \in 0 .. 1 /\ 1 - current[k] \in 0 .. 1
    BY DEF Shape
  <2>2. \A k \in Lists : buffer'[k][current[k]] = buffer[k][current[k]]
    BY <1>1, <1>2, <2>1
  <2>3. buffer'[l][1 - current[l]] = v
    BY <1>1, <1>2
  <2>4. \A k \in Lists : k # l => buffer'[k][1 - current[k]] = buffer[k][1 - current[k]]
    BY <1>2, <2>1
  <2>5. QED
    BY <1>1, <2>2, <2>3, <2>4 DEF Table, Written
<1> DEFINE late == {c \in Client : query[c].ref[l] = 1 - current[l]}
<1>5. /\ query' = [c \in Client |-> IF c \in late THEN Spoiled(query[c]) ELSE query[c]]
      /\ \A c \in Client : query'[c] = IF c \in late THEN Spoiled(query[c]) ELSE query[c]
  BY DEF Fill, Write
<1>6. \A c \in Client : c \notin late => query[c].ref[l] # 1 - current[l]
  OBVIOUS
<1>7. \A c \in Client : /\ Query(query'[c]) = query'[c]
                        /\ query'[c].ref \in [Lists -> 0 .. 2]
  <2> SUFFICES ASSUME NEW c \in Client
               PROVE  Query(query'[c]) = query'[c] /\ query'[c].ref \in [Lists -> 0 .. 2]
    OBVIOUS
  <2>1. CASE c \in late
    <3>1. PICK p : p = Spoiled(query[c])
      OBVIOUS
    <3>2. p = [kind |-> "spoiled", servant |-> query[c].servant, group |-> Ungrouped,
               ref |-> [k \in Lists |-> NoRef], answer |-> {}]
      BY <3>1, SpoiledIs, Zenon
    <3>3. Query(p) = p /\ p.ref \in [Lists -> 0 .. 2]
      BY <3>2 DEF Query, NoRef
    <3>4. QED
      BY <1>5, <2>1, <3>1, <3>3, Zenon
  <2>2. CASE c \notin late
    <3>1. query'[c] = query[c]
      BY <1>5, <2>2, Zenon
    <3>2. QED
      BY <3>1 DEF Shape, IsQuery, Query
  <2>3. QED
    BY <2>1, <2>2
<1>8. query' = [c \in Client |-> Query(query'[c])]
  BY <1>5, <1>7, Zenon
<1>9. Quiet(l)' /\ \A k \in Lists : Quiet(k) => Quiet(k)'
  <2>1. ASSUME NEW c \in Client, c \in late, NEW k \in Lists
        PROVE  query'[c].ref[k] # 1 - current[k]
    <3>1. query'[c] = Spoiled(query[c])
      BY <1>5, <2>1, Zenon
    <3>2. query'[c].ref[k] = 2 /\ current[k] \in 0 .. 1
      BY <2>1, <3>1, SpoiledIs DEF NoRef, Shape
    <3>3. QED
      BY <3>2
  <2>2. ASSUME NEW c \in Client, c \notin late
        PROVE  query'[c] = query[c] /\ query[c].ref[l] # 1 - current[l]
    BY <1>5, <1>6, <2>2, Zenon
  <2> HIDE DEF late
  <2>3. QED
    BY <1>1, <2>1, <2>2 DEF Quiet
<1>10. \A c \in Client : (SeenBy(query[c]))'
                           = IF c \in late THEN Route!Spoiled(SeenBy(query[c]))
                             ELSE SeenBy(query[c])
  <2> SUFFICES ASSUME NEW c \in Client
               PROVE  (SeenBy(query[c]))' = IF c \in late THEN Route!Spoiled(SeenBy(query[c]))
                                            ELSE SeenBy(query[c])
    OBVIOUS
  <2>1. PICK p : p = query'[c]
    OBVIOUS
  <2>2. p.ref \in [Lists -> 0 .. 2] /\ \A k \in Lists : p.ref[k] # 1 - current[k] \/ k # l
    <3>1. query'[c].ref[l] # 1 - current[l]
      BY <1>1, <1>9 DEF Quiet
    <3>2. QED
      BY <1>7, <2>1, <3>1
  <2>3. SeenBy(p)' = SeenBy(p)
    <3>1. \A k \in Lists : p.ref[k] # 2 => buffer'[k][p.ref[k]] = buffer[k][p.ref[k]]
      BY <1>1, <1>2, <2>2
    <3>2. [k \in Lists |-> IF p.ref[k] # 2 THEN {buffer[k][p.ref[k]]} ELSE {}]'
            = [k \in Lists |-> IF p.ref[k] # 2 THEN {buffer[k][p.ref[k]]} ELSE {}]
      BY <3>1
    <3>3. {k \in Lists : p.ref[k] = 1 - current[k]}' = {k \in Lists : p.ref[k] = 1 - current[k]}
      BY <1>1
    <3>4. QED
      BY <3>2, <3>3 DEF SeenBy, Held, Looked, NoRef
  <2>4. (SeenBy(query[c]))' = SeenBy(p)
    BY <2>1, <2>3
  <2>5. current \in [Lists -> 0 .. 1]
    BY DEF Shape
  <2>6. CASE c \in late
    <3>1. p = Spoiled(query[c])
      BY <1>5, <2>1, <2>6, Zenon
    <3>2. QED
      BY <2>4, <2>5, <2>6, <3>1, SpoiledSeen, Zenon
  <2>7. CASE c \notin late
    <3>1. p = query[c]
      BY <1>5, <2>1, <2>7, Zenon
    <3>2. QED
      BY <2>4, <2>7, <3>1, Zenon
  <2>8. QED
    BY <2>6, <2>7
<1>11. late \in SUBSET {c \in Client : SeenBy(query[c]).old # {}}
  BY DEF SeenBy
<1>12. SomeSpoiled
  <2> HIDE DEF late
  <2>1. [c \in Client |-> SeenBy(query[c])]'
          = [c \in Client |-> IF c \in late THEN Route!Spoiled(SeenBy(query[c]))
                              ELSE SeenBy(query[c])]
    BY <1>10, Zenon
  <2>2. QED
    BY <1>11, <2>1, Zenon DEF SomeSpoiled
<1>13. WriteKeeps
  BY <1>1, <1>3, <1>7, <1>8 DEF WriteKeeps
<1>14. QED
  BY <1>1, <1>4, <1>9, <1>12, <1>13

LEMMA WrittenShape ==
  ASSUME Shape, WriteKeeps, read' = [k \in Lists |-> read'[k]],
         load' \in [stage : Stage, full : BOOLEAN, servants : SUBSET Servant]
  PROVE  Shape'
BY DEF Shape, WriteKeeps, Query

\* A swap shows what was written, and to nobody who holds a reference; those who
\* do hold a list that has been replaced.
LEMMA SwapShows ==
  ASSUME Shape, NEW l \in Lists, Quiet(l), Swap(l), query' = query
  PROVE  /\ current' \in [Lists -> 0 .. 1]
         /\ Table(l)' = Written(l)
         /\ \A k \in Lists : k # l => Table(k)' = Table(k) /\ Written(k)' = Written(k)
         /\ \A k \in Lists : k # l /\ Quiet(k) => Quiet(k)'
         /\ \A c \in Client : SeenBy(query[c])' = Route!Outdated(SeenBy(query[c]), l)
<1>1. current' \in [Lists -> 0 .. 1] /\ current'[l] = 1 - current[l]
      /\ \A k \in Lists : k # l => current'[k] = current[k]
  BY DEF Shape, Swap
<1>2. buffer' = buffer
  BY DEF Swap
<1>3. /\ Table(l)' = Written(l)
      /\ \A k \in Lists : k # l => Table(k)' = Table(k) /\ Written(k)' = Written(k)
  BY <1>1, <1>2 DEF Table, Written
<1>4. \A k \in Lists : k # l /\ Quiet(k) => Quiet(k)'
  BY <1>1 DEF Quiet
<1>5. ASSUME NEW c \in Client
      PROVE  SeenBy(query[c])' = Route!Outdated(SeenBy(query[c]), l)
  <2>1. PICK p : p = query[c] /\ p = query'[c]
    OBVIOUS
  <2>2. p.ref \in [Lists -> 0 .. 2] /\ p.ref[l] # 1 - current[l] /\ current[l] \in 0 .. 1
    BY <2>1 DEF Shape, Quiet
  <2>3. PICK r : r = SeenBy(p)
    OBVIOUS
  <2>4. /\ r = Looks(r)
        /\ r.seen = [k \in Lists |-> IF Held(p, k) THEN {Looked(p, k)} ELSE {}]
        /\ r.old = {k \in Lists : p.ref[k] = 1 - current[k]}
    BY <2>3 DEF SeenBy, Looks
  <2>5. SeenBy(p)' = [kind |-> r.kind, servant |-> r.servant, group |-> r.group,
                      answer |-> r.answer, seen |-> r.seen,
                      old |-> {k \in Lists : p.ref[k] = 1 - current'[k]}]
    BY <1>2, <2>3 DEF SeenBy, Held, NoRef, Looked
  <2>6. CASE Held(p, l)
    <3>1. p.ref[l] = 1 - current'[l]
      BY <1>1, <2>2, <2>6 DEF Held, NoRef
    <3>2. {k \in Lists : p.ref[k] = 1 - current'[k]} = r.old \cup {l}
      BY <1>1, <2>4, <3>1
    <3>3. r.seen[l] # {}
      BY <2>4, <2>6
    <3>4. [r EXCEPT !.old = r.old \cup {l}]
            = [kind |-> r.kind, servant |-> r.servant, group |-> r.group,
               answer |-> r.answer, seen |-> r.seen, old |-> r.old \cup {l}]
      <4>1. PICK o : o = r.old \cup {l}
        OBVIOUS
      <4>2. [Looks(r) EXCEPT !.old = o]
              = [kind |-> r.kind, servant |-> r.servant, group |-> r.group,
                 answer |-> r.answer, seen |-> r.seen, old |-> o]
        BY DEF Looks
      <4>3. QED
        BY <2>4, <4>1, <4>2, Zenon
    <3>5. Route!Outdated(r, l) = [r EXCEPT !.old = r.old \cup {l}]
      BY <3>3 DEF Route!Outdated
    <3>6. QED
      BY <2>1, <2>3, <2>5, <3>2, <3>4, <3>5
  <2>7. CASE ~Held(p, l)
    <3>1. p.ref[l] # 1 - current'[l]
      BY <1>1, <2>2, <2>7 DEF Held, NoRef
    <3>2. {k \in Lists : p.ref[k] = 1 - current'[k]} = r.old
      BY <1>1, <2>2, <2>4, <3>1
    <3>3. r.seen[l] = {}
      BY <2>4, <2>7
    <3>4. Route!Outdated(r, l) = r
      BY <3>3 DEF Route!Outdated
    <3>5. QED
      BY <2>1, <2>3, <2>4, <2>5, <3>2, <3>4 DEF Looks
  <2>8. QED
    BY <2>6, <2>7
<1>6. QED
  BY <1>1, <1>3, <1>4, <1>5

-----------------------------------------------------------------------------
(***************************************************************************)
(* The operators of EndpointQuery are RouteTable's as well.                *)
(***************************************************************************)
LEMMA SameGroups ==
  /\ Route!Ungrouped = Ungrouped
  /\ \A rules, star, host : Route!GroupOf(rules, star, host) = GroupOf(rules, star, host)
BY DEF Route!Ungrouped, Ungrouped, Route!GroupOf, GroupOf

LEMMA SameEndpoints ==
  /\ \A rows, rules, star : Route!Endpoints(rows, rules, star) = Endpoints(rows, rules, star)
  /\ \A eps : Route!Divided(eps) = Divided(eps)
BY DEF Route!Endpoints, Endpoints, Route!GroupOf, GroupOf, Route!Ungrouped, Ungrouped,
       Route!Divided, Divided, Route!Valid, Valid

LEMMA SameInGroup ==
  \A eps, group, lists :
    Route!InGroupPriority(eps, group, lists) = InGroupPriority(eps, group, lists)
BY DEF Route!InGroupPriority, InGroupPriority, Route!Stages, Stages, Route!InGroups, InGroups,
       Route!Active, Active, Route!Ungrouped, Ungrouped

LEMMA SameInStation ==
  /\ \A lists, station : Route!StationKnown(lists, station) = StationKnown(lists, station)
  /\ \A eps, station, lists :
       Route!InSameStation(eps, station, lists) = InSameStation(eps, station, lists)
BY DEF Route!StationKnown, StationKnown, Route!InSameStation, InSameStation

LEMMA SameInSet ==
  \A eps, s : Route!InSameSet(eps, s) = InSameSet(eps, s)
BY DEF Route!InSameSet, InSameSet, Route!InSet, InSet

-----------------------------------------------------------------------------
(***************************************************************************)
(* Every step keeps the invariant, and is a step of RouteTable or none.    *)
(***************************************************************************)
LEMMA NothingShown ==
  ASSUME UNCHANGED <<db, read>>,
         \A l \in Lists : Table(l)' = Table(l),
         \A c \in Client : SeenBy(query[c])' = SeenBy(query[c])
  PROVE  UNCHANGED Route!vars
<1>1. [l \in Lists |-> Table(l)]' = [l \in Lists |-> Table(l)]
  OBVIOUS
<1>2. [c \in Client |-> SeenBy(query[c])]' = [c \in Client |-> SeenBy(query[c])]
  OBVIOUS
<1>3. QED
  BY <1>1, <1>2 DEF Route!vars

LEMMA InitRefines == Init => RouteInv /\ Route!Init
<1> SUFFICES ASSUME Init PROVE RouteInv /\ Route!Init
    OBVIOUS
<1>1. Shape
  BY ListNames DEF Init, Shape, Stage, Idle, NoQuery, NoRef
<1>2. Unread /\ Filled
  BY DEF Init, Unread, Filled, Idle
<1>3. \A l \in Lists : Table(l) = read[l]
  BY DEF Init, Table
<1>4. \A c \in Client : SeenBy(query[c]) = Route!NoQuery
  <2>1. SeenBy(NoQuery) = Route!NoQuery
    BY <1>1, SeenNone DEF Shape
  <2>2. QED
    BY <2>1 DEF Init
<1>5. QED
  BY <1>1, <1>2, <1>3, <1>4 DEF RouteInv, Route!Init

\* What a load reads, and the queries it spoils, are those of RouteTable's.
LEMMA LoadShown ==
  ASSUME NEW some \in SUBSET Lists, UNCHANGED db,
         read' = [l \in Lists |-> IF l \in some THEN Route!Loaded(l) ELSE read[l]],
         \A l \in Lists : Table(l)' = Table(l), SomeSpoiled
  PROVE  Route!Next
<1>1. [l \in Lists |-> Table(l)]' = [l \in Lists |-> Table(l)]
  OBVIOUS
<1>2. PICK late \in SUBSET {c \in Client : SeenBy(query[c]).old # {}} :
        [c \in Client |-> SeenBy(query[c])]'
          = [c \in Client |-> IF c \in late THEN Route!Spoiled(SeenBy(query[c]))
                              ELSE SeenBy(query[c])]
  BY DEF SomeSpoiled
<1>3. PICK seen : seen = [c \in Client |-> SeenBy(query[c])]
  OBVIOUS
<1>4. late \in SUBSET {c \in Client : seen[c].old # {}}
  BY <1>2, <1>3
<1>5. [c \in Client |-> SeenBy(query[c])]'
        = [c \in Client |-> IF c \in late THEN Route!Spoiled(seen[c]) ELSE seen[c]]
  BY <1>2, <1>3
<1>6. Route!Load
  BY <1>1, <1>3, <1>4, <1>5, Zenon DEF Route!Load
<1>7. QED
  BY <1>6 DEF Route!Next

\* Filling a buffer shows nothing, but may spoil queries.
LEMMA FillShown ==
  ASSUME Shape, UNCHANGED <<db, read>>,
         \A l \in Lists : Table(l)' = Table(l), SomeSpoiled
  PROVE  Route!Next
<1>1. PICK none \in SUBSET Lists : none = {}
  OBVIOUS
<1>2. \A l \in Lists : l \notin none
  BY <1>1
<1>3. read = [l \in Lists |-> read[l]]
  BY DEF Shape
<1>4. read' = [l \in Lists |-> IF l \in none THEN Route!Loaded(l) ELSE read[l]]
  BY <1>2, <1>3
<1>5. QED
  BY <1>4, LoadShown

\* A swap installs a list at once.
LEMMA SwapInstalls ==
  ASSUME NEW l \in Lists, UNCHANGED <<db, read>>, NEW servants \in SUBSET Servant,
         Table(l)' = Route!Installed(l, servants),
         \A k \in Lists : k # l => Table(k)' = Table(k),
         \A c \in Client : SeenBy(query[c])' = Route!Outdated(SeenBy(query[c]), l)
  PROVE  Route!Next
<1>1. [k \in Lists |-> Table(k)]'
        = [[k \in Lists |-> Table(k)] EXCEPT ![l] = Route!Installed(l, servants)]
  OBVIOUS
<1>2. PICK seen : seen = [c \in Client |-> SeenBy(query[c])]
  OBVIOUS
<1>3. [c \in Client |-> SeenBy(query[c])]' = [c \in Client |-> Route!Outdated(seen[c], l)]
  <2>1. \A c \in Client : SeenBy(query[c])' = Route!Outdated(seen[c], l)
    BY <1>2
  <2>2. QED
    BY <2>1
<1>4. Route!Install(l)
  BY <1>1, <1>2, <1>3 DEF Route!Install
<1>5. QED
  BY <1>4 DEF Route!Next

\* Moving on to another stage.
LEMMA ToShape ==
  ASSUME Shape, NEW stage \in Stage, To(stage)
  PROVE  /\ load' \in [stage : Stage, full : BOOLEAN, servants : SUBSET Servant]
         /\ load'.stage = stage /\ load'.servants = load.servants
BY DEF Shape, To

LEMMA LoadGroupsRefines ==
  ASSUME RouteInv, loadIPPhysicalGroupInfo
  PROVE  RouteInv' /\ [Route!Next]_Route!vars
<1> USE ListNames
<1>0. Shape
  BY DEF RouteInv
<1>1. CASE /\ load.stage = Groups /\ Clear(Groups)
           /\ read' = [read EXCEPT ![Groups] = db.rules] /\ To("fill groups")
  <2>1. Fill(Groups, Empty(Groups))
    BY <1>1 DEF Clear, Fill
  <2>2. load' \in [stage : Stage, full : BOOLEAN, servants : SUBSET Servant]
        /\ load'.stage = "fill groups"
    BY <1>0, <1>1, ToShape DEF Stage
  <2>3. read' = [l \in Lists |-> IF l \in {Groups} THEN Route!Loaded(l) ELSE read[l]]
    <3>1. Route!Loaded(Groups) = db.rules
      BY DEF Route!Loaded, Route!Groups, Groups
    <3>2. QED
      BY <1>0, <1>1, <3>1 DEF Shape
  <2>4. /\ WriteKeeps /\ Quiet(Groups)'
        /\ \A k \in Lists : Table(k)' = Table(k)
        /\ db' = db /\ SomeSpoiled
    BY <1>0, <2>1, WriteSpoils
  <2>5. Shape'
    <3>1. read' = [l \in Lists |-> read'[l]]
      BY <2>3
    <3>2. QED
      BY <1>0, <2>2, <2>4, <3>1, WrittenShape
  <2>6. Unread' /\ Filled'
    BY <2>2, <2>4 DEF Unread, Filled, Priorities, Objects, Divisions
  <2>7. Route!Next
    BY <2>3, <2>4, LoadShown
  <2>8. QED
    BY <2>5, <2>6, <2>7 DEF RouteInv
<1>2. CASE /\ load.stage = Groups /\ To(Priorities)
           /\ UNCHANGED <<read, buffer, current, loads>> /\ Unseen
  <2>1. load' \in [stage : Stage, full : BOOLEAN, servants : SUBSET Servant]
        /\ load'.stage = Priorities
    BY <1>0, <1>2, ToShape DEF Stage
  <2>2. Shape' /\ Unread' /\ Filled'
    BY <1>0, <1>2, <2>1 DEF Shape, Unread, Filled, Unseen, Priorities
  <2>3. UNCHANGED Route!vars
    BY <1>2, NothingShown DEF Unseen, Table, SeenBy, Held, Looked
  <2>4. QED
    BY <2>2, <2>3 DEF RouteInv
<1>3. CASE /\ load.stage = "fill groups" /\ To("swap groups")
           /\ Fill(Groups, read[Groups]) /\ UNCHANGED read
  <2>1. load' \in [stage : Stage, full : BOOLEAN, servants : SUBSET Servant]
        /\ load'.stage = "swap groups"
    BY <1>0, <1>3, ToShape DEF Stage
  <2>2. /\ WriteKeeps /\ Quiet(Groups)' /\ Written(Groups)' = read[Groups]
        /\ \A k \in Lists : Table(k)' = Table(k)
        /\ db' = db /\ SomeSpoiled
    BY <1>0, <1>3, WriteSpoils
  <2>3. Shape'
    BY <1>0, <1>3, <2>1, <2>2, WrittenShape DEF Shape
  <2>4. Unread' /\ Filled'
    BY <1>3, <2>1, <2>2 DEF Unread, Filled, Priorities, Objects, Divisions
  <2>6. Route!Next
    BY <1>0, <1>3, <2>2, FillShown
  <2>7. QED
    BY <2>3, <2>4, <2>6 DEF RouteInv
<1>4. CASE /\ load.stage = "swap groups" /\ To(Priorities) /\ Swap(Groups)
           /\ UNCHANGED <<read, loads>> /\ Unseen
  <2>1. /\ query' = query /\ db' = db /\ read' = read /\ buffer' = buffer
        /\ Written(Groups) = read[Groups] /\ Quiet(Groups)
    BY <1>4 DEF Unseen, RouteInv, Filled, Unread, Swap
  <2>2. load' \in [stage : Stage, full : BOOLEAN, servants : SUBSET Servant]
        /\ load'.stage = Priorities
    BY <1>0, <1>4, ToShape DEF Stage
  <2>3. /\ current' \in [Lists -> 0 .. 1]
        /\ Table(Groups)' = Written(Groups)
        /\ \A k \in Lists : k # Groups => Table(k)' = Table(k)
        /\ \A c \in Client : SeenBy(query[c])' = Route!Outdated(SeenBy(query[c]), Groups)
    BY <1>0, <1>4, <2>1, SwapShows
  <2>4. Shape' /\ Unread' /\ Filled'
    BY <1>0, <2>1, <2>2, <2>3 DEF Shape, Unread, Filled, Priorities
  <2>5. Route!Installed(Groups, {}) = read[Groups]
    BY DEF Route!Installed, Route!Objects, Route!Divisions, Groups
  <2>6. Route!Next
    BY <2>1, <2>3, <2>5, SwapInstalls
  <2>7. QED
    BY <2>4, <2>6 DEF RouteInv
<1>5. QED
  BY <1>1, <1>2, <1>3, <1>4 DEF loadIPPhysicalGroupInfo

LEMMA LoadPrioritiesRefines ==
  ASSUME RouteInv, loadGroupPriority
  PROVE  RouteInv' /\ [Route!Next]_Route!vars
<1> USE ListNames
<1>0. Shape
  BY DEF RouteInv
<1>1. CASE /\ load.stage = Priorities /\ Clear(Priorities)
           /\ \/ read' = [read EXCEPT ![Priorities] = db.priorities] /\ To("fill priorities")
              \/ UNCHANGED read /\ To("rows")
  <2>1. Fill(Priorities, Empty(Priorities))
    BY <1>1 DEF Clear, Fill
  <2>2. load' \in [stage : Stage, full : BOOLEAN, servants : SUBSET Servant]
        /\ load'.stage \in {"fill priorities", "rows"}
    BY <1>0, <1>1, ToShape DEF Stage
  <2>3. PICK some \in {{}, {Priorities}} :
          read' = [l \in Lists |-> IF l \in some THEN Route!Loaded(l) ELSE read[l]]
    <3>1. Route!Loaded(Priorities) = db.priorities
      BY DEF Route!Loaded, Route!Groups, Groups, Route!Priorities, Priorities
    <3>2. CASE read' = [read EXCEPT ![Priorities] = db.priorities]
      <4>1. read' = [l \in Lists |-> IF l \in {Priorities} THEN Route!Loaded(l) ELSE read[l]]
        BY <1>0, <3>1, <3>2 DEF Shape
      <4>2. QED
        BY <4>1
    <3>3. CASE read' = read
      <4>1. read' = [l \in Lists |-> IF l \in {} THEN Route!Loaded(l) ELSE read[l]]
        BY <1>0, <3>3 DEF Shape
      <4>2. QED
        BY <4>1
    <3>4. QED
      BY <1>1, <3>2, <3>3
  <2>4. /\ WriteKeeps /\ Quiet(Priorities)'
        /\ \A k \in Lists : Table(k)' = Table(k)
        /\ db' = db /\ SomeSpoiled
    BY <1>0, <2>1, WriteSpoils
  <2>5. Shape'
    <3>1. read' = [l \in Lists |-> read'[l]]
      BY <2>3
    <3>2. QED
      BY <1>0, <2>2, <2>4, <3>1, WrittenShape
  <2>6. Unread' /\ Filled'
    BY <2>2, <2>4 DEF Unread, Filled
  <2>7. Route!Next
    BY <2>3, <2>4, LoadShown
  <2>8. QED
    BY <2>5, <2>6, <2>7 DEF RouteInv
<1>2. CASE /\ load.stage = "fill priorities" /\ To("swap priorities")
           /\ Fill(Priorities, read[Priorities]) /\ UNCHANGED read
  <2>1. load' \in [stage : Stage, full : BOOLEAN, servants : SUBSET Servant]
        /\ load'.stage = "swap priorities"
    BY <1>0, <1>2, ToShape DEF Stage
  <2>2. /\ WriteKeeps /\ Quiet(Priorities)'
        /\ Written(Priorities)' = read[Priorities]
        /\ \A k \in Lists : Table(k)' = Table(k)
        /\ db' = db /\ SomeSpoiled
    BY <1>0, <1>2, WriteSpoils
  <2>3. Shape'
    BY <1>0, <1>2, <2>1, <2>2, WrittenShape DEF Shape
  <2>4. Unread' /\ Filled'
    BY <1>2, <2>1, <2>2 DEF Unread, Filled
  <2>6. Route!Next
    BY <1>0, <1>2, <2>2, FillShown
  <2>7. QED
    BY <2>3, <2>4, <2>6 DEF RouteInv
<1>3. CASE /\ load.stage = "swap priorities" /\ To("rows") /\ Swap(Priorities)
           /\ UNCHANGED <<read, loads>> /\ Unseen
  <2>1. /\ query' = query /\ db' = db /\ read' = read /\ buffer' = buffer
        /\ Written(Priorities) = read[Priorities] /\ Quiet(Priorities)
    BY <1>3 DEF Unseen, RouteInv, Filled, Unread, Swap
  <2>2. load' \in [stage : Stage, full : BOOLEAN, servants : SUBSET Servant]
        /\ load'.stage = "rows"
    BY <1>0, <1>3, ToShape DEF Stage
  <2>3. /\ current' \in [Lists -> 0 .. 1]
        /\ Table(Priorities)' = Written(Priorities)
        /\ \A k \in Lists : k # Priorities => Table(k)' = Table(k)
        /\ \A c \in Client :
             SeenBy(query[c])' = Route!Outdated(SeenBy(query[c]), Priorities)
    BY <1>0, <1>3, <2>1, SwapShows
  <2>4. Shape' /\ Unread' /\ Filled'
    BY <1>0, <2>1, <2>2, <2>3 DEF Shape, Unread, Filled
  <2>5. Route!Installed(Priorities, {}) = read[Priorities]
    BY DEF Route!Installed, Route!Objects, Route!Divisions, Priorities
  <2>6. Route!Next
    BY <2>1, <2>3, <2>5, SwapInstalls
  <2>7. QED
    BY <2>4, <2>6 DEF RouteInv
<1>4. QED
  BY <1>1, <1>2, <1>3 DEF loadGroupPriority

LEMMA LoadObjectsRefines ==
  ASSUME RouteInv, loadObjects
  PROVE  RouteInv' /\ [Route!Next]_Route!vars
<1> USE ListNames
<1> DEFINE objects == Listed(db.rows, Table(Groups))
<1>0. Shape
  BY DEF RouteInv
<1>1. /\ buffer' = buffer /\ current' = current /\ query' = query /\ db' = db
  BY DEF loadObjects, Unseen
<1>2. /\ \A l \in Lists : Table(l)' = Table(l)
      /\ \A c \in Client : SeenBy(query[c])' = SeenBy(query[c])
      /\ SomeSpoiled
  BY <1>1, NoneSpoiled DEF Table
<1>3. CASE load' = Idle /\ UNCHANGED read
  <2>1. Shape' /\ Unread' /\ Filled'
    BY <1>0, <1>1, <1>3 DEF Shape, Unread, Filled, Idle, Stage
  <2>2. UNCHANGED Route!vars
    BY <1>1, <1>2, <1>3, NothingShown
  <2>3. QED
    BY <2>1, <2>2 DEF RouteInv
<1>4. CASE /\ read' = [read EXCEPT ![Objects] = objects, ![Divisions] = DividedOf(objects)]
           /\ load' = [load EXCEPT !.stage = Objects,
                          !.servants = {s \in @ : load.full \/ objects[s] # {}}]
  <2>1. read' = [l \in Lists |-> IF l \in {Objects, Divisions} THEN Route!Loaded(l) ELSE read[l]]
    <3>1. Route!Loaded(Objects) = objects
      BY SameEndpoints DEF Route!Loaded, Route!Groups, Route!Priorities, Route!Objects,
         Objects, Groups, Listed
    <3>2. Route!Loaded(Divisions) = DividedOf(objects)
      BY SameEndpoints DEF Route!Loaded, Route!Groups, Route!Priorities, Route!Objects,
         Divisions, Groups, Listed, DividedOf
    <3>3. QED
      BY <1>0, <1>4, <3>1, <3>2 DEF Shape
  <2>2. load' \in [stage : Stage, full : BOOLEAN, servants : SUBSET Servant]
        /\ load'.stage = Objects
    BY <1>0, <1>4 DEF Shape, Stage
  <2>3. Shape' /\ Unread' /\ Filled'
    BY <1>0, <1>1, <2>1, <2>2 DEF Shape, Unread, Filled, Objects
  <2>4. Route!Next
    BY <1>1, <1>2, <2>1, LoadShown
  <2>5. QED
    BY <2>3, <2>4 DEF RouteInv
<1>5. QED
  BY <1>3, <1>4 DEF loadObjects

LEMMA UpdateRefines ==
  ASSUME RouteInv, NEW l, NEW swap, NEW next,
         \/ l = Objects /\ swap = "swap objects" /\ next = Divisions
         \/ l = Divisions /\ swap = "swap divisions" /\ next = "idle",
         updateCache(l, swap, next)
  PROVE  RouteInv' /\ [Route!Next]_Route!vars
<1> USE ListNames
<1>0. Shape /\ l \in Lists /\ swap \in Stage
  BY DEF RouteInv, Stage
<1>1. CASE /\ load.stage = l /\ To(swap)
           /\ Fill(l, Merge(l)) /\ UNCHANGED read
  <2>1. load' \in [stage : Stage, full : BOOLEAN, servants : SUBSET Servant]
        /\ load'.stage = swap /\ load'.servants = load.servants
    BY <1>0, <1>1, ToShape
  <2>2. /\ WriteKeeps /\ Quiet(l)' /\ Written(l)' = Merge(l)
        /\ \A k \in Lists : Table(k)' = Table(k)
        /\ db' = db /\ SomeSpoiled
    BY <1>0, <1>1, WriteSpoils
  <2>3. Shape'
    BY <1>0, <1>1, <2>1, <2>2, WrittenShape DEF Shape
  <2>4. Merge(l)' = Merge(l)
    BY <1>0, <1>1, <2>1, <2>2 DEF Merge
  <2>5. Unread' /\ Filled'
    BY <1>1, <2>1, <2>2, <2>4 DEF Unread, Filled
  <2>7. Route!Next
    BY <1>0, <1>1, <2>2, FillShown
  <2>8. QED
    BY <2>3, <2>5, <2>7 DEF RouteInv
<1>2. CASE /\ load.stage = swap /\ (IF next = "idle" THEN load' = Idle ELSE To(next))
           /\ Swap(l) /\ UNCHANGED <<read, loads>> /\ Unseen
  <2>1. /\ query' = query /\ db' = db /\ read' = read /\ buffer' = buffer
        /\ Written(l) = Merge(l) /\ Quiet(l)
    BY <1>2 DEF Unseen, RouteInv, Filled, Unread, Swap
  <2>2. load' \in [stage : Stage, full : BOOLEAN, servants : SUBSET Servant]
        /\ load'.stage \in {"idle", Divisions}
    <3>1. CASE next = "idle"
      <4>1. load' = Idle
        BY <1>2, <3>1, Zenon
      <4>2. QED
        BY <4>1 DEF Idle, Stage
    <3>2. CASE next = Divisions
      <4>1. Divisions # "idle" /\ Divisions \in Stage
        BY DEF Divisions, Stage
      <4>2. To(Divisions)
        BY <1>2, <3>2, <4>1
      <4>3. QED
        BY <1>0, <4>1, <4>2, ToShape
    <3>3. QED
      BY <3>1, <3>2
  <2>3. /\ current' \in [Lists -> 0 .. 1]
        /\ Table(l)' = Written(l)
        /\ \A k \in Lists : k # l => Table(k)' = Table(k)
        /\ \A c \in Client : SeenBy(query[c])' = Route!Outdated(SeenBy(query[c]), l)
    BY <1>0, <1>2, <2>1, SwapShows
  <2>4. Shape' /\ Unread' /\ Filled'
    <3>0. query' = [c \in Client |->
                [kind |-> query'[c].kind, servant |-> query'[c].servant,
                 group |-> query'[c].group, ref |-> query'[c].ref,
                 answer |-> query'[c].answer]]
      BY <1>0, <2>1 DEF Shape
    <3>1. Shape'
      BY <1>0, <2>1, <2>2, <2>3, <3>0 DEF Shape
    <3>2. Unread' /\ Filled'
      BY <1>0, <2>1, <2>2, <2>3 DEF Shape, Unread, Filled, Divisions
    <3>3. QED
      BY <3>1, <3>2
  <2>5. load.servants \in SUBSET Servant
    BY <1>0 DEF Shape
  <2>6. Route!Installed(l, load.servants) = Merge(l)
    BY <1>0 DEF Route!Installed, Route!Objects, Route!Divisions, Objects, Divisions,
                Route!Merge, Merge
  <2>7. Route!Next
    BY <1>0, <2>1, <2>3, <2>5, <2>6, SwapInstalls
  <2>8. QED
    BY <2>4, <2>7 DEF RouteInv
<1>3. QED
  BY <1>1, <1>2 DEF updateCache

LEMMA BeginRefines ==
  ASSUME RouteInv, Begin \/ Change
  PROVE  RouteInv' /\ [Route!Next]_Route!vars
<1> USE ListNames
<1>0. Shape
  BY DEF RouteInv
<1>1. /\ read' = read /\ buffer' = buffer /\ current' = current /\ query' = query
  BY DEF Begin, Change, Unseen
<1>2. /\ \A l \in Lists : Table(l)' = Table(l)
      /\ \A c \in Client : SeenBy(query[c])' = SeenBy(query[c])
  BY <1>1 DEF Table, SeenBy, Held, Looked, NoRef
<1>3. CASE Begin
  <2>1. load' \in [stage : Stage, full : BOOLEAN, servants : SUBSET Servant]
        /\ load'.stage \in {Groups, "rows"}
    BY <1>3 DEF Begin, Stage
  <2>2. Shape' /\ Unread' /\ Filled'
    BY <1>0, <1>1, <2>1 DEF Shape, Unread, Filled, Groups
  <2>3. UNCHANGED Route!vars
    BY <1>1, <1>2, <1>3, NothingShown DEF Begin, Unseen
  <2>4. QED
    BY <2>2, <2>3 DEF RouteInv
<1>4. CASE Change
  <2>1. load' = load
    BY <1>4 DEF Change
  <2>2. \A l \in Lists : (Written(l))' = Written(l) /\ Merge(l)' = Merge(l) /\ (Quiet(l))' = Quiet(l)
    BY <1>1, <1>2, <2>1 DEF Written, Merge, Quiet, Table
  <2>3. Shape' /\ Unread' /\ Filled'
    BY <1>0, <1>1, <2>1, <2>2 DEF RouteInv, Shape, Unread, Filled
  <2>4. Route!Change
    <3>1. [l \in Lists |-> Table(l)]' = [l \in Lists |-> Table(l)]
      BY <1>2
    <3>2. [c \in Client |-> SeenBy(query[c])]' = [c \in Client |-> SeenBy(query[c])]
      BY <1>2
    <3>3. QED
      BY <1>1, <3>1, <3>2 DEF Route!Change
  <2>5. QED
    BY <2>3, <2>4 DEF RouteInv, Route!Next
<1>5. QED
  BY <1>3, <1>4

-----------------------------------------------------------------------------
(***************************************************************************)
(* Steps of a query: it drops a reference or takes one to the buffer of    *)
(* the readers.                                                            *)
(***************************************************************************)
Following(c, q) ==
  /\ q = [kind |-> q.kind, servant |-> q.servant, group |-> q.group,
          ref |-> q.ref, answer |-> q.answer]
  /\ q.ref \in [Lists -> 0 .. 2]
  /\ \A l \in Lists : q.ref[l] \in {query[c].ref[l], current[l], NoRef}

LEMMA QueryKeeps ==
  ASSUME RouteInv, NEW c \in Client, NEW q, Following(c, q),
         Querying, query' = [query EXCEPT ![c] = q]
  PROVE  /\ RouteInv' /\ UNCHANGED <<db, read>>
         /\ [l \in Lists |-> Table(l)]' = [l \in Lists |-> Table(l)]
         /\ [d \in Client |-> SeenBy(query[d])]'
              = [[d \in Client |-> SeenBy(query[d])] EXCEPT ![c] = SeenBy(q)]
<1> USE ListNames
<1>0. Shape
  BY DEF RouteInv
<1>1. /\ db' = db /\ load' = load /\ read' = read /\ buffer' = buffer /\ current' = current
  BY DEF Querying, loaderVars
<1>2. \A d \in Client : query'[d] = IF d = c THEN q ELSE query[d]
  BY <1>0 DEF Shape
<1>3. \A l \in Lists : Quiet(l) => Quiet(l)'
  <2> SUFFICES ASSUME NEW l \in Lists, Quiet(l), NEW d \in Client
               PROVE  query'[d].ref[l] # 1 - current[l]
    BY <1>1 DEF Quiet
  <2>1. current[l] \in 0 .. 1 /\ query[d].ref[l] # 1 - current[l]
    BY <1>0 DEF Shape, Quiet
  <2>2. CASE d # c
    BY <1>2, <2>1, <2>2
  <2>3. CASE d = c
    <3>1. query'[d].ref[l] = q.ref[l]
      BY <1>2, <2>3
    <3>2. q.ref[l] \in {query[c].ref[l], current[l], 2}
      BY DEF NoRef, Following
    <3>3. QED
      BY <2>1, <2>3, <3>1, <3>2
  <2>4. QED
    BY <2>2, <2>3
<1>4. Shape'
  <2>1. query' = [d \in Client |->
                   [kind |-> query'[d].kind, servant |-> query'[d].servant,
                    group |-> query'[d].group, ref |-> query'[d].ref,
                    answer |-> query'[d].answer]]
    BY <1>0, <1>2 DEF Shape, Following
  <2>2. \A d \in Client : query'[d].ref \in [Lists -> 0 .. 2]
    BY <1>0, <1>2 DEF Shape, Following
  <2>3. QED
    BY <1>0, <1>1, <2>1, <2>2 DEF Shape
<1>5. Unread'
  BY <1>1, <1>3 DEF RouteInv, Unread
<1>6. Filled'
  BY <1>1 DEF RouteInv, Filled, Written, Merge, Table
<1>7. [l \in Lists |-> Table(l)]' = [l \in Lists |-> Table(l)]
  BY <1>1 DEF Table
<1>8. \A d \in Client : SeenBy(query[d])' = IF d = c THEN SeenBy(q) ELSE SeenBy(query[d])
  <2> SUFFICES ASSUME NEW d \in Client, NEW p, p = query'[d]
               PROVE  SeenBy(p)' = SeenBy(p)
    BY <1>2
  <2>1. [l \in Lists |-> IF p.ref[l] # NoRef THEN {buffer[l][p.ref[l]]} ELSE {}]'
          = [l \in Lists |-> IF p.ref[l] # NoRef THEN {buffer[l][p.ref[l]]} ELSE {}]
    BY <1>1
  <2>2. {l \in Lists : p.ref[l] = 1 - current[l]}' = {l \in Lists : p.ref[l] = 1 - current[l]}
    BY <1>1
  <2>3. QED
    BY <2>1, <2>2 DEF SeenBy, Held, Looked
<1>9. QED
  BY <1>1, <1>4, <1>5, <1>6, <1>7, <1>8 DEF RouteInv

LEMMA AskRefines ==
  ASSUME RouteInv, NEW c \in Client, Ask(c)
  PROVE  RouteInv' /\ Route!Ask(c)
<1> USE ListNames
<1>1. PICK k \in {"all", "group", "station", "set"}, s \in Servant :
        query' = [query EXCEPT ![c] = [NoQuery EXCEPT !.kind = k, !.servant = s]]
  BY DEF Ask
<1>2. PICK q : q = [NoQuery EXCEPT !.kind = k, !.servant = s]
  OBVIOUS
<1>3. q = [kind |-> k, servant |-> s, group |-> NoQuery.group, ref |-> NoQuery.ref,
           answer |-> NoQuery.answer]
  <2>1. IsQuery(NoQuery)
    BY DEF NoQuery, IsQuery, Query
  <2>2. q = WithServant(NoQuery, k, s)
    BY <1>2, Zenon DEF WithServant
  <2>3. QED
    BY <2>1, <2>2, AskHeld, Zenon
<1>4. Following(c, q)
  BY <1>3 DEF Following, NoQuery, NoRef
<1>5. Querying /\ query' = [query EXCEPT ![c] = q] /\ query[c] = NoQuery
  BY <1>1, <1>2, Zenon DEF Ask
<1>6. /\ RouteInv' /\ UNCHANGED <<db, read>>
      /\ [l \in Lists |-> Table(l)]' = [l \in Lists |-> Table(l)]
      /\ [d \in Client |-> SeenBy(query[d])]'
           = [[d \in Client |-> SeenBy(query[d])] EXCEPT ![c] = SeenBy(q)]
  BY <1>4, <1>5, QueryKeeps, Zenon
<1>0. current \in [Lists -> 0 .. 1]
  BY DEF RouteInv, Shape
<1>7. SeenBy(query[c]) = Route!NoQuery
  BY <1>0, <1>5, SeenNone
<1>8. SeenBy(q) = [Route!NoQuery EXCEPT !.kind = k, !.servant = s]
  <2>1. PICK r, p : r = SeenBy(NoQuery) /\ p = [r EXCEPT !.kind = k, !.servant = s]
    OBVIOUS
  <2>2. p = [kind |-> k, servant |-> s, group |-> r.group,
             answer |-> r.answer, seen |-> r.seen, old |-> r.old]
    <3>1. p = WithServant(r, k, s) /\ IsLooks(r)
      BY <2>1, SeenLooks, Zenon DEF WithServant
    <3>2. QED
      BY <3>1, AskSeen, Zenon
  <2>3. SeenBy(q) = [kind |-> k, servant |-> s, group |-> r.group,
                     answer |-> r.answer, seen |-> r.seen, old |-> r.old]
    BY <1>3, <2>1 DEF SeenBy, Held, Looked
  <2>4. r = Route!NoQuery
    BY <1>0, <2>1, SeenNone
  <2>5. QED
    BY <2>1, <2>2, <2>3, <2>4, Zenon
<1>9. [d \in Client |-> SeenBy(query[d])][c] = SeenBy(query[c])
  OBVIOUS
<1>10. [d \in Client |-> SeenBy(query[d])]'
         = [[d \in Client |-> SeenBy(query[d])] EXCEPT ![c] =
              [Route!NoQuery EXCEPT !.kind = k, !.servant = s]]
  BY <1>6, <1>8, Zenon
<1>11. QED
  BY <1>6, <1>7, <1>9, <1>10, Zenon DEF Route!Ask

\* A query that lets go of a list has not seen it, and does not hold it any more.
LEMMA DroppedSeen ==
  ASSUME current \in [Lists -> 0 .. 1], NEW p, NEW q, NEW l \in Lists,
         p.ref \in [Lists -> 0 .. 2], q.ref = [p.ref EXCEPT ![l] = NoRef]
  PROVE  /\ SeenBy(q).seen = [SeenBy(p).seen EXCEPT ![l] = {}]
         /\ SeenBy(q).old = SeenBy(p).old \ {l}
<1>1. \A k \in Lists : q.ref[k] = IF k = l THEN 2 ELSE p.ref[k]
  BY DEF NoRef
<1>2. /\ SeenBy(p).seen = [k \in Lists |-> IF Held(p, k) THEN {Looked(p, k)} ELSE {}]
      /\ SeenBy(q).seen = [k \in Lists |-> IF Held(q, k) THEN {Looked(q, k)} ELSE {}]
  BY DEF SeenBy
<1>3. \A k \in Lists : (IF Held(q, k) THEN {Looked(q, k)} ELSE {})
        = IF k = l THEN {} ELSE IF Held(p, k) THEN {Looked(p, k)} ELSE {}
  BY <1>1 DEF Held, Looked, NoRef
<1>4. SeenBy(q).seen = [SeenBy(p).seen EXCEPT ![l] = {}]
  <2>1. PICK f, h : f = SeenBy(p).seen /\ h = SeenBy(q).seen
    OBVIOUS
  <2>2. /\ f = [k \in Lists |-> IF Held(p, k) THEN {Looked(p, k)} ELSE {}]
        /\ h = [k \in Lists |-> IF Held(q, k) THEN {Looked(q, k)} ELSE {}]
    BY <1>2, <2>1, Zenon
  <2>3. /\ DOMAIN f = Lists /\ h = [k \in Lists |-> h[k]]
        /\ \A k \in Lists : h[k] = IF k = l THEN {} ELSE f[k]
    BY <1>3, <2>2
  <2>4. h = [f EXCEPT ![l] = {}]
    BY <2>2, <2>3
  <2>5. QED
    BY <2>1, <2>4, Zenon
<1>5. /\ SeenBy(p).old = {k \in Lists : p.ref[k] = 1 - current[k]}
      /\ SeenBy(q).old = {k \in Lists : q.ref[k] = 1 - current[k]}
  BY DEF SeenBy
<1>6. 2 # 1 - current[l]
  OBVIOUS
<1>7. \A k \in Lists : q.ref[k] = 1 - current[k] <=> (p.ref[k] = 1 - current[k] /\ k # l)
  BY <1>1, <1>6
<1>8. QED
  BY <1>4, <1>5, <1>7

LEMMA GroupRefines ==
  ASSUME RouteInv, NEW c \in Client, query[c].kind = "group", Held(query[c], Groups), Querying,
         query' = [query EXCEPT ![c] =
                     [query[c] EXCEPT !.kind = "grouped", !.ref[Groups] = NoRef,
                        !.group = GroupOf(Looked(query[c], Groups), Star, Home)]]
  PROVE  RouteInv' /\ Route!FindGroup(c)
<1> USE ListNames
<1>0. Shape
  BY DEF RouteInv
<1>1. PICK p, v, group : /\ p = query[c] /\ v = NoRef
                         /\ group = GroupOf(Looked(p, Groups), Star, Home)
  OBVIOUS
<1>2. PICK q : q = [p EXCEPT !.kind = "grouped", !.ref[Groups] = v, !.group = group]
  OBVIOUS
<1>3. IsQuery(p) /\ p.ref \in [Lists -> 0 .. 2] /\ v \in 0 .. 2
  BY <1>0, <1>1 DEF Shape, NoRef, IsQuery, Query
<1>4. q = [kind |-> "grouped", servant |-> p.servant, group |-> group,
           ref |-> [p.ref EXCEPT ![Groups] = v], answer |-> p.answer]
  <2>1. q = WithGroup(p, "grouped", Groups, v, group)
    BY <1>2, Zenon DEF WithGroup
  <2>2. QED
    BY <1>3, <2>1, GroupHeld
<1>5. Following(c, q)
  BY <1>1, <1>3, <1>4 DEF Following
<1>6. Querying /\ query' = [query EXCEPT ![c] = q]
  BY <1>1, <1>2
<1>7. /\ RouteInv' /\ UNCHANGED <<db, read>>
      /\ [k \in Lists |-> Table(k)]' = [k \in Lists |-> Table(k)]
      /\ [d \in Client |-> SeenBy(query[d])]'
           = [[d \in Client |-> SeenBy(query[d])] EXCEPT ![c] = SeenBy(q)]
  BY <1>5, <1>6, QueryKeeps, Zenon
<1>8. PICK r, o : r = SeenBy(p) /\ o = r.old \ {Groups}
  OBVIOUS
<1>9. IsLooks(r)
  BY <1>8, SeenLooks, Zenon
<1>10. PICK u : u = [r EXCEPT !.kind = "grouped", !.seen[Groups] = {}, !.old = o, !.group = group]
  OBVIOUS
<1>11. u = [kind |-> "grouped", servant |-> r.servant, group |-> group, answer |-> r.answer,
            seen |-> [r.seen EXCEPT ![Groups] = {}], old |-> o]
  <2>1. u = GroupKnown(r, "grouped", Groups, {}, o, group)
    BY <1>10, Zenon DEF GroupKnown
  <2>2. QED
    BY <1>9, <2>1, GroupSeen
<1>12. SeenBy(q) = u
  <2>1. SeenBy(q).seen = [r.seen EXCEPT ![Groups] = {}] /\ SeenBy(q).old = o
    <3>1. q.ref = [p.ref EXCEPT ![Groups] = NoRef] /\ current \in [Lists -> 0 .. 1]
      BY <1>0, <1>1, <1>4 DEF Shape
    <3>2. QED
      BY <1>3, <1>8, <3>1, DroppedSeen
  <2>2. r.servant = p.servant /\ r.answer = p.answer
    BY <1>8 DEF SeenBy
  <2>3. /\ SeenBy(q).kind = "grouped" /\ SeenBy(q).servant = p.servant
        /\ SeenBy(q).group = group /\ SeenBy(q).answer = p.answer
    BY <1>4 DEF SeenBy
  <2>4. SeenBy(q) = Looks(SeenBy(q))
    BY SeenLooks, Zenon
  <2>5. QED
    BY <1>11, <2>1, <2>2, <2>3, <2>4, Zenon DEF Looks
<1>13. /\ [d \in Client |-> SeenBy(query[d])][c] = r
       /\ r.kind = "group" /\ r.seen[Groups] # {} /\ Groups = Route!Groups
       /\ Route!Version(r, Groups) = Looked(p, Groups)
  <2>1. r.seen[Groups] = {Looked(p, Groups)} /\ r.kind = "group"
    BY <1>1, <1>8 DEF SeenBy
  <2>2. QED
    BY <1>1, <1>8, <2>1 DEF Route!Version, Groups, Route!Groups
<1>14. Route!GroupOf(Route!Version(r, Groups), Star, Home) = group
  BY <1>1, <1>13, SameGroups
<1>15. QED
  BY <1>7, <1>8, <1>10, <1>12, <1>13, <1>14, Zenon DEF Route!FindGroup

LEMMA TakeRefines ==
  ASSUME RouteInv, NEW c \in Client, NEW l \in Lists, query[c].kind \notin {"none", "spoiled"},
         Take(c, l)
  PROVE  RouteInv' /\ Route!LookAt(c, l)
<1> USE ListNames
<1>0. Shape /\ ~Held(query[c], l) /\ current[l] \in 0 .. 1
  BY DEF RouteInv, Take, Shape
<1>1. PICK p, v : p = query[c] /\ v = current[l]
  OBVIOUS
<1>2. PICK q : q = [p EXCEPT !.ref[l] = v]
  OBVIOUS
<1>3. IsQuery(p) /\ p.ref \in [Lists -> 0 .. 2] /\ v \in 0 .. 1
  BY <1>0, <1>1 DEF Shape, IsQuery, Query
<1>4. q = [kind |-> p.kind, servant |-> p.servant, group |-> p.group,
           ref |-> [p.ref EXCEPT ![l] = v], answer |-> p.answer]
  BY <1>2, <1>3, TakeHeld, Zenon
<1>5. Following(c, q)
  BY <1>1, <1>3, <1>4 DEF Following
<1>6. Querying /\ query' = [query EXCEPT ![c] = q]
  BY <1>1, <1>2 DEF Take
<1>7. /\ RouteInv' /\ UNCHANGED <<db, read>>
      /\ [k \in Lists |-> Table(k)]' = [k \in Lists |-> Table(k)]
      /\ [d \in Client |-> SeenBy(query[d])]'
           = [[d \in Client |-> SeenBy(query[d])] EXCEPT ![c] = SeenBy(q)]
  BY <1>5, <1>6, QueryKeeps, Zenon
<1>8. PICK r, w : r = SeenBy(p) /\ w = {Table(l)}
  OBVIOUS
<1>9. IsLooks(r)
  BY <1>8, SeenLooks, Zenon
<1>10. PICK u : u = [r EXCEPT !.seen[l] = w]
  OBVIOUS
<1>11. u = [kind |-> r.kind, servant |-> r.servant, group |-> r.group,
            answer |-> r.answer, seen |-> [r.seen EXCEPT ![l] = w],
            old |-> r.old]
  BY <1>9, <1>10, TakeSeen, Zenon
<1>12. SeenBy(q) = u
  <2>1. [k \in Lists |-> IF Held(q, k) THEN {Looked(q, k)} ELSE {}] = [r.seen EXCEPT ![l] = w]
    <3>1. r.seen = [k \in Lists |-> IF Held(p, k) THEN {Looked(p, k)} ELSE {}]
      BY <1>8 DEF SeenBy
    <3>2. \A k \in Lists : q.ref[k] = IF k = l THEN v ELSE p.ref[k]
      BY <1>3, <1>4
    <3>3. \A k \in Lists : (IF Held(q, k) THEN {Looked(q, k)} ELSE {})
            = IF k = l THEN w ELSE IF Held(p, k) THEN {Looked(p, k)} ELSE {}
      <4>1. w = {buffer[l][v]} /\ v # 2
        BY <1>1, <1>3, <1>8 DEF Table
      <4>2. QED
        BY <3>2, <4>1 DEF Held, Looked, NoRef
    <3>4. QED
      BY <3>1, <3>3
  <2>2. r.kind = p.kind /\ r.servant = p.servant /\ r.group = p.group /\ r.answer = p.answer
    BY <1>8 DEF SeenBy
  <2>3. q.kind = p.kind /\ q.servant = p.servant /\ q.group = p.group /\ q.answer = p.answer
    BY <1>4
  <2>4. {k \in Lists : q.ref[k] = 1 - current[k]} = r.old
    <3>1. r.old = {k \in Lists : p.ref[k] = 1 - current[k]}
      BY <1>8 DEF SeenBy
    <3>2. \A k \in Lists : q.ref[k] = IF k = l THEN v ELSE p.ref[k]
      BY <1>3, <1>4
    <3>3. /\ p.ref[l] = 2 /\ v = current[l]
          /\ v # 1 - current[l] /\ 2 # 1 - current[l]
      BY <1>0, <1>1, <1>3 DEF Held, NoRef
    <3>4. \A k \in Lists : q.ref[k] = 1 - current[k] <=> p.ref[k] = 1 - current[k]
      BY <3>2, <3>3
    <3>5. QED
      BY <3>1, <3>4
  <2>5. QED
    BY <1>11, <2>1, <2>2, <2>3, <2>4, Zenon DEF SeenBy
<1>13. /\ [d \in Client |-> SeenBy(query[d])][c] = r
       /\ r.kind \notin {"none", "spoiled"} /\ r.seen[l] = {}
       /\ [k \in Lists |-> Table(k)][l] = Table(l)
  BY <1>0, <1>1, <1>8 DEF SeenBy
<1>14. QED
  BY <1>7, <1>8, <1>10, <1>12, <1>13, Zenon DEF Route!LookAt

LEMMA FallBackRefines ==
  ASSUME RouteInv, NEW c \in Client, query[c].kind = "set", Querying,
         query' = [query EXCEPT ![c] = [query[c] EXCEPT !.kind = "group", !.ref[Divisions] = NoRef]]
  PROVE  RouteInv' /\ Route!FallBack(c)
<1> USE ListNames
<1>0. Shape
  BY DEF RouteInv
<1>1. PICK p, v : p = query[c] /\ v = NoRef
  OBVIOUS
<1>2. PICK q : q = [p EXCEPT !.kind = "group", !.ref[Divisions] = v]
  OBVIOUS
<1>3. IsQuery(p) /\ p.ref \in [Lists -> 0 .. 2] /\ v \in 0 .. 2
  BY <1>0, <1>1 DEF Shape, NoRef, IsQuery, Query
<1>4. q = [kind |-> "group", servant |-> p.servant, group |-> p.group,
           ref |-> [p.ref EXCEPT ![Divisions] = v], answer |-> p.answer]
  <2>1. q = WithoutRef(p, "group", Divisions, v)
    BY <1>2, Zenon DEF WithoutRef
  <2>2. QED
    BY <1>3, <2>1, DropHeld
<1>5. Following(c, q)
  BY <1>1, <1>3, <1>4 DEF Following
<1>6. Querying /\ query' = [query EXCEPT ![c] = q]
  BY <1>1, <1>2
<1>7. /\ RouteInv' /\ UNCHANGED <<db, read>>
      /\ [k \in Lists |-> Table(k)]' = [k \in Lists |-> Table(k)]
      /\ [d \in Client |-> SeenBy(query[d])]'
           = [[d \in Client |-> SeenBy(query[d])] EXCEPT ![c] = SeenBy(q)]
  BY <1>5, <1>6, QueryKeeps, Zenon
<1>8. PICK r, o : r = SeenBy(p) /\ o = r.old \ {Divisions}
  OBVIOUS
<1>9. IsLooks(r)
  BY <1>8, SeenLooks, Zenon
<1>10. PICK u : u = [r EXCEPT !.kind = "group", !.seen[Divisions] = {}, !.old = o]
  OBVIOUS
<1>11. u = [kind |-> "group", servant |-> r.servant, group |-> r.group, answer |-> r.answer,
            seen |-> [r.seen EXCEPT ![Divisions] = {}], old |-> o]
  <2>1. u = WithoutSeen(r, "group", Divisions, {}, o)
    BY <1>10, Zenon DEF WithoutSeen
  <2>2. QED
    BY <1>9, <2>1, DropSeen
<1>12. SeenBy(q) = u
  <2>1. SeenBy(q).seen = [r.seen EXCEPT ![Divisions] = {}] /\ SeenBy(q).old = o
    <3>1. q.ref = [p.ref EXCEPT ![Divisions] = NoRef] /\ current \in [Lists -> 0 .. 1]
      BY <1>0, <1>1, <1>4 DEF Shape
    <3>2. QED
      BY <1>3, <1>8, <3>1, DroppedSeen
  <2>2. r.servant = p.servant /\ r.group = p.group /\ r.answer = p.answer
    BY <1>8 DEF SeenBy
  <2>3. /\ SeenBy(q).kind = "group" /\ SeenBy(q).servant = p.servant
        /\ SeenBy(q).group = p.group /\ SeenBy(q).answer = p.answer
    BY <1>4 DEF SeenBy
  <2>4. SeenBy(q) = Looks(SeenBy(q))
    BY SeenLooks, Zenon
  <2>5. QED
    BY <1>11, <2>1, <2>2, <2>3, <2>4, Zenon DEF Looks
<1>13. /\ [d \in Client |-> SeenBy(query[d])][c] = r
       /\ r.kind = "set" /\ Divisions = Route!Divisions
  BY <1>1, <1>8 DEF SeenBy, Divisions, Route!Divisions
<1>14. QED
  BY <1>7, <1>8, <1>10, <1>12, <1>13, Zenon DEF Route!FallBack

LEMMA VersionHeld ==
  \A q, l : (l \in Lists /\ Held(q, l)) => /\ Route!Seen(SeenBy(q), l)
                                         /\ Route!Version(SeenBy(q), l) = Looked(q, l)
<1> SUFFICES ASSUME NEW q, NEW l \in Lists, Held(q, l)
             PROVE  /\ Route!Seen(SeenBy(q), l)
                    /\ Route!Version(SeenBy(q), l) = Looked(q, l)
  OBVIOUS
<1>1. SeenBy(q).seen[l] = {Looked(q, l)}
  BY DEF SeenBy
<1>2. QED
  BY <1>1 DEF Route!Seen, Route!Version

LEMMA SameFields ==
  \A q : /\ SeenBy(q).kind = q.kind /\ SeenBy(q).servant = q.servant
         /\ SeenBy(q).group = q.group
BY DEF SeenBy

LEMMA SameNames ==
  /\ Route!Objects = Objects /\ Route!Priorities = Priorities /\ Route!Divisions = Divisions
  /\ Route!Groups = Groups
BY DEF Route!Objects, Objects, Route!Priorities, Priorities, Route!Divisions, Divisions,
       Route!Groups, Groups

\* A query that is ready here is ready there, and gets the same answer.
LEMMA SameAnswer ==
  ASSUME NEW q, Ready(q)
  PROVE  Route!Ready(SeenBy(q)) /\ Route!AnswerTo(SeenBy(q)) = AnswerTo(q)
<1> SUFFICES ASSUME NEW p, p = SeenBy(q)
             PROVE  Route!Ready(p) /\ Route!AnswerTo(p) = AnswerTo(q)
  OBVIOUS
<1>0. /\ p.kind = q.kind /\ p.servant = q.servant /\ p.group = q.group
      /\ Objects \in Lists /\ Priorities \in Lists /\ Divisions \in Lists
  BY SameFields, ListNames
<1>1. CASE q.kind = "all"
  <2>1. Held(q, Objects)
    BY <1>1 DEF Ready
  <2>2. Route!Seen(p, Objects) /\ Route!Version(p, Objects) = Looked(q, Objects)
    BY <1>0, <2>1, VersionHeld
  <2>3. QED
    BY <1>0, <1>1, <2>2, SameNames DEF Route!Ready, Route!AnswerTo, AnswerTo
<1>2. CASE q.kind = "grouped"
  <2>1. Held(q, Objects) /\ (q.group = Ungrouped \/ Held(q, Priorities))
    BY <1>2 DEF Ready
  <2>2. /\ Route!Seen(p, Objects) /\ Route!Version(p, Objects) = Looked(q, Objects)
        /\ q.group # Ungrouped =>
             Route!Seen(p, Priorities) /\ Route!Version(p, Priorities) = Looked(q, Priorities)
    BY <1>0, <2>1, VersionHeld
  <2>3. QED
    BY <1>0, <1>2, <2>2, SameNames, SameGroups, SameInGroup
       DEF Route!Ready, Route!AnswerTo, AnswerTo
<1>3. CASE q.kind = "station"
  <2>1. /\ Held(q, Priorities)
        /\ StationKnown(Looked(q, Priorities), Station) => Held(q, Objects)
    BY <1>3 DEF Ready
  <2>2. /\ Route!Seen(p, Priorities) /\ Route!Version(p, Priorities) = Looked(q, Priorities)
        /\ StationKnown(Looked(q, Priorities), Station) =>
             Route!Seen(p, Objects) /\ Route!Version(p, Objects) = Looked(q, Objects)
    BY <1>0, <2>1, VersionHeld
  <2>3. QED
    BY <1>0, <1>3, <2>2, SameNames, SameInStation
       DEF Route!Ready, Route!AnswerTo, AnswerTo
<1>4. CASE q.kind = "set"
  <2>1. Held(q, Divisions)
    BY <1>4 DEF Ready
  <2>2. Route!Seen(p, Divisions) /\ Route!Version(p, Divisions) = Looked(q, Divisions)
    BY <1>0, <2>1, VersionHeld
  <2>3. QED
    BY <1>0, <1>4, <2>2, SameNames, SameInSet DEF Route!Ready, Route!AnswerTo, AnswerTo
<1>5. QED
  BY <1>1, <1>2, <1>3, <1>4 DEF Ready

LEMMA OverRefines ==
  ASSUME RouteInv, NEW c \in Client, NEW answer, Querying,
         query' = [query EXCEPT ![c] = [NoQuery EXCEPT !.answer = answer]]
  PROVE  /\ RouteInv' /\ UNCHANGED <<db, read>>
         /\ [l \in Lists |-> Table(l)]' = [l \in Lists |-> Table(l)]
         /\ [d \in Client |-> SeenBy(query[d])]'
              = [[d \in Client |-> SeenBy(query[d])] EXCEPT ![c] =
                   [Route!NoQuery EXCEPT !.answer = answer]]
<1> USE ListNames
<1>1. PICK q : q = [NoQuery EXCEPT !.answer = answer]
  OBVIOUS
<1>2. q = [kind |-> "none", servant |-> "none", group |-> Ungrouped,
           ref |-> [l \in Lists |-> NoRef], answer |-> answer]
  BY <1>1 DEF NoQuery
<1>3. Following(c, q)
  BY <1>2 DEF Following, NoRef
<1>4. query' = [query EXCEPT ![c] = q]
  BY <1>1
<1>5. /\ RouteInv' /\ UNCHANGED <<db, read>>
      /\ [l \in Lists |-> Table(l)]' = [l \in Lists |-> Table(l)]
      /\ [d \in Client |-> SeenBy(query[d])]'
           = [[d \in Client |-> SeenBy(query[d])] EXCEPT ![c] = SeenBy(q)]
  BY <1>3, <1>4, QueryKeeps, Zenon
<1>6. SeenBy(q) = [Route!NoQuery EXCEPT !.answer = answer]
  BY <1>1, SeenNone DEF RouteInv, Shape
<1>7. QED
  BY <1>5, <1>6, Zenon

LEMMA AnswerRefines ==
  ASSUME RouteInv, NEW c \in Client, Answer(c)
  PROVE  RouteInv' /\ Route!Answer(c)
<1>1. PICK answer : answer = AnswerTo(query[c])
  OBVIOUS
<1>2. Querying /\ query' = [query EXCEPT ![c] = [NoQuery EXCEPT !.answer = answer]]
  BY <1>1 DEF Answer
<1>3. /\ RouteInv' /\ UNCHANGED <<db, read>>
      /\ [l \in Lists |-> Table(l)]' = [l \in Lists |-> Table(l)]
      /\ [d \in Client |-> SeenBy(query[d])]'
           = [[d \in Client |-> SeenBy(query[d])] EXCEPT ![c] =
                [Route!NoQuery EXCEPT !.answer = answer]]
  BY <1>2, OverRefines, Zenon
<1>4. Route!Ready(SeenBy(query[c])) /\ Route!AnswerTo(SeenBy(query[c])) = answer
  BY <1>1, SameAnswer DEF Answer
<1>5. [d \in Client |-> SeenBy(query[d])][c] = SeenBy(query[c])
  OBVIOUS
<1>6. QED
  BY <1>3, <1>4, <1>5, Zenon DEF Route!Answer

LEMMA LeaveRefines ==
  ASSUME RouteInv, NEW c \in Client, Leave(c)
  PROVE  RouteInv' /\ Route!Leave(c)
<1>1. NoQuery = [NoQuery EXCEPT !.answer = {}]
  BY DEF NoQuery
<1>2. Route!NoQuery = [Route!NoQuery EXCEPT !.answer = {}]
  BY DEF Route!NoQuery
<1>3. Querying /\ query' = [query EXCEPT ![c] = [NoQuery EXCEPT !.answer = {}]]
  BY <1>1 DEF Leave
<1>4. /\ RouteInv' /\ UNCHANGED <<db, read>>
      /\ [l \in Lists |-> Table(l)]' = [l \in Lists |-> Table(l)]
      /\ [d \in Client |-> SeenBy(query[d])]'
           = [[d \in Client |-> SeenBy(query[d])] EXCEPT ![c] =
                [Route!NoQuery EXCEPT !.answer = {}]]
  BY <1>3, OverRefines, Zenon
<1>5. QED
  BY <1>2, <1>4, Zenon DEF Route!Leave

QueryStep(c) ==
  \/ Ask(c) \/ getGroupId(c) \/ findObjectById4All(c)
  \/ findObjectByIdInGroupPriority(c) \/ findObjectByIdInSameStation(c)
  \/ findObjectByIdInSameSet(c) \/ Answer(c) \/ Leave(c)

LEMMA QueryRefines ==
  ASSUME RouteInv, NEW c \in Client, QueryStep(c)
  PROVE  RouteInv' /\ Route!Next
<1>1. Groups \in Lists /\ Objects \in Lists /\ Priorities \in Lists /\ Divisions \in Lists
  BY ListNames
<1>2. RouteInv' /\ \/ Route!Ask(c) \/ Route!FindGroup(c) \/ Route!FallBack(c)
                   \/ Route!Answer(c) \/ Route!Leave(c)
                   \/ \E l \in Lists : Route!LookAt(c, l)
  <2>1. CASE Ask(c)
    BY <2>1, AskRefines
  <2>2. CASE getGroupId(c)
    <3>1. query[c].kind = "group"
      BY <2>2 DEF getGroupId
    <3>2. CASE Take(c, Groups)
      BY <1>1, <3>1, <3>2, TakeRefines
    <3>3. CASE /\ Held(query[c], Groups) /\ Querying
               /\ query' = [query EXCEPT ![c] =
                     [query[c] EXCEPT !.kind = "grouped", !.ref[Groups] = NoRef,
                        !.group = GroupOf(Looked(query[c], Groups), Star, Home)]]
      BY <3>1, <3>3, GroupRefines, Zenon
    <3>4. QED
      BY <2>2, <3>2, <3>3, Zenon DEF getGroupId
  <2>3. CASE findObjectById4All(c)
    <3>1. query[c].kind \notin {"none", "spoiled"} /\ Take(c, Objects)
      BY <2>3 DEF findObjectById4All
    <3>2. QED
      BY <1>1, <3>1, TakeRefines
  <2>4. CASE findObjectByIdInGroupPriority(c)
    <3>1. query[c].kind \notin {"none", "spoiled"} /\ Take(c, Priorities)
      BY <2>4 DEF findObjectByIdInGroupPriority
    <3>2. QED
      BY <1>1, <3>1, TakeRefines
  <2>5. CASE findObjectByIdInSameStation(c)
    <3>1. query[c].kind \notin {"none", "spoiled"} /\ \/ Take(c, Priorities) \/ Take(c, Objects)
      BY <2>5 DEF findObjectByIdInSameStation
    <3>2. QED
      BY <1>1, <3>1, TakeRefines
  <2>6. CASE findObjectByIdInSameSet(c)
    <3>1. CASE Take(c, Divisions)
      <4>1. query[c].kind \notin {"none", "spoiled"}
        BY <2>6 DEF findObjectByIdInSameSet
      <4>2. QED
        BY <1>1, <3>1, <4>1, TakeRefines
    <3>2. CASE /\ Querying
               /\ query' = [query EXCEPT ![c] = [query[c] EXCEPT !.kind = "group",
                                                               !.ref[Divisions] = NoRef]]
      <4>1. query[c].kind = "set"
        BY <2>6 DEF findObjectByIdInSameSet
      <4>2. QED
        BY <3>2, <4>1, FallBackRefines, Zenon
    <3>3. QED
      BY <2>6, <3>1, <3>2, Zenon DEF findObjectByIdInSameSet
  <2>7. CASE Answer(c)
    BY <2>7, AnswerRefines
  <2>8. CASE Leave(c)
    BY <2>8, LeaveRefines
  <2>9. QED
    BY <2>1, <2>2, <2>3, <2>4, <2>5, <2>6, <2>7, <2>8 DEF QueryStep
<1>3. QED
  BY <1>2, Zenon DEF Route!Next

LEMMA StepRefines == RouteInv /\ [Next]_vars => RouteInv' /\ [Route!Next]_Route!vars
<1> SUFFICES ASSUME RouteInv, [Next]_vars PROVE RouteInv' /\ [Route!Next]_Route!vars
  OBVIOUS
<1>1. CASE Begin \/ Change
  BY <1>1, BeginRefines
<1>2. CASE loadIPPhysicalGroupInfo
  BY <1>2, LoadGroupsRefines
<1>3. CASE loadGroupPriority
  BY <1>3, LoadPrioritiesRefines
<1>4. CASE loadObjects
  BY <1>4, LoadObjectsRefines
<1>5. CASE updateObjectsCache
  BY <1>5, UpdateRefines DEF updateObjectsCache
<1>6. CASE updateDivisionCache
  BY <1>6, UpdateRefines DEF updateDivisionCache
<1>7. ASSUME NEW c \in Client, QueryStep(c)
      PROVE  RouteInv' /\ Route!Next
  BY <1>7, QueryRefines
<1>8. CASE UNCHANGED vars
  <2>1. /\ db' = db /\ load' = load /\ read' = read /\ buffer' = buffer
        /\ current' = current /\ query' = query
    BY <1>8 DEF vars
  <2>2. RouteInv'
    BY <2>1 DEF RouteInv, Shape, Unread, Filled, Quiet, Written, Merge, Table
  <2>3. UNCHANGED Route!vars
    BY <2>1, NothingShown DEF Table, SeenBy, Held, Looked, NoRef
  <2>4. QED
    BY <2>2, <2>3
<1>9. QED
  BY <1>1, <1>2, <1>3, <1>4, <1>5, <1>6, <1>7, <1>8 DEF Next, QueryStep

\* Two buffers, an index and references implement lists that are replaced at
\* once, and of which a query sees one version throughout: for any servants,
\* clients and contents of the database, and any number of loads.
THEOREM Implements == Spec => OneVersion
<1>1. Init => RouteInv /\ Route!Init
  BY InitRefines
<1>2. RouteInv /\ [Next]_vars => RouteInv' /\ [Route!Next]_Route!vars
  BY StepRefines
<1>3. QED
  BY <1>1, <1>2, PTL DEF Spec, OneVersion, Route!Spec

-----------------------------------------------------------------------------
(***************************************************************************)
(* The station lists are sequences, and a query with an answer is over.    *)
(***************************************************************************)
Sized ==
  /\ DOMAIN db = {"rules", "priorities", "rows"}
  /\ Len(db.priorities) \in Nat /\ Len(read[Priorities]) \in Nat
  /\ \A i \in 0 .. 1 : Len(buffer[Priorities][i]) \in Nat

Over == \A c \in Client : query[c].answer # {} => query[c].kind = "none"

LEMMA InitSized == Init => Sized /\ Over
<1> SUFFICES ASSUME Init PROVE Sized /\ Over
  OBVIOUS
<1> USE ListNames
<1>1. DOMAIN db = {"rules", "priorities", "rows"} /\ Len(db.priorities) \in Nat
  BY RouteCacheAssumption DEF Init, RouteCacheAssumption
<1>2. read[Priorities] = db.priorities /\ Empty(Priorities) = <<>>
  BY DEF Init, Empty
<1>3. \A i \in 0 .. 1 : Len(buffer[Priorities][i]) \in Nat
  BY <1>1, <1>2 DEF Init
<1>4. Over
  BY DEF Init, Over, NoQuery
<1>5. QED
  BY <1>1, <1>2, <1>3, <1>4 DEF Sized

LEMMA TakeMoves ==
  ASSUME Shape, NEW c \in Client, NEW l \in Lists, Take(c, l)
  PROVE  /\ \A d \in Client : d # c => query'[d] = query[d]
         /\ query'[c].kind = query[c].kind /\ query'[c].answer = query[c].answer
<1>1. PICK p, v : p = query[c] /\ v = current[l]
  OBVIOUS
<1>2. PICK q : q = [p EXCEPT !.ref[l] = v]
  OBVIOUS
<1>3. IsQuery(p)
  BY <1>1 DEF Shape, IsQuery, Query
<1>4. q = [kind |-> p.kind, servant |-> p.servant, group |-> p.group,
           ref |-> [p.ref EXCEPT ![l] = v], answer |-> p.answer]
  BY <1>2, <1>3, TakeHeld, Zenon
<1>5. query' = [query EXCEPT ![c] = q]
  BY <1>1, <1>2 DEF Take
<1>6. \A d \in Client : query'[d] = IF d = c THEN q ELSE query[d]
  BY <1>5 DEF Shape
<1>7. q.kind = p.kind /\ q.answer = p.answer
  BY <1>4
<1>8. QED
  BY <1>1, <1>6, <1>7

\* A query of a group is over by an answer alone.
LEMMA QueryMoves ==
  ASSUME RouteInv, Over, NEW c \in Client, QueryStep(c)
  PROVE  /\ \A d \in Client : d # c => query'[d] = query[d]
         /\ query'[c].answer # {} => query'[c].kind = "none"
         /\ query[c].kind = "grouped" /\ query'[c].kind = "none" => Answer(c)
<1> USE ListNames
<1>0. Shape
  BY DEF RouteInv
<1>1. query[c].answer # {} => query[c].kind = "none"
  BY DEF Over
<1>2. CASE Ask(c)
  <2>1. PICK k \in {"all", "group", "station", "set"}, s \in Servant :
          query' = [query EXCEPT ![c] = [NoQuery EXCEPT !.kind = k, !.servant = s]]
    BY <1>2 DEF Ask
  <2>2. PICK q : q = [NoQuery EXCEPT !.kind = k, !.servant = s]
    OBVIOUS
  <2>3. q = [kind |-> k, servant |-> s, group |-> NoQuery.group, ref |-> NoQuery.ref,
             answer |-> NoQuery.answer]
    <3>1. IsQuery(NoQuery)
      BY DEF NoQuery, IsQuery, Query
    <3>2. q = WithServant(NoQuery, k, s)
      BY <2>2, Zenon DEF WithServant
    <3>3. QED
      BY <3>1, <3>2, AskHeld, Zenon
  <2>4. \A d \in Client : query'[d] = IF d = c THEN q ELSE query[d]
    BY <1>0, <2>1, <2>2 DEF Shape
  <2>5. q.answer = {} /\ query[c].kind = "none"
    BY <1>2, <2>3 DEF Ask, NoQuery
  <2>6. QED
    BY <2>4, <2>5
<1>3. CASE /\ query[c].kind = "group"
           /\ query' = [query EXCEPT ![c] =
                 [query[c] EXCEPT !.kind = "grouped", !.ref[Groups] = NoRef,
                    !.group = GroupOf(Looked(query[c], Groups), Star, Home)]]
  <2>1. PICK p, q, g : /\ p = query[c] /\ g = GroupOf(Looked(p, Groups), Star, Home)
                       /\ q = [p EXCEPT !.kind = "grouped", !.ref[Groups] = NoRef, !.group = g]
    OBVIOUS
  <2>2. IsQuery(p)
    BY <1>0, <2>1 DEF Shape, IsQuery, Query
  <2>3. q = [kind |-> "grouped", servant |-> p.servant, group |-> g,
             ref |-> [p.ref EXCEPT ![Groups] = NoRef], answer |-> p.answer]
    <3>1. q = WithGroup(p, "grouped", Groups, NoRef, g)
      BY <2>1, Zenon DEF WithGroup
    <3>2. QED
      BY <2>2, <3>1, GroupHeld
  <2>4. query' = [query EXCEPT ![c] = q]
    BY <1>3, <2>1, Zenon
  <2>5. \A d \in Client : query'[d] = IF d = c THEN q ELSE query[d]
    BY <1>0, <2>4 DEF Shape
  <2>6. q.answer = {}
    BY <1>1, <1>3, <2>1, <2>3
  <2>7. QED
    BY <1>3, <2>3, <2>5, <2>6
<1>4. CASE \E l \in Lists : Take(c, l)
  BY <1>0, <1>1, <1>4, TakeMoves
<1>5. CASE /\ query[c].kind = "set"
           /\ query' = [query EXCEPT ![c] = [query[c] EXCEPT !.kind = "group",
                                                           !.ref[Divisions] = NoRef]]
  <2>1. PICK p, q : p = query[c] /\ q = [p EXCEPT !.kind = "group", !.ref[Divisions] = NoRef]
    OBVIOUS
  <2>2. IsQuery(p)
    BY <1>0, <2>1 DEF Shape, IsQuery, Query
  <2>3. q = [kind |-> "group", servant |-> p.servant, group |-> p.group,
             ref |-> [p.ref EXCEPT ![Divisions] = NoRef], answer |-> p.answer]
    <3>1. q = WithoutRef(p, "group", Divisions, NoRef)
      BY <2>1, Zenon DEF WithoutRef
    <3>2. QED
      BY <2>2, <3>1, DropHeld
  <2>4. query' = [query EXCEPT ![c] = q]
    BY <1>5, <2>1, Zenon
  <2>5. \A d \in Client : query'[d] = IF d = c THEN q ELSE query[d]
    BY <1>0, <2>4 DEF Shape
  <2>6. q.answer = {}
    BY <1>1, <1>5, <2>1, <2>3
  <2>7. QED
    BY <1>5, <2>5, <2>6
<1>6. CASE Answer(c)
  <2>1. PICK answer : query' = [query EXCEPT ![c] = [NoQuery EXCEPT !.answer = answer]]
    BY <1>6 DEF Answer
  <2>2. [NoQuery EXCEPT !.answer = answer].kind = "none"
    BY DEF NoQuery
  <2>3. \A d \in Client : query'[d] = IF d = c THEN [NoQuery EXCEPT !.answer = answer]
                                      ELSE query[d]
    BY <1>0, <2>1 DEF Shape
  <2>4. QED
    BY <1>6, <2>2, <2>3
<1>7. CASE Leave(c)
  <2>1. query' = [query EXCEPT ![c] = NoQuery] /\ query[c].kind \in {"none", "spoiled"}
    BY <1>1, <1>7 DEF Leave
  <2>2. \A d \in Client : query'[d] = IF d = c THEN NoQuery ELSE query[d]
    BY <1>0, <2>1 DEF Shape
  <2>3. NoQuery.answer = {}
    BY DEF NoQuery
  <2>4. QED
    BY <2>1, <2>2, <2>3
<1>8. QED
  BY <1>2, <1>3, <1>4, <1>5, <1>6, <1>7, Zenon
     DEF QueryStep, getGroupId, findObjectById4All, findObjectByIdInGroupPriority,
         findObjectByIdInSameStation, findObjectByIdInSameSet

LEMMA SizedStep ==
  ASSUME RouteInv, Sized, [Next]_vars
  PROVE  Sized'
<1> USE ListNames
<1>0. Shape
  BY DEF RouteInv
<1>1. Len(Empty(Priorities)) \in Nat
  BY DEF Empty
<1>2. CASE /\ DOMAIN db' = DOMAIN db /\ db'.priorities = db.priorities
           /\ UNCHANGED <<read, buffer>>
  BY <1>2 DEF Sized
<1>3. ASSUME NEW v, Len(v) \in Nat, NEW l \in Lists,
             buffer' = [buffer EXCEPT ![l][1 - current[l]] = v],
             l # Priorities \/ l = Priorities
      PROVE  l = Priorities => \A i \in 0 .. 1 : Len(buffer'[Priorities][i]) \in Nat
  <2> SUFFICES ASSUME l = Priorities, NEW i \in 0 .. 1
               PROVE  Len(buffer'[Priorities][i]) \in Nat
    OBVIOUS
  <2>1. buffer'[Priorities][i] = IF i = 1 - current[Priorities] THEN v ELSE buffer[Priorities][i]
    BY <1>0, <1>3 DEF Shape
  <2>2. QED
    BY <1>3, <2>1 DEF Sized
<1>4. ASSUME NEW v, NEW l \in Lists, l # Priorities,
             buffer' = [buffer EXCEPT ![l][1 - current[l]] = v]
      PROVE  buffer'[Priorities] = buffer[Priorities]
  BY <1>0, <1>4 DEF Shape
<1>5. CASE Change
  <2>1. DOMAIN db' = DOMAIN db /\ db'.priorities = db.priorities
    <3>1. CASE \E x \in DOMAIN db.rules : db' = [db EXCEPT !.rules[x] = 3 - @]
      BY <3>1 DEF Sized
    <3>2. CASE \E s \in Servant : \E r \in db.rows[s] :
                 db' = [db EXCEPT !.rows[s] = (@ \ {r}) \cup {[r EXCEPT !.active = ~@]}]
      <4>1. PICK s, rows : db' = [db EXCEPT !.rows[s] = rows]
        BY <3>2
      <4>2. QED
        BY <4>1 DEF Sized
    <3>3. QED
      BY <1>5, <3>1, <3>2 DEF Change
  <2>2. QED
    BY <1>2, <1>5, <2>1 DEF Change
<1>6. CASE loadIPPhysicalGroupInfo
  <2>1. db' = db /\ read'[Priorities] = read[Priorities]
    BY <1>0, <1>6 DEF loadIPPhysicalGroupInfo, Unseen, Write, Fill, Clear, Swap, Shape
  <2>2. buffer'[Priorities] = buffer[Priorities]
    BY <1>4, <1>6 DEF loadIPPhysicalGroupInfo, Write, Fill, Clear, Swap
  <2>3. QED
    BY <2>1, <2>2 DEF Sized
<1>7. CASE loadGroupPriority
  <2>1. db' = db /\ Len(read'[Priorities]) \in Nat
    BY <1>0, <1>7 DEF loadGroupPriority, Unseen, Write, Fill, Clear, Swap,
       Shape, Sized
  <2>2. \A i \in 0 .. 1 : Len(buffer'[Priorities][i]) \in Nat
    <3>1. CASE buffer' = [buffer EXCEPT ![Priorities][1 - current[Priorities]] = Empty(Priorities)]
      BY <1>1, <1>3, <3>1
    <3>2. CASE buffer' = [buffer EXCEPT ![Priorities][1 - current[Priorities]] = read[Priorities]]
      BY <1>3, <3>2 DEF Sized
    <3>3. CASE buffer' = buffer
      BY <3>3 DEF Sized
    <3>4. QED
      BY <1>7, <3>1, <3>2, <3>3 DEF loadGroupPriority, Write, Fill, Clear, Swap
  <2>3. QED
    BY <2>1, <2>2 DEF Sized
<1>8. CASE loadObjects
  <2>1. db' = db /\ read'[Priorities] = read[Priorities] /\ buffer' = buffer
    BY <1>0, <1>8 DEF loadObjects, Unseen, Shape
  <2>2. QED
    BY <2>1 DEF Sized
<1>9. CASE updateObjectsCache \/ updateDivisionCache
  <2>1. db' = db /\ read' = read
    BY <1>9 DEF updateObjectsCache, updateDivisionCache, updateCache, Unseen, Write, Fill
  <2>2. buffer'[Priorities] = buffer[Priorities]
    BY <1>4, <1>9 DEF updateObjectsCache, updateDivisionCache, updateCache, Write, Fill, Swap
  <2>3. QED
    BY <2>1, <2>2 DEF Sized
<1>10. CASE Begin
  BY <1>2, <1>10 DEF Begin, Unseen
<1>11. ASSUME NEW c \in Client, QueryStep(c) PROVE Sized'
  <2>1. Querying
    BY <1>11 DEF QueryStep, Ask, getGroupId, findObjectById4All, findObjectByIdInGroupPriority,
         findObjectByIdInSameStation, findObjectByIdInSameSet, Answer, Leave, Take
  <2>2. QED
    BY <1>2, <2>1 DEF Querying, loaderVars
<1>12. CASE UNCHANGED vars
  BY <1>2, <1>12 DEF vars
<1>13. QED
  BY <1>5, <1>6, <1>7, <1>8, <1>9, <1>10, <1>11, <1>12 DEF Next, QueryStep

\* Queries move on, or are spoiled, or are left alone.
QueriesKept == \/ \A c \in Client : query'[c] \in {query[c], Spoiled(query[c])}
               \/ \E c \in Client : QueryStep(c)

LEMMA WhoMoves == ASSUME [Next]_vars PROVE QueriesKept
<1>1. CASE UNCHANGED query
  BY <1>1 DEF QueriesKept
<1>2. ASSUME NEW l, NEW v, Fill(l, v) PROVE QueriesKept
  BY <1>2 DEF Fill, Write, QueriesKept
<1>3. CASE Change \/ Begin
  BY <1>1, <1>3 DEF Change, Begin, Unseen
<1>4. CASE loadIPPhysicalGroupInfo \/ loadGroupPriority
  <2>1. \/ UNCHANGED query \/ \E l, v : Fill(l, v)
    BY <1>4 DEF loadIPPhysicalGroupInfo, loadGroupPriority, Clear, Fill, Unseen
  <2>2. QED
    BY <1>1, <1>2, <2>1
<1>5. CASE loadObjects \/ updateObjectsCache \/ updateDivisionCache
  <2>1. \/ UNCHANGED query \/ \E l, v : Fill(l, v)
    BY <1>5 DEF loadObjects, updateObjectsCache, updateDivisionCache, updateCache, Unseen
  <2>2. QED
    BY <1>1, <1>2, <2>1
<1>6. CASE \E c \in Client : QueryStep(c)
  BY <1>6 DEF QueriesKept
<1>7. CASE UNCHANGED vars
  BY <1>1, <1>7 DEF vars
<1>8. QED
  BY <1>3, <1>4, <1>5, <1>6, <1>7 DEF Next, QueryStep

LEMMA SpoiledFields ==
  ASSUME NEW q
  PROVE  Spoiled(q).answer = {} /\ Spoiled(q).kind = "spoiled"
<1>1. PICK p : p = Spoiled(q)
  OBVIOUS
<1>2. p = [kind |-> "spoiled", servant |-> q.servant, group |-> Ungrouped,
           ref |-> [l \in Lists |-> NoRef], answer |-> {}]
  BY <1>1, SpoiledIs, Zenon
<1>3. p.answer = {} /\ p.kind = "spoiled"
  BY <1>2
<1>4. QED
  BY <1>1, <1>3, Zenon

LEMMA OverStep ==
  ASSUME RouteInv, Over, [Next]_vars
  PROVE  Over'
<1>1. CASE \A c \in Client : query'[c] \in {query[c], Spoiled(query[c])}
  <2> SUFFICES ASSUME NEW c \in Client
               PROVE  query'[c].answer # {} => query'[c].kind = "none"
    BY DEF Over
  <2>1. CASE query'[c] = query[c]
    BY <2>1 DEF Over
  <2>2. CASE query'[c] = Spoiled(query[c])
    BY <2>2, SpoiledFields
  <2>3. QED
    BY <1>1, <2>1, <2>2
<1>2. ASSUME NEW c \in Client, QueryStep(c) PROVE Over'
  <2>1. /\ \A d \in Client : d # c => query'[d] = query[d]
        /\ query'[c].answer # {} => query'[c].kind = "none"
    BY <1>2, QueryMoves
  <2>2. QED
    BY <2>1 DEF Over
<1>3. QED
  BY <1>1, <1>2, WhoMoves DEF QueriesKept

LEMMA SameNearest ==
  \A eps, group, lists : /\ Route!Nearest(eps, group, lists) = Nearest(eps, group, lists)
                         /\ Route!Active(eps) = Active(eps)
BY DEF Route!Nearest, Nearest, Route!Active, Active, Route!Rank, Rank,
       Route!Ungrouped, Ungrouped

LEMMA StepNearest ==
  ASSUME RouteInv, Sized, Over, [Next]_vars, NEW c \in Client,
         SeenBy(query[c]).kind = "grouped", SeenBy(query[c])'.kind = "none"
  PROVE  LET q == SeenBy(query[c])
             eps == Route!Version(q, Objects)[q.servant]
         IN  IF q.group = Ungrouped THEN SeenBy(query[c])'.answer = eps
             ELSE Active(SeenBy(query[c])'.answer)
                    = Nearest(eps, q.group, Route!Version(q, Priorities))
<1> USE ListNames
<1>1. query[c].kind = "grouped" /\ query'[c].kind = "none"
  BY DEF SeenBy
<1>2. Answer(c)
  <2>1. query'[c] \notin {query[c], Spoiled(query[c])}
    BY <1>1, SpoiledFields
  <2>2. PICK d \in Client : QueryStep(d)
    BY <2>1, WhoMoves DEF QueriesKept
  <2>3. d = c
    BY <1>1, <2>2, QueryMoves
  <2>4. QED
    BY <1>1, <2>2, <2>3, QueryMoves
<1>3. PICK q : q = query[c]
  OBVIOUS
<1>4. /\ Held(q, Objects) /\ (q.group = Ungrouped \/ Held(q, Priorities))
      /\ SeenBy(query[c])'.answer = AnswerTo(q)
  <2>1. Ready(q)
    BY <1>2, <1>3 DEF Answer
  <2>2. query'[c] = [NoQuery EXCEPT !.answer = AnswerTo(q)]
    BY <1>2, <1>3 DEF Answer, RouteInv, Shape
  <2>3. query'[c].answer = AnswerTo(q)
    BY <2>2 DEF NoQuery
  <2>4. QED
    BY <1>1, <1>3, <2>1, <2>3 DEF Ready, SeenBy
<1>5. PICK eps, lists : eps = Looked(q, Objects)[q.servant] /\ lists = Looked(q, Priorities)
  OBVIOUS
<1>6. /\ Route!Version(SeenBy(q), Objects) = Looked(q, Objects)
      /\ q.group # Ungrouped => Route!Version(SeenBy(q), Priorities) = lists
      /\ SeenBy(q).servant = q.servant /\ SeenBy(q).group = q.group
  BY <1>4, <1>5, VersionHeld, SameFields
<1>7. AnswerTo(q) = IF q.group = Ungrouped THEN eps ELSE InGroupPriority(eps, q.group, lists)
  BY <1>1, <1>3, <1>5 DEF AnswerTo
<1>8. q.group # Ungrouped => Active(InGroupPriority(eps, q.group, lists)) = Nearest(eps, q.group, lists)
  <2>1. SUFFICES ASSUME q.group # Ungrouped PROVE Len(lists) \in Nat
    BY NearestFound
  <2>2. q.ref[Priorities] \in 0 .. 1
    BY <1>3, <1>4, <2>1 DEF RouteInv, Shape, Held, NoRef
  <2>3. QED
    BY <1>5, <2>2 DEF Sized, Looked
<1>9. QED
  BY <1>3, <1>4, <1>5, <1>6, <1>7, <1>8

\* A client of a group is given the active endpoints nearest to it, for any
\* endpoints, rules and station lists.
THEOREM NearestAnswered == Spec => AnswersNearest
<1>1. Init => RouteInv /\ Sized /\ Over
  BY InitRefines, InitSized
<1>2. RouteInv /\ Sized /\ Over /\ [Next]_vars => (RouteInv /\ Sized /\ Over)'
  BY StepRefines, SizedStep, OverStep
<1>3. RouteInv /\ Sized /\ Over /\ [Next]_vars => Route!NearestGiven
  <2> SUFFICES ASSUME RouteInv, Sized, Over, [Next]_vars, NEW c \in Client,
                      SeenBy(query[c]).kind = "grouped", SeenBy(query[c])'.kind = "none"
               PROVE  LET q == SeenBy(query[c])
                          eps == Route!Version(q, Objects)[q.servant]
                      IN  IF q.group = Ungrouped THEN SeenBy(query[c])'.answer = eps
                          ELSE Active(SeenBy(query[c])'.answer)
                                 = Nearest(eps, q.group, Route!Version(q, Priorities))
    BY SameNearest, SameGroups, SameNames DEF Route!NearestGiven
  <2>1. QED
    BY StepNearest
<1>4. QED
  BY <1>1, <1>2, <1>3, PTL DEF Spec, AnswersNearest, Route!AnswersNearest
=============================================================================
