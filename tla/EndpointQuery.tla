--------------------------- MODULE EndpointQuery ---------------------------
(***************************************************************************)
(* Which endpoints of a servant tarsregistry answers a client with, as     *)
(* operators on the endpoints it has in memory.  An endpoint has a host,   *)
(* the group its host really belongs to, the group it works in (Ungrouped  *)
(* when grouping is off), a set division and whether it is active.         *)
(***************************************************************************)
EXTENDS Integers, Sequences

Ungrouped == -1

Active(eps) == {e \in eps : e.active}
InGroups(eps, groups) == {e \in eps : e.work \in groups}

\* getGroupId: the rule for the address itself before the one for its network.
GroupOf(rules, star, host) ==
  IF host \in DOMAIN rules THEN rules[host]
  ELSE IF star[host] \in DOMAIN rules THEN rules[star[host]]
  ELSE Ungrouped

\* The endpoints made of the rows of a servant.  The group is that of the name
\* the server is given, or else of its host; a backup is not among them.
Endpoints(rows, rules, star) ==
  LET real(r) == IF r.group = "" THEN GroupOf(rules, star, r.host)
                 ELSE IF r.group \in DOMAIN rules THEN rules[r.group] ELSE Ungrouped
  IN  {[host |-> r.host, active |-> r.active, real |-> real(r),
        work |-> IF r.grouped THEN real(r) ELSE Ungrouped, set |-> r.set] :
       r \in {x \in rows : ~x.backup}}

\* What findObjectByIdInGroupPriority looks through, in turn: the group itself,
\* the station lists that name it, the endpoints of no group, and all.
Stages(eps, group, lists) ==
  [i \in 0 .. Len(lists) + 2 |->
     IF i = 0 THEN InGroups(eps, {group})
     ELSE IF i <= Len(lists)
          THEN IF group \in lists[i].groups THEN InGroups(eps, lists[i].groups) ELSE {}
     ELSE IF i = Len(lists) + 1 THEN InGroups(eps, {Ungrouped})
     ELSE eps]

InGroupPriority_Wrong(eps, group, lists) ==
  IF group = Ungrouped THEN eps
  ELSE LET stages == Stages(eps, group, lists)
           found  == {i \in DOMAIN stages : stages[i] # {}}
       IN  IF found = {} THEN eps
           ELSE stages[CHOOSE i \in found : \A j \in found : i <= j]

\* The first stage with an active endpoint, and all endpoints without one.
InGroupPriority(eps, group, lists) ==
  IF group = Ungrouped THEN eps
  ELSE LET stages == Stages(eps, group, lists)
           found  == {i \in DOMAIN stages : Active(stages[i]) # {}}
       IN  IF found = {} THEN eps
           ELSE stages[CHOOSE i \in found : \A j \in found : i <= j]

StationKnown(lists, station) == \E i \in 1 .. Len(lists) : lists[i].station = station

InSameStation(eps, station, lists) ==
  LET i == CHOOSE k \in 1 .. Len(lists) :
             /\ lists[k].station = station
             /\ \A j \in 1 .. k - 1 : lists[j].station # station
  IN  {e \in eps : e.real \in lists[i].groups}

\* A division is <<name, area, group>>; <<>> is none.
Valid(s)    == Len(s) = 3 /\ "" \notin {s[1], s[2], s[3]} /\ "*" \notin {s[1], s[2]}
Divided(eps) == {e \in eps : Valid(e.set)}
UsesSet(eps, name) == \E e \in eps : e.set[1] = name

InSet(eps, s) == {e \in eps : e.set = s}

\* The client's division, or else the endpoints that serve its whole area.
InSameSet(eps, s) ==
  IF s[3] = "*" THEN {e \in eps : e.set[1] = s[1] /\ e.set[2] = s[2]}
  ELSE IF InSet(eps, s) # {} THEN InSet(eps, s)
  ELSE InSet(eps, <<s[1], s[2], "*">>)

-----------------------------------------------------------------------------
(***************************************************************************)
(* What the answer to a client in a group ought to be: the rank of an      *)
(* endpoint tells how near it is, and only the nearest are handed out.     *)
(***************************************************************************)
Rank(e, group, lists) ==
  LET in == {i \in 1 .. Len(lists) : {group, e.work} \subseteq lists[i].groups}
  IN  IF e.work = group THEN 0
      ELSE IF in # {} THEN CHOOSE i \in in : \A j \in in : i <= j
      ELSE IF e.work = Ungrouped THEN Len(lists) + 1
      ELSE Len(lists) + 2

Nearest(eps, group, lists) ==
  {e \in Active(eps) : \A f \in Active(eps) : Rank(e, group, lists) <= Rank(f, group, lists)}
=============================================================================
