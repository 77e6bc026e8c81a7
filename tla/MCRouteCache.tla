---------------------------- MODULE MCRouteCache ----------------------------
(***************************************************************************)
(* One servant on two hosts.  The client and the first host are in one     *)
(* network, the second host has a rule of its own; the first host's row    *)
(* may be active or not, grouped or not, in the client's division, in the  *)
(* one that serves its area, or in none; or it is the only row, a backup.  *)
(***************************************************************************)
EXTENDS RouteCache

MCStar == [h \in {"c", "h1", "h2"} |-> IF h = "h2" THEN "net2" ELSE "net1"]

MCRules == [n \in {"net1", "h2", "named"} |-> IF n = "h2" THEN 2 ELSE 1]
MCFewer == [n \in {"h2"} |-> 2]
MCStation == <<[station |-> "st", groups |-> {1, 2}]>>

MCSets == {<<>>, <<"n", "a", "1">>, <<"n", "a", "*">>}
MCFirst(b) ==
  {[host |-> "h1", active |-> a, grouped |-> g, group |-> "", set |-> s, backup |-> b] :
     a \in BOOLEAN, g \in BOOLEAN, s \in MCSets}
MCSecond(g) == [host |-> "h2", active |-> TRUE, grouped |-> TRUE, group |-> g,
                set |-> <<"n", "a", "2">>, backup |-> FALSE]

MCContent(r, p, rows) == [rules |-> r, priorities |-> p, rows |-> [s \in Servant |-> rows]]

MCContents ==
  {MCContent(MCRules, MCStation, {f, MCSecond("")}) : f \in MCFirst(FALSE)}
  \cup {MCContent(MCRules, <<>>, {f, MCSecond("")}) :
          f \in {x \in MCFirst(FALSE) : x.grouped}}
  \cup {MCContent(MCFewer, MCStation, {f, MCSecond("named")}) :
          f \in {x \in MCFirst(FALSE) : x.active}}
  \cup {MCContent(MCRules, MCStation, {f}) :
          f \in {x \in MCFirst(TRUE) : x.active /\ x.grouped}}
MCHomeSet == <<"n", "a", "1">>
=============================================================================
