---------------------------- MODULE NodeConnections -------------------------
(***************************************************************************)
(* Which connections of a node tarsAdminRegistry knows: NodeManager's      *)
(* _mapNodeId, _mapIdNode and _mapIdCurrent.  A tarsnode reports itself    *)
(* over its connection every ten seconds; the framework tells of a close.  *)
(* Reports, deletions and closes are handled by several threads, each      *)
(* under _NodePrxLock, in any order.                                       *)
(***************************************************************************)
EXTENDS Naturals, SequencesExt

CONSTANTS Node, Conn

VARIABLES
  life,     \* of each connection
  calls,    \* received and not handled yet
  uids,     \* _mapNodeId: connections of a node, the last to report first
  idNode,   \* _mapIdNode
  current,  \* the connections in _mapIdCurrent
  belated,  \* ledger: connections with a report handled after their close
  last      \* ledger: the last connection to report, of each node

vars == <<life, calls, uids, idNode, current, belated, last>>

Calls == [kind : {"report", "delete"}, node : Node, conn : Conn]
         \cup [kind : {"close"}, conn : Conn]

TypeOK ==
  /\ life \in [Conn -> {"new", "open", "closed"}]
  /\ calls \subseteq Calls
  /\ uids \in [Node -> Seq(Conn)]
  /\ idNode \in [Conn -> SUBSET Node]
  /\ current \subseteq Conn /\ belated \subseteq Conn
  /\ last \in [Node -> SUBSET Conn]

Init ==
  /\ life = [u \in Conn |-> "new"]
  /\ calls = {}
  /\ uids = [n \in Node |-> <<>>] /\ idNode = [u \in Conn |-> {}]
  /\ current = {} /\ belated = {}
  /\ last = [n \in Node |-> {}]

-----------------------------------------------------------------------------
\* The node's side.  Several nodes behind one proxy share a connection.
Report(n, u) ==
  /\ life[u] # "closed"
  /\ life' = [life EXCEPT ![u] = "open"]
  /\ calls' = calls \cup {[kind |-> "report", node |-> n, conn |-> u]}
  /\ UNCHANGED <<uids, idNode, current, belated, last>>

Delete(n, u) ==
  /\ life[u] = "open"
  /\ calls' = calls \cup {[kind |-> "delete", node |-> n, conn |-> u]}
  /\ UNCHANGED <<life, uids, idNode, current, belated, last>>

Close(u) ==
  /\ life[u] = "open"
  /\ life' = [life EXCEPT ![u] = "closed"]
  /\ calls' = calls \cup {[kind |-> "close", conn |-> u]}
  /\ UNCHANGED <<uids, idNode, current, belated, last>>

-----------------------------------------------------------------------------
CloseHandled(u) == life[u] = "closed" /\ [kind |-> "close", conn |-> u] \notin calls

\* its: where a list has the connection.
its(list, u) == {i \in DOMAIN list : list[i] = u}

\* What its points to is erased from the list.
Without(list, u) ==
  IF its(list, u) = {} THEN list
  ELSE LET i == CHOOSE i \in its(list, u) : TRUE
       IN  [j \in 1 .. Len(list) - 1 |-> IF j < i THEN list[j] ELSE list[j + 1]]

createNodeCurrent(n, u) ==
  /\ uids' = [uids EXCEPT ![n] = <<u>> \o Without(@, u)]
  /\ idNode' = [idNode EXCEPT ![u] = @ \cup {n}]
  /\ current' = current \cup {u}
  /\ belated' = IF CloseHandled(u) THEN belated \cup {u} ELSE belated
  /\ last' = [last EXCEPT ![n] = {u}]

\* The connection that asks need not be one of the node's.
deleteNodeCurrent(n, u) ==
  /\ uids' = [uids EXCEPT ![n] = <<>>]
  /\ idNode' = [v \in Conn |-> IF v \in ToSet(uids[n]) THEN idNode[v] \ {n} ELSE idNode[v]]
  /\ last' = [last EXCEPT ![n] = {}]
  /\ UNCHANGED <<current, belated>>

eraseNodeCurrent_Wrong(u) ==
  /\ uids' = [n \in Node |-> IF n \in idNode[u] /\ Len(uids[n]) > 0 /\ Head(uids[n]) = u
                               THEN Tail(uids[n]) ELSE uids[n]]
  /\ idNode' = [idNode EXCEPT ![u] = {}]
  /\ current' = current \ {u}
  /\ last' = [n \in Node |-> last[n] \ {u}]
  /\ UNCHANGED belated

eraseNodeCurrent(u) ==
  /\ uids' = [n \in Node |-> IF n \in idNode[u] THEN Without(uids[n], u) ELSE uids[n]]
  /\ idNode' = [idNode EXCEPT ![u] = {}]
  /\ current' = current \ {u}
  /\ last' = [n \in Node |-> last[n] \ {u}]
  /\ UNCHANGED belated

Handle(call) ==
  /\ calls' = calls \ {call}
  /\ \/ call.kind = "report" /\ createNodeCurrent(call.node, call.conn)
     \/ call.kind = "delete" /\ deleteNodeCurrent(call.node, call.conn)
     \/ call.kind = "close" /\ eraseNodeCurrent(call.conn)
  /\ UNCHANGED life

Next ==
  \/ \E n \in Node, u \in Conn : Report(n, u) \/ Delete(n, u)
  \/ \E u \in Conn : Close(u)
  \/ \E call \in calls : Handle(call)

Spec == Init /\ [][Next]_vars

-----------------------------------------------------------------------------
\* The connection a command for the node is pushed over.
getNodeCurrent(n) == {uids[n][1] : i \in 1 .. (IF uids[n] = <<>> THEN 0 ELSE 1)}

\* The three maps agree, so that at() finds what the list names; a connection that
\* is gone is listed only if a report of it was overtaken by its close; and the last
\* connection to report, if it is still there, is the one that is used.
RightConnection ==
  /\ \A n \in Node : IsInjective(uids[n])
  /\ \A n \in Node, u \in Conn : u \in ToSet(uids[n]) <=> n \in idNode[u]
  /\ \A n \in Node : ToSet(uids[n]) \subseteq current
  /\ \A u \in Conn : idNode[u] # {} /\ CloseHandled(u) => u \in belated
  /\ \A n \in Node : last[n] # {} => getNodeCurrent(n) = last[n]
=============================================================================
