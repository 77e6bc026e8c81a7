------------------------------ MODULE NodePush ------------------------------
(***************************************************************************)
(* How tarsAdminRegistry makes a node start and stop a server              *)
(* (src/AdminRegistryServer/NodeManager.cpp, with startServer, stopServer  *)
(* and restartServer of AdminRegistryImp.cpp, and the node's side in       *)
(* src/NodeServer/ServerManager.cpp).                                      *)
(*                                                                         *)
(* The node keeps a connection to every tarsAdminRegistry and is sent its  *)
(* commands over it: requestNode pushes the command with a request id,     *)
(* leaves the request in the timeout queue and lets the client wait; the   *)
(* node's result comes back as a call of reportResult, which answers the   *)
(* client, unless the NodeManager thread has given the request up and has  *)
(* told the client so.  A registry without a connection to the node        *)
(* forwards the client's call to all active ones, itself included, and     *)
(* passes their answers on.                                                *)
(*                                                                         *)
(* One server of one node; the node executes the commands in any order, on *)
(* the communicator's callback threads.  What a command does is in module  *)
(* ServerLifecycle: here it is executed, and succeeds or not.  The node is *)
(* registered as active and takes no calls of its own (its row has no      *)
(* node_obj), so that getNodePrx answers NULL.                             *)
(*                                                                         *)
(* X_Wrong and X_Mute are X with a plausible mistake, kept to see what it  *)
(* breaks.                                                                 *)
(***************************************************************************)
EXTENDS Naturals, Sequences, FiniteSets

CONSTANTS
    Admins,   \* the tarsAdminRegistry processes, all active
    Calls,    \* the clients' calls
    Kinds     \* what they ask for in this instance

ASSUME NodePushAssumption == Kinds \subseteq {"start", "stop", "restart"}

VARIABLES
    connected,  \* the registries with a connection to the node
    kind,       \* what each call asks for
    todo,       \* the handlers that run, with the commands they have still to push
    queue,      \* the timeout queues of the registries' NodeManagers
    pushes,     \* commands on their way to the node
    results,    \* results on their way to reportResult
    replies,    \* what the client of each call has been answered
    pushed,     \* history: every request that was ever pushed
    executed    \* history: the commands the node has executed

vars == <<connected, kind, todo, queue, pushes, results, replies, pushed, executed>>

Op == {"stop", "start"}

\* restartServer pushes a stop and then a start for the same client's call.
Commands(k) == CASE k = "restart" -> <<"stop", "start">>
                 [] k = "start"   -> <<"start">>
                 [] k = "stop"    -> <<"stop">>
                 [] OTHER         -> <<>>

\* fwd: the call was forwarded by another registry.
Handler == [call : Calls, admin : Admins, fwd : BOOLEAN, ops : Seq(Op)]
Request == [call : Calls, admin : Admins, fwd : BOOLEAN, op : Op]

TypeOK ==
    /\ connected \subseteq Admins
    /\ kind \in [Calls -> Kinds \cup {"none"}]
    /\ todo \subseteq Handler
    /\ queue \subseteq Request /\ pushes \subseteq Request
    /\ results \subseteq [req : Request, ok : BOOLEAN]
    /\ replies \in [Calls -> Seq([op : Op, ok : BOOLEAN])]
    /\ pushed \subseteq Request /\ executed \subseteq Request

Init ==
    /\ connected \in SUBSET Admins
    /\ kind = [c \in Calls |-> "none"]
    /\ todo = {} /\ queue = {} /\ pushes = {} /\ results = {}
    /\ replies = [c \in Calls |-> <<>>]
    /\ pushed = {} /\ executed = {}

\* A client calls startServer, stopServer or restartServer of a registry.
Call(c) ==
    /\ kind[c] = "none"
    /\ \E k \in Kinds, a \in Admins :
         /\ kind' = [kind EXCEPT ![c] = k]
         /\ todo' = todo \cup {[call |-> c, admin |-> a, fwd |-> FALSE,
                                ops |-> Commands(k)]}
    /\ UNCHANGED <<connected, queue, pushes, results, replies, pushed, executed>>

\* requestNode over the connection: it returns success at once, and restartServer
\* goes on to its second command.
requestNode(h) ==
    LET r == [call |-> h.call, admin |-> h.admin, fwd |-> h.fwd, op |-> Head(h.ops)]
    IN  /\ h.admin \in connected
        /\ queue' = queue \cup {r}
        /\ pushes' = pushes \cup {r}
        /\ pushed' = pushed \cup {r}
        /\ todo' = (todo \ {h}) \cup
                   {[h EXCEPT !.ops = ops] : ops \in {Tail(h.ops)} \ {<<>>}}
        /\ UNCHANGED <<connected, kind, results, replies, executed>>

\* requestNode without a connection: the client's call is sent on as it came,
\* unless it was forwarded already.  The handler is over in both cases, and
\* nobody answers.
forward(h) ==
    /\ h.admin \notin connected
    /\ todo' = (todo \ {h}) \cup
               (IF h.fwd THEN {}
                ELSE {[call |-> h.call, admin |-> a, fwd |-> TRUE,
                       ops |-> Commands(kind[h.call])] : a \in Admins})
    /\ UNCHANGED <<connected, kind, queue, pushes, results, replies, pushed, executed>>

\* AdminNodePushPrxCallback executes the command and reports its result.
execute(r) ==
    /\ pushes' = pushes \ {r}
    /\ executed' = executed \cup {r}
    /\ \E ok \in BOOLEAN : results' = results \cup {[req |-> r, ok |-> ok]}
    /\ UNCHANGED <<connected, kind, todo, queue, replies, pushed>>

\* The callback of the request answers the call it was made for; the answer to a
\* forwarded call goes back by way of the registry that forwarded it, and may be
\* lost there.
Answer(r, ok) ==
    \/ replies' = [replies EXCEPT ![r.call] = Append(@, [op |-> r.op, ok |-> ok])]
    \/ r.fwd /\ UNCHANGED replies

reportResult_Wrong(m) ==
    /\ results' = results \ {m}
    /\ IF m.req \in queue
       THEN Answer(m.req, m.ok)
       ELSE UNCHANGED replies
    /\ UNCHANGED <<connected, kind, todo, queue, pushes, pushed, executed>>

reportResult_Mute(m) ==
    /\ results' = results \ {m}
    /\ queue' = queue \ {m.req}
    /\ IF m.req \in queue /\ m.ok
       THEN Answer(m.req, m.ok)
       ELSE UNCHANGED replies
    /\ UNCHANGED <<connected, kind, todo, pushes, pushed, executed>>

\* reportResult takes the request off the queue; a late one is dropped.
reportResult(m) ==
    /\ results' = results \ {m}
    /\ queue' = queue \ {m.req}
    /\ IF m.req \in queue
       THEN Answer(m.req, m.ok)
       ELSE UNCHANGED replies
    /\ UNCHANGED <<connected, kind, todo, pushes, pushed, executed>>

timeout_Wrong(r) ==
    /\ queue' = queue \ {r}
    /\ Answer(r, TRUE)
    /\ UNCHANGED <<connected, kind, todo, pushes, results, pushed, executed>>

\* NodeManager::run gives up a request that is five seconds old; the callback is
\* given ret = 0, and timeout = true, which makes an error of it.
timeout(r) ==
    /\ queue' = queue \ {r}
    /\ Answer(r, FALSE)
    /\ UNCHANGED <<connected, kind, todo, pushes, results, pushed, executed>>

\* reportNode, every ten seconds; doClose.
reportNode(a) ==
    /\ a \notin connected
    /\ connected' = connected \cup {a}
    /\ UNCHANGED <<kind, todo, queue, pushes, results, replies, pushed, executed>>

doClose(a) ==
    /\ a \in connected
    /\ connected' = connected \ {a}
    /\ UNCHANGED <<kind, todo, queue, pushes, results, replies, pushed, executed>>

Handle == \E h \in todo : requestNode(h) \/ forward(h)
Settle(r) == r \in queue /\ timeout(r)

Next ==
    \/ \E c \in Calls : Call(c)
    \/ Handle
    \/ \E r \in pushes : execute(r)
    \/ \E m \in results : reportResult(m)
    \/ \E r \in queue : timeout(r)
    \/ \E a \in Admins : reportNode(a) \/ doClose(a)

Spec == Init /\ [][Next]_vars

\* The NodeManager threads run.  Nothing is assumed of the node or of the
\* connections: a push or a result that is never handled is a lost one.
FairSpec == Spec /\ \A r \in Request : WF_vars(Settle(r))

-----------------------------------------------------------------------------
(***************************************************************************)
(* Properties                                                              *)
(***************************************************************************)
Of(c, S) == {r \in S : r.call = c}

\* A request is answered once: by the node's result or by the timeout, never by
\* both when the two race, and a late or repeated result answers nobody.
AnsweredOnce ==
    \A c \in Calls :
        Len(replies[c]) + Cardinality(Of(c, queue)) <= Cardinality(Of(c, pushed))

\* The client of a command that was pushed is told something in the end, even
\* if the node never reports.
Answered ==
    \A c \in Calls :
        (\E r \in Of(c, queue) : ~r.fwd) ~> replies[c] # <<>>

\* A command that is reported as a success has been executed, by whatever way
\* its answer came.
AnswerTrue ==
    \A c \in Calls : \A i \in DOMAIN replies[c] :
        replies[c][i].ok =>
            \E r \in executed : r.call = c /\ r.op = replies[c][i].op

\* The client takes the first answer.  When it is a success, what the client asked
\* for has been done: the last of its commands was executed.
ToldWhenDone ==
    \A c \in Calls :
        replies[c] # <<>> /\ Head(replies[c]).ok =>
            \E r \in executed :
                r.call = c /\ r.op = Commands(kind[c])[Len(Commands(kind[c]))]
=============================================================================
