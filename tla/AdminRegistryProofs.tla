------------------------- MODULE AdminRegistryProofs ------------------------
(***************************************************************************)
(* Proofs about what tarsAdminRegistry sends to nodes: the commands it     *)
(* pushes, for any registries, calls and kinds of command (NodePush); the  *)
(* connections it sends them over (NodeConnections); what they and a patch *)
(* leave behind (ServerOps, PatchFlow).                                    *)
(***************************************************************************)
EXTENDS NodePush, MCServices, SequenceTheorems, FiniteSetTheorems, TLAPS

-----------------------------------------------------------------------------
(***************************************************************************)
(* NodePush                                                                *)
(***************************************************************************)
\* What a handler may still have to push.
Left == {<<"stop", "start">>, <<"stop">>, <<"start">>}
Pending(cmds) == IF cmds = <<"stop", "start">> THEN {"stop", "start"}
                ELSE IF cmds = <<"stop">> THEN {"stop"} ELSE {"start"}

Pushing(h, cmd) == [call |-> h.call, admin |-> h.admin, fwd |-> h.fwd, op |-> cmd]

Typed ==
  /\ kind \in [Calls -> Kinds \cup {"none"}]
  /\ todo \subseteq [call : Calls, admin : Admins, fwd : BOOLEAN, ops : Left]
  /\ pushed \subseteq Request /\ queue \subseteq pushed
  /\ replies \in [Calls -> Seq([op : Op, ok : BOOLEAN])]

Counted ==
  /\ IsFiniteSet(pushed)
  /\ AnsweredOnce

\* A handler has not pushed yet what it has still to push, and there is one
\* handler at most to push it: a call is taken once, and forwarded once.
Unpushed == \A h \in todo : \A cmd \in Pending(h.ops) : Pushing(h, cmd) \notin pushed

OneHandler ==
  \A g, h \in todo : g.call = h.call =>
    /\ g.fwd = h.fwd
    /\ g.admin = h.admin \/ h.fwd
    /\ g.admin = h.admin => g = h

ForwardedOnce ==
  \A h \in todo : ~h.fwd => \A r \in pushed : r.call = h.call => ~r.fwd

Untaken ==
  \A c \in Calls : kind[c] = "none" => /\ \A h \in todo : h.call # c
                                       /\ \A r \in pushed : r.call # c

PushInv == Typed /\ Counted /\ Unpushed /\ OneHandler /\ ForwardedOnce /\ Untaken

-----------------------------------------------------------------------------
LEMMA OpsLeft ==
  ASSUME NEW cmds \in Left
  PROVE  /\ Head(cmds) \in Op /\ Head(cmds) \in Pending(cmds)
         /\ \/ Tail(cmds) = <<>>
            \/ /\ Tail(cmds) \in Left
               /\ Pending(Tail(cmds)) \subseteq Pending(cmds)
               /\ Head(cmds) \notin Pending(Tail(cmds))
<1>1. CASE cmds = <<"stop", "start">>
  <2>1. Head(cmds) = "stop" /\ Tail(cmds) = <<"start">>
    BY <1>1
  <2>2. QED
    BY <1>1, <2>1 DEF Left, Pending, Op
<1>2. CASE cmds = <<"stop">>
  <2>1. Head(cmds) = "stop" /\ Tail(cmds) = <<>>
    BY <1>2
  <2>2. QED
    BY <1>2, <2>1 DEF Left, Pending, Op
<1>3. CASE cmds = <<"start">>
  <2>1. Head(cmds) = "start" /\ Tail(cmds) = <<>>
    BY <1>3
  <2>2. QED
    BY <1>3, <2>1 DEF Left, Pending, Op
<1>4. QED
  BY <1>1, <1>2, <1>3 DEF Left

LEMMA CommandsLeft ==
  ASSUME NEW k \in Kinds
  PROVE  Commands(k) \in Left
BY NodePushAssumption DEF Commands, Left

\* How the requests of a call are counted.
LEMMA OneMore ==
  ASSUME NEW S, IsFiniteSet(S), NEW r, r \notin S, NEW c
  PROVE  /\ IsFiniteSet(Of(c, S)) /\ IsFiniteSet(Of(c, S \cup {r}))
         /\ Cardinality(Of(c, S \cup {r})) =
              Cardinality(Of(c, S)) + (IF r.call = c THEN 1 ELSE 0)
         /\ Cardinality(Of(c, S)) \in Nat
<1>1. IsFiniteSet(Of(c, S))
  BY FS_Subset DEF Of
<1>2. Cardinality(Of(c, S)) \in Nat
  BY <1>1, FS_CardinalityType
<1>3. CASE r.call = c
  <2>1. Of(c, S \cup {r}) = Of(c, S) \cup {r} /\ r \notin Of(c, S)
    BY <1>3 DEF Of
  <2>2. PICK T : T = Of(c, S)
    OBVIOUS
  <2>3. IsFiniteSet(T \cup {r}) /\ Cardinality(T \cup {r}) = Cardinality(T) + 1
    BY <1>1, <2>1, <2>2, FS_AddElement
  <2>4. QED
    BY <1>1, <1>2, <1>3, <2>1, <2>2, <2>3
<1>4. CASE r.call # c
  <2>1. Of(c, S \cup {r}) = Of(c, S)
    BY <1>4 DEF Of
  <2>2. QED
    BY <1>1, <1>2, <1>4, <2>1
<1>5. QED
  BY <1>3, <1>4

LEMMA OneLess ==
  ASSUME NEW S, IsFiniteSet(S), NEW r \in S, NEW c
  PROVE  /\ Cardinality(Of(c, S \ {r})) + (IF r.call = c THEN 1 ELSE 0) =
              Cardinality(Of(c, S))
         /\ Cardinality(Of(c, S \ {r})) \in Nat
<1>1. IsFiniteSet(S \ {r}) /\ r \notin S \ {r} /\ (S \ {r}) \cup {r} = S
  BY FS_Subset
<1>2. QED
  BY <1>1, OneMore

LEMMA InitPush == Init => PushInv
<1> SUFFICES ASSUME Init PROVE PushInv
  OBVIOUS
<1>1. IsFiniteSet({}) /\ Cardinality({}) = 0
  BY FS_EmptySet
<1>2. \A c \in Calls : Of(c, queue) = {} /\ Of(c, pushed) = {} /\ Len(replies[c]) = 0
  BY DEF Init, Of
<1>3. Counted
  BY <1>1, <1>2 DEF Counted, AnsweredOnce, Init
<1>4. Typed
  BY DEF Init, Typed
<1>5. Unpushed /\ OneHandler /\ ForwardedOnce /\ Untaken
  BY DEF Init, Unpushed, OneHandler, ForwardedOnce, Untaken
<1>6. QED
  BY <1>3, <1>4, <1>5 DEF PushInv

-----------------------------------------------------------------------------
(***************************************************************************)
(* Every step keeps the invariant.                                         *)
(***************************************************************************)
LEMMA CallKeeps ==
  ASSUME PushInv, NEW c \in Calls, Call(c)
  PROVE  PushInv'
<1>1. PICK k \in Kinds, a \in Admins :
        /\ kind' = [kind EXCEPT ![c] = k]
        /\ todo' = todo \cup {[call |-> c, admin |-> a, fwd |-> FALSE, ops |-> Commands(k)]}
  BY DEF Call
<1>2. PICK n : n = [call |-> c, admin |-> a, fwd |-> FALSE, ops |-> Commands(k)]
  OBVIOUS
<1>3. /\ n.call = c /\ n.admin = a /\ n.fwd = FALSE /\ n.ops \in Left
      /\ n \in [call : Calls, admin : Admins, fwd : BOOLEAN, ops : Left]
      /\ todo' = todo \cup {n}
  BY <1>1, <1>2, CommandsLeft
<1>4. /\ kind[c] = "none" /\ k # "none"
      /\ UNCHANGED <<queue, replies, pushed>>
  BY NodePushAssumption DEF Call
<1>5. /\ \A h \in todo : h.call # c
      /\ \A r \in pushed : r.call # c
  BY <1>4 DEF PushInv, Untaken
<1>6. Typed'
  BY <1>1, <1>3, <1>4 DEF PushInv, Typed
<1>7. Counted'
  BY <1>4 DEF PushInv, Counted, AnsweredOnce, Of
<1>8. Unpushed'
  <2>1. \A cmd : Pushing(n, cmd) \notin pushed
    BY <1>3, <1>5 DEF Pushing
  <2>2. QED
    BY <1>3, <1>4, <2>1 DEF PushInv, Unpushed
<1>9. OneHandler' /\ ForwardedOnce'
  BY <1>3, <1>4, <1>5 DEF PushInv, OneHandler, ForwardedOnce
<1>10. Untaken'
  <2>1. \A d \in Calls : kind'[d] = IF d = c THEN k ELSE kind[d]
    BY <1>1 DEF PushInv, Typed
  <2>2. QED
    BY <1>3, <1>4, <2>1 DEF PushInv, Untaken
<1>11. QED
  BY <1>6, <1>7, <1>8, <1>9, <1>10 DEF PushInv

LEMMA RequestKeeps ==
  ASSUME PushInv, NEW h \in todo, requestNode(h)
  PROVE  PushInv'
<1>1. PICK r : r = Pushing(h, Head(h.ops))
  OBVIOUS
<1>2. /\ h.call \in Calls /\ h.admin \in Admins /\ h.fwd \in BOOLEAN /\ h.ops \in Left
      /\ h = [call |-> h.call, admin |-> h.admin, fwd |-> h.fwd, ops |-> h.ops]
  BY DEF PushInv, Typed
<1>3. /\ r \in Request /\ r.call = h.call /\ r.admin = h.admin /\ r.fwd = h.fwd
      /\ r.op = Head(h.ops)
  BY <1>1, <1>2, OpsLeft DEF Pushing, Request
<1>4. /\ queue' = queue \cup {r} /\ pushed' = pushed \cup {r}
      /\ UNCHANGED <<kind, replies>>
  BY <1>1 DEF requestNode, Pushing
<1>5. r \notin pushed /\ r \notin queue
  BY <1>1, <1>2, OpsLeft DEF PushInv, Unpushed, Typed
<1>6. PICK n : n = [call |-> h.call, admin |-> h.admin, fwd |-> h.fwd, ops |-> Tail(h.ops)]
  OBVIOUS
<1>7. todo' \subseteq (todo \ {h}) \cup {n} /\ (Tail(h.ops) = <<>> => todo' = todo \ {h})
  <2>1. PICK t : t = Tail(h.ops)
    OBVIOUS
  <2>2. PICK c, a, f, o : h = [call |-> c, admin |-> a, fwd |-> f, ops |-> o]
    BY <1>2
  <2>3. [h EXCEPT !.ops = t] = n
    <3>1. n = [call |-> c, admin |-> a, fwd |-> f, ops |-> t]
      BY <1>6, <2>1, <2>2
    <3>2. [[call |-> c, admin |-> a, fwd |-> f, ops |-> o] EXCEPT !.ops = t] =
          [call |-> c, admin |-> a, fwd |-> f, ops |-> t]
      OBVIOUS
    <3>3. QED
      BY <2>2, <3>1, <3>2, Zenon
  <2>4. todo' = (todo \ {h}) \cup {[h EXCEPT !.ops = cmds] : cmds \in {t} \ {<<>>}}
    BY <2>1, Zenon DEF requestNode
  <2>5. CASE t = <<>>
    <3>1. {t} \ {<<>>} = {}
      BY <2>5
    <3>2. {[h EXCEPT !.ops = cmds] : cmds \in {}} = {}
      OBVIOUS
    <3>3. QED
      BY <2>4, <3>1, <3>2
  <2>6. CASE t # <<>>
    <3>1. \A x \in {[h EXCEPT !.ops = cmds] : cmds \in {t} \ {<<>>}} : x = n
      BY <2>3, Zenon
    <3>2. QED
      BY <2>1, <2>4, <2>6, <3>1
  <2>7. QED
    BY <2>5, <2>6
<1>8. \A g \in todo' : \/ g \in todo /\ g # h
                       \/ /\ g = n /\ n.ops \in Left
                          /\ Pending(n.ops) \subseteq Pending(h.ops)
                          /\ r.op \notin Pending(n.ops)
  BY <1>2, <1>3, <1>6, <1>7, OpsLeft
<1>9. n.call = h.call /\ n.admin = h.admin /\ n.fwd = h.fwd
  BY <1>6
<1>10. Typed'
  <2>1. \A g \in todo' : g \in [call : Calls, admin : Admins, fwd : BOOLEAN, ops : Left]
    <3>1. n = [call |-> n.call, admin |-> n.admin, fwd |-> n.fwd, ops |-> n.ops]
      BY <1>6
    <3>2. n.ops \in Left => n \in [call : Calls, admin : Admins, fwd : BOOLEAN, ops : Left]
      BY <1>2, <1>9, <3>1
    <3>3. QED
      BY <1>8, <3>2 DEF PushInv, Typed
  <2>2. QED
    BY <1>3, <1>4, <2>1 DEF PushInv, Typed
<1>11. Counted'
  <2>1. IsFiniteSet(pushed) /\ IsFiniteSet(queue)
    BY FS_Subset DEF PushInv, Counted, Typed
  <2>2. IsFiniteSet(pushed')
    <3>1. IsFiniteSet(pushed \cup {r})
      BY <2>1, FS_AddElement
    <3>2. QED
      BY <1>4, <3>1, Zenon
  <2>3. ASSUME NEW c \in Calls
        PROVE  Len(replies'[c]) + Cardinality(Of(c, queue')) <= Cardinality(Of(c, pushed'))
    <3>1. PICK more \in 0 .. 1 : /\ more = IF r.call = c THEN 1 ELSE 0
      OBVIOUS
    <3>2. /\ Cardinality(Of(c, queue')) = Cardinality(Of(c, queue)) + more
          /\ Cardinality(Of(c, queue)) \in Nat
      BY <1>4, <1>5, <2>1, <3>1, OneMore
    <3>3. /\ Cardinality(Of(c, pushed')) = Cardinality(Of(c, pushed)) + more
          /\ Cardinality(Of(c, pushed)) \in Nat
      BY <1>4, <1>5, <2>1, <3>1, OneMore
    <3>4. /\ Len(replies[c]) + Cardinality(Of(c, queue)) <= Cardinality(Of(c, pushed))
          /\ Len(replies[c]) \in Nat /\ replies'[c] = replies[c]
      BY <1>4 DEF PushInv, Counted, AnsweredOnce, Typed
    <3>5. QED
      BY <3>2, <3>3, <3>4
  <2>4. QED
    BY <2>2, <2>3 DEF Counted, AnsweredOnce, Of
<1>12. Unpushed'
  <2> SUFFICES ASSUME NEW g \in todo', NEW cmd \in Pending(g.ops), Pushing(g, cmd) \in pushed'
               PROVE  FALSE
    BY DEF Unpushed
  <2>1. CASE g \in todo /\ g # h
    <3>1. Pushing(g, cmd) = r
      BY <1>4, <2>1 DEF PushInv, Unpushed
    <3>2. g.call = h.call /\ g.admin = h.admin
      BY <1>3, <3>1 DEF Pushing
    <3>3. QED
      BY <2>1, <3>2 DEF PushInv, OneHandler
  <2>2. CASE /\ g = n /\ Pending(n.ops) \subseteq Pending(h.ops) /\ r.op \notin Pending(n.ops)
    <3>1. Pushing(g, cmd) = Pushing(h, cmd) /\ cmd \in Pending(h.ops)
      BY <1>9, <2>2 DEF Pushing
    <3>2. Pushing(h, cmd) \notin pushed
      BY <3>1 DEF PushInv, Unpushed
    <3>3. Pushing(h, cmd).op = cmd
      BY DEF Pushing
    <3>4. QED
      BY <1>4, <2>2, <3>1, <3>2, <3>3
  <2>3. QED
    BY <1>8, <2>1, <2>2
<1>13. OneHandler'
  BY <1>8, <1>9 DEF PushInv, OneHandler
<1>14. ForwardedOnce'
  BY <1>3, <1>4, <1>8, <1>9 DEF PushInv, ForwardedOnce, OneHandler
<1>15. Untaken'
  BY <1>3, <1>4, <1>8, <1>9 DEF PushInv, Untaken
<1>16. QED
  BY <1>10, <1>11, <1>12, <1>13, <1>14, <1>15 DEF PushInv

LEMMA ForwardKeeps ==
  ASSUME PushInv, NEW h \in todo, forward(h)
  PROVE  PushInv'
<1>1. /\ h.call \in Calls /\ h.fwd \in BOOLEAN /\ kind[h.call] \in Kinds
      /\ UNCHANGED <<kind, queue, replies, pushed>>
  BY DEF PushInv, Typed, Untaken, forward
<1> DEFINE new == IF h.fwd THEN {}
                  ELSE {[call |-> h.call, admin |-> a, fwd |-> TRUE,
                         ops |-> Commands(kind[h.call])] : a \in Admins}
<1>2. todo' = (todo \ {h}) \cup new
  BY DEF forward
<1>3. \A g \in new : /\ ~h.fwd /\ g.call = h.call /\ g.fwd = TRUE
                     /\ g \in [call : Calls, admin : Admins, fwd : BOOLEAN, ops : Left]
  <2> SUFFICES ASSUME NEW g \in new
               PROVE  /\ ~h.fwd /\ g.call = h.call /\ g.fwd = TRUE
                      /\ g \in [call : Calls, admin : Admins, fwd : BOOLEAN, ops : Left]
    OBVIOUS
  <2>1. ~h.fwd
    OBVIOUS
  <2>2. PICK a \in Admins : g = [call |-> h.call, admin |-> a, fwd |-> TRUE,
                                 ops |-> Commands(kind[h.call])]
    BY <2>1
  <2>3. Commands(kind[h.call]) \in Left
    BY <1>1, CommandsLeft
  <2>4. PICK k : k = Commands(kind[h.call])
    OBVIOUS
  <2>5. g = [call |-> h.call, admin |-> a, fwd |-> TRUE, ops |-> k] /\ k \in Left
    BY <2>2, <2>3, <2>4
  <2> HIDE DEF new
  <2>6. QED
    BY <1>1, <2>1, <2>5
<1>4. \A f, g \in new : f.admin = g.admin => f = g
  <2> SUFFICES ASSUME NEW f \in new, NEW g \in new, f.admin = g.admin
               PROVE  f = g
    OBVIOUS
  <2>1. PICK k : k = Commands(kind[h.call])
    OBVIOUS
  <2>2. /\ f = [call |-> h.call, admin |-> f.admin, fwd |-> TRUE, ops |-> k]
        /\ g = [call |-> h.call, admin |-> g.admin, fwd |-> TRUE, ops |-> k]
    <3>1. ~h.fwd
      OBVIOUS
    <3>2. \A x \in new : \E a \in Admins :
             x = [call |-> h.call, admin |-> a, fwd |-> TRUE, ops |-> k]
      BY <2>1, <3>1
    <3> HIDE DEF new
    <3>3. QED
      BY <3>2
  <2> HIDE DEF new
  <2>3. QED
    BY <2>2
<1> HIDE DEF new
<1>5. ~h.fwd => /\ \A g \in todo : g.call = h.call => g = h
                /\ \A r \in pushed : r.call = h.call => ~r.fwd
  BY DEF PushInv, OneHandler, ForwardedOnce
<1>6. Typed' /\ Counted'
  BY <1>1, <1>2, <1>3 DEF PushInv, Typed, Counted, AnsweredOnce, Of
<1>7. Unpushed'
  <2>1. \A g \in new : \A cmd : Pushing(g, cmd) \notin pushed
    BY <1>3, <1>5 DEF Pushing
  <2>2. QED
    BY <1>1, <1>2, <2>1 DEF PushInv, Unpushed
<1>8. OneHandler'
  BY <1>2, <1>3, <1>4, <1>5 DEF PushInv, OneHandler
<1>9. ForwardedOnce' /\ Untaken'
  BY <1>1, <1>2, <1>3, NodePushAssumption DEF PushInv, ForwardedOnce, Untaken
<1>10. QED
  BY <1>6, <1>7, <1>8, <1>9 DEF PushInv

LEMMA ExecuteKeeps ==
  ASSUME PushInv, UNCHANGED <<kind, todo, queue, replies, pushed>>
  PROVE  PushInv'
<1>1. Typed' /\ Counted'
  BY DEF PushInv, Typed, Counted, AnsweredOnce, Of
<1>2. Unpushed' /\ OneHandler' /\ ForwardedOnce' /\ Untaken'
  BY DEF PushInv, Unpushed, OneHandler, ForwardedOnce, Untaken
<1>3. QED
  BY <1>1, <1>2 DEF PushInv

\* A request leaves the queue of its registry, and is answered at most once for it.
LEMMA SettleKeeps ==
  ASSUME PushInv, NEW r \in queue, NEW ok \in BOOLEAN,
         queue' = queue \ {r}, Answer(r, ok), UNCHANGED <<kind, todo, pushed>>
  PROVE  PushInv'
<1>1. r.call \in Calls /\ r.op \in Op
  BY DEF PushInv, Typed, Request
<1>2. PICK a : a = [op |-> r.op, ok |-> ok]
  OBVIOUS
<1>3. a \in [op : Op, ok : BOOLEAN]
  BY <1>1, <1>2
<1>4. \/ replies' = [replies EXCEPT ![r.call] = Append(replies[r.call], a)]
      \/ replies' = replies
  BY <1>2 DEF Answer
<1>5. \A c \in Calls : replies[c] \in Seq([op : Op, ok : BOOLEAN])
  BY DEF PushInv, Typed
<1>6. PICK s : s = Append(replies[r.call], a)
  OBVIOUS
<1>7. s \in Seq([op : Op, ok : BOOLEAN]) /\ Len(s) = Len(replies[r.call]) + 1
  <2>1. PICK R : R = [op : Op, ok : BOOLEAN]
    OBVIOUS
  <2>2. PICK t : t = replies[r.call]
    OBVIOUS
  <2>3. t \in Seq(R) /\ a \in R
    BY <1>1, <1>3, <1>5, <2>1, <2>2, Zenon
  <2>4. Append(t, a) \in Seq(R) /\ Len(Append(t, a)) = Len(t) + 1
    BY <2>3
  <2>5. QED
    BY <1>6, <2>1, <2>2, <2>4, Zenon
<1>8. Typed'
  BY <1>4, <1>6, <1>7 DEF PushInv, Typed
<1>9. \A c \in Calls : \/ replies'[c] = replies[c]
                       \/ c = r.call /\ replies'[c] = s
  BY <1>4, <1>6 DEF PushInv, Typed
<1>10. Counted'
  <2>1. IsFiniteSet(queue)
    BY FS_Subset DEF PushInv, Counted, Typed
  <2>2. ASSUME NEW c \in Calls
        PROVE  Len(replies'[c]) + Cardinality(Of(c, queue')) <= Cardinality(Of(c, pushed))
    <3>1. PICK less \in 0 .. 1 : less = IF r.call = c THEN 1 ELSE 0
      OBVIOUS
    <3>2. /\ Cardinality(Of(c, queue')) + less = Cardinality(Of(c, queue))
          /\ Cardinality(Of(c, queue')) \in Nat
      BY <2>1, <3>1, OneLess
    <3>3. /\ Len(replies[c]) + Cardinality(Of(c, queue)) <= Cardinality(Of(c, pushed))
          /\ Len(replies[c]) \in Nat
      BY <1>5 DEF PushInv, Counted, AnsweredOnce
    <3>4. Len(replies'[c]) <= Len(replies[c]) + less /\ Len(replies'[c]) \in Nat
      <4>1. CASE replies'[c] = replies[c]
        <5>1. \A n \in Nat : n <= n + less
          OBVIOUS
        <5>2. Len(replies'[c]) = Len(replies[c])
          BY <4>1, Zenon
        <5>3. QED
          BY <3>3, <5>1, <5>2, Zenon
      <4>2. CASE c = r.call /\ replies'[c] = s
        <5>1. Len(replies'[c]) = Len(replies[c]) + 1
          BY <1>7, <4>2, Zenon
        <5>2. less = 1
          BY <3>1, <4>2
        <5>3. QED
          BY <3>3, <5>1, <5>2
      <4>3. QED
        BY <1>9, <4>1, <4>2
    <3>5. Cardinality(Of(c, pushed)) \in Nat
      <4>1. IsFiniteSet(Of(c, pushed))
        BY FS_Subset DEF PushInv, Counted, Of
      <4>2. QED
        BY <4>1, FS_CardinalityType
    <3>6. QED
      BY <3>2, <3>3, <3>4, <3>5
  <2>3. pushed' = pushed /\ IsFiniteSet(pushed)
    BY DEF PushInv, Counted
  <2>4. QED
    BY <2>2, <2>3 DEF Counted, AnsweredOnce, Of
<1>11. Unpushed' /\ OneHandler' /\ ForwardedOnce' /\ Untaken'
  BY DEF PushInv, Unpushed, OneHandler, ForwardedOnce, Untaken
<1>12. QED
  BY <1>8, <1>10, <1>11 DEF PushInv

LEMMA ReportKeeps ==
  ASSUME PushInv, NEW m, m.ok \in BOOLEAN, reportResult(m)
  PROVE  PushInv'
<1>1. CASE m.req \in queue
  <2>1. /\ queue' = queue \ {m.req} /\ Answer(m.req, m.ok)
        /\ UNCHANGED <<kind, todo, pushed>>
    BY <1>1 DEF reportResult
  <2>2. QED
    BY <1>1, <2>1, SettleKeeps
<1>2. CASE m.req \notin queue
  <2>1. UNCHANGED <<kind, todo, queue, replies, pushed>>
    BY <1>2 DEF reportResult
  <2>2. QED
    BY <2>1, ExecuteKeeps
<1>3. QED
  BY <1>1, <1>2

-----------------------------------------------------------------------------
(***************************************************************************)
(* What the answers say.  A result comes from a command that was executed, *)
(* and the timeout answers with an error.                                  *)
(***************************************************************************)
Heard == \A m \in results : m.ok \in BOOLEAN /\ (m.ok => m.req \in executed)

LEMMA InitHeard == Init => Heard /\ AnswerTrue
BY DEF Init, Heard, AnswerTrue

LEMMA AnswerKeepsTrue ==
  ASSUME Typed, AnswerTrue, NEW r \in queue, NEW ok \in BOOLEAN,
         ok => r \in executed, Answer(r, ok), executed' = executed
  PROVE  AnswerTrue'
<1>1. r.call \in Calls /\ r.op \in Op
  BY DEF Typed, Request
<1>2. PICK a : a = [op |-> r.op, ok |-> ok]
  OBVIOUS
<1>3. a \in [op : Op, ok : BOOLEAN] /\ a.op = r.op /\ a.ok = ok
  BY <1>1, <1>2
<1>4. \/ replies' = [replies EXCEPT ![r.call] = Append(replies[r.call], a)]
      \/ replies' = replies
  BY <1>2 DEF Answer
<1>5. SUFFICES ASSUME NEW c \in Calls, NEW i \in DOMAIN replies'[c], replies'[c][i].ok
               PROVE  \E q \in executed : q.call = c /\ q.op = replies'[c][i].op
  BY DEF AnswerTrue
<1>6. CASE replies'[c] = replies[c]
  BY <1>5, <1>6 DEF AnswerTrue
<1>7. CASE c = r.call /\ replies'[c] = Append(replies[c], a)
  <2>1. replies[c] \in Seq([op : Op, ok : BOOLEAN])
    BY DEF Typed
  <2>2. \/ i \in DOMAIN replies[c] /\ replies'[c][i] = replies[c][i]
        \/ replies'[c][i] = a
    BY <1>3, <1>7, <2>1
  <2>3. CASE i \in DOMAIN replies[c] /\ replies'[c][i] = replies[c][i]
    BY <1>5, <2>3 DEF AnswerTrue
  <2>4. CASE replies'[c][i] = a
    BY <1>3, <1>5, <1>7, <2>4
  <2>5. QED
    BY <2>2, <2>3, <2>4
<1>8. QED
  BY <1>4, <1>6, <1>7 DEF Typed

LEMMA NextHeard ==
  ASSUME Typed, Heard, AnswerTrue, [Next]_vars
  PROVE  Heard' /\ AnswerTrue'
<1>1. ASSUME UNCHANGED <<results, replies, executed>>
      PROVE  Heard' /\ AnswerTrue'
  BY <1>1 DEF Heard, AnswerTrue
<1>2. CASE \E c \in Calls : Call(c)
  BY <1>1, <1>2 DEF Call
<1>3. CASE Handle
  BY <1>1, <1>3 DEF Handle, requestNode, forward
<1>4. ASSUME NEW r \in pushes, execute(r)
      PROVE  Heard' /\ AnswerTrue'
  <2>1. PICK ok \in BOOLEAN : results' = results \cup {[req |-> r, ok |-> ok]}
    BY <1>4 DEF execute
  <2>2. executed' = executed \cup {r} /\ replies' = replies
    BY <1>4 DEF execute
  <2>3. QED
    BY <2>1, <2>2 DEF Heard, AnswerTrue
<1>5. ASSUME NEW m \in results, reportResult(m)
      PROVE  Heard' /\ AnswerTrue'
  <2>1. results' = results \ {m} /\ executed' = executed
    BY <1>5 DEF reportResult
  <2>2. Heard'
    BY <2>1 DEF Heard
  <2>3. CASE m.req \in queue
    <3>1. Answer(m.req, m.ok)
      BY <1>5, <2>3 DEF reportResult
    <3>2. m.ok \in BOOLEAN /\ (m.ok => m.req \in executed)
      BY DEF Heard
    <3>3. QED
      BY <2>1, <2>2, <2>3, <3>1, <3>2, AnswerKeepsTrue
  <2>4. CASE m.req \notin queue
    BY <1>5, <2>1, <2>2, <2>4 DEF reportResult, AnswerTrue
  <2>5. QED
    BY <2>3, <2>4
<1>6. ASSUME NEW r \in queue, timeout(r)
      PROVE  Heard' /\ AnswerTrue'
  <2>1. Answer(r, FALSE) /\ results' = results /\ executed' = executed
    BY <1>6 DEF timeout
  <2>2. QED
    BY <2>1, AnswerKeepsTrue DEF Heard
<1>7. CASE \E a \in Admins : reportNode(a) \/ doClose(a)
  BY <1>1, <1>7 DEF reportNode, doClose
<1>8. CASE UNCHANGED vars
  BY <1>1, <1>8 DEF vars
<1>9. QED
  BY <1>2, <1>3, <1>4, <1>5, <1>6, <1>7, <1>8 DEF Next

-----------------------------------------------------------------------------
LEMMA NextPush ==
  ASSUME PushInv, Heard, [Next]_vars
  PROVE  PushInv'
<1>1. CASE \E c \in Calls : Call(c)
  BY <1>1, CallKeeps
<1>2. CASE Handle
  BY <1>2, RequestKeeps, ForwardKeeps DEF Handle
<1>3. CASE \E r \in pushes : execute(r)
  BY <1>3, ExecuteKeeps DEF execute
<1>4. CASE \E m \in results : reportResult(m)
  BY <1>4, ReportKeeps DEF Heard
<1>5. ASSUME NEW r \in queue, timeout(r)
      PROVE  PushInv'
  <2>1. /\ queue' = queue \ {r} /\ Answer(r, FALSE) /\ UNCHANGED <<kind, todo, pushed>>
    BY <1>5 DEF timeout
  <2>2. QED
    BY <2>1, SettleKeeps
<1>6. CASE \E a \in Admins : reportNode(a) \/ doClose(a)
  BY <1>6, ExecuteKeeps DEF reportNode, doClose
<1>7. CASE UNCHANGED vars
  BY <1>7, ExecuteKeeps DEF vars
<1>8. QED
  BY <1>1, <1>2, <1>3, <1>4, <1>5, <1>6, <1>7 DEF Next

LEMMA AlwaysPush == Spec => [](PushInv /\ Heard /\ AnswerTrue)
<1>1. Init => PushInv /\ Heard /\ AnswerTrue
  BY InitPush, InitHeard
<1>2. PushInv /\ Heard /\ AnswerTrue /\ [Next]_vars => (PushInv /\ Heard /\ AnswerTrue)'
  BY NextPush, NextHeard DEF PushInv
<1>3. QED
  BY <1>1, <1>2, PTL DEF Spec

\* No request is answered twice, however many registries, calls and connections
\* there are, and however late the node reports: there are never more answers and
\* waiting requests of a call than requests were pushed for it.
THEOREM AnsweredAtMostOnce == Spec => []AnsweredOnce
<1>1. PushInv => AnsweredOnce
  BY DEF PushInv, Counted
<1>2. QED
  BY <1>1, AlwaysPush, PTL

\* A success is never reported of a command that the node has not executed.
THEOREM AnswersAreTrue == Spec => []AnswerTrue
BY AlwaysPush, PTL

-----------------------------------------------------------------------------
(***************************************************************************)
(* NodeConnections                                                         *)
(***************************************************************************)
\* A list without doubles, and what the connections are that it has.
OneEach(list) == \A i, j \in 1 .. Len(list) : list[i] = list[j] => i = j
Listed(list) == {list[i] : i \in 1 .. Len(list)}

LEMMA ListTerms ==
  ASSUME NEW list \in Seq(B)
  PROVE  /\ Nodes!IsInjective(list) <=> OneEach(list)
         /\ Nodes!ToSet(list) = Listed(list)
         /\ \A u : Nodes!its(list, u) = {i \in 1 .. Len(list) : list[i] = u}
BY DEF Nodes!IsInjective, Nodes!ToSet, OneEach, Listed, Nodes!its

LEMMA WithoutIt ==
  ASSUME NEW list \in Seq(B), OneEach(list), NEW u \in B
  PROVE  /\ Nodes!Without(list, u) \in Seq(B) /\ OneEach(Nodes!Without(list, u))
         /\ Listed(Nodes!Without(list, u)) = Listed(list) \ {u}
         /\ list # <<>> /\ list[1] # u =>
              Nodes!Without(list, u) # <<>> /\ Nodes!Without(list, u)[1] = list[1]
<1>1. Nodes!its(list, u) = {i \in 1 .. Len(list) : list[i] = u}
  BY ListTerms
<1>2. CASE Nodes!its(list, u) = {}
  <2>1. Nodes!Without(list, u) = list
    BY <1>2 DEF Nodes!Without
  <2>2. u \notin Listed(list)
    BY <1>1, <1>2 DEF Listed
  <2> QED
    BY <2>1, <2>2
<1>3. CASE Nodes!its(list, u) # {}
  <2>1. PICK i \in 1 .. Len(list) :
          /\ list[i] = u
          /\ Nodes!Without(list, u) =
               [j \in 1 .. Len(list) - 1 |-> IF j < i THEN list[j] ELSE list[j + 1]]
    BY <1>1, <1>3 DEF Nodes!Without
  <2> DEFINE rest == [j \in 1 .. Len(list) - 1 |-> IF j < i THEN list[j] ELSE list[j + 1]]
  <2>2. Len(list) \in Nat /\ Len(list) >= 1 /\ \A j \in 1 .. Len(list) : list[j] \in B
    BY <2>1
  <2>3. rest \in Seq(B) /\ Len(rest) = Len(list) - 1
    <3>1. Len(list) - 1 \in Nat
      BY <2>2
    <3>2. \A j \in 1 .. Len(list) - 1 : rest[j] \in B
      BY <2>1, <2>2
    <3> QED
      BY <3>1, <3>2
  <2>4. \A j \in 1 .. Len(list) - 1 : rest[j] = IF j < i THEN list[j] ELSE list[j + 1]
    OBVIOUS
  <2> HIDE DEF rest
  <2>5. \A j \in 1 .. Len(list) : j # i => list[j] # u
    BY <2>1 DEF OneEach
  <2>6. OneEach(rest)
    BY <2>2, <2>3, <2>4, SMTT(20) DEF OneEach
  <2>7. Listed(rest) \subseteq Listed(list) \ {u}
    BY <2>2, <2>3, <2>4, <2>5 DEF Listed
  <2>8. ASSUME NEW v \in Listed(list) \ {u} PROVE v \in Listed(rest)
    <3>1. PICK k \in 1 .. Len(list) : v = list[k] /\ k # i
      BY <2>1 DEF Listed
    <3>2. CASE k < i
      <4>1. k \in 1 .. Len(rest) /\ k \in 1 .. Len(list) - 1
        BY <2>1, <2>2, <2>3, <3>1, <3>2
      <4>2. rest[k] = list[k]
        BY <2>4, <3>2, <4>1
      <4> QED
        BY <3>1, <4>1, <4>2 DEF Listed
    <3>3. CASE k > i
      <4>1. k - 1 \in 1 .. Len(rest) /\ rest[k - 1] = list[k]
        BY <2>1, <2>2, <2>3, <2>4, <3>1, <3>3
      <4> QED
        BY <3>1, <4>1 DEF Listed
    <3> QED
      BY <3>1, <3>2, <3>3
  <2>9. list[1] # u => rest # <<>> /\ rest[1] = list[1]
    BY <2>1, <2>2, <2>3, <2>4
  <2> QED
    BY <2>1, <2>3, <2>6, <2>7, <2>8, <2>9 DEF rest
<1> QED
  BY <1>2, <1>3

LEMMA InFront ==
  ASSUME NEW list \in Seq(B), OneEach(list), NEW u \in B, u \notin Listed(list)
  PROVE  /\ <<u>> \o list \in Seq(B) /\ OneEach(<<u>> \o list)
         /\ Listed(<<u>> \o list) = Listed(list) \cup {u}
         /\ <<u>> \o list # <<>> /\ (<<u>> \o list)[1] = u
<1> DEFINE all == <<u>> \o list
<1>1. /\ all \in Seq(B) /\ Len(all) = Len(list) + 1 /\ all[1] = u /\ Len(list) \in Nat
      /\ \A i \in 2 .. Len(list) + 1 : all[i] = list[i - 1]
  OBVIOUS
<1> HIDE DEF all
<1>2. \A i \in 1 .. Len(list) : i + 1 \in 1 .. Len(all) /\ all[i + 1] = list[i]
  BY <1>1
<1>3. \A i \in 2 .. Len(all) : i - 1 \in 1 .. Len(list) /\ all[i] = list[i - 1]
  BY <1>1
<1>4. 1 \in 1 .. Len(all) /\ \A i \in 1 .. Len(all) : i = 1 \/ i \in 2 .. Len(all)
  BY <1>1
<1>5. OneEach(all)
  <2>1. \A i \in 2 .. Len(all) : all[i] # u
    BY <1>3 DEF Listed
  <2>2. \A i, j \in 2 .. Len(all) : all[i] = all[j] => i - 1 = j - 1
    BY <1>3 DEF OneEach
  <2>3. \A i, j \in 2 .. Len(all) : i - 1 = j - 1 => i = j
    BY <1>1
  <2> QED
    BY <1>1, <1>4, <2>1, <2>2, <2>3 DEF OneEach
<1>6. Listed(all) = Listed(list) \cup {u}
  <2>1. Listed(all) \subseteq Listed(list) \cup {u}
    BY <1>1, <1>3, <1>4 DEF Listed
  <2>2. Listed(list) \cup {u} \subseteq Listed(all)
    BY <1>1, <1>2, <1>4 DEF Listed
  <2> QED
    BY <2>1, <2>2
<1> QED
  BY <1>1, <1>5, <1>6 DEF all

NodeMaps ==
  /\ \A n \in A : OneEach(uids[n]) /\ Listed(uids[n]) \subseteq current
  /\ \A n \in A, u \in B : u \in Listed(uids[n]) <=> n \in idNode[u]
  /\ \A u \in B : idNode[u] # {} /\ Nodes!CloseHandled(u) => u \in belated
  /\ \A n \in A : lastConn[n] # {} => uids[n] # <<>> /\ lastConn[n] = {uids[n][1]}

NodeInv == Nodes!TypeOK /\ NodeMaps

LEMMA NodesRight == NodeInv => Nodes!TypeOK /\ Nodes!RightConnection
<1> SUFFICES ASSUME NodeInv PROVE Nodes!RightConnection
  BY DEF NodeInv
<1>1. \A n \in A : uids[n] \in Seq(B)
  BY DEF NodeInv, Nodes!TypeOK
<1>2. \A n \in A : /\ Nodes!IsInjective(uids[n]) <=> OneEach(uids[n])
                   /\ Nodes!ToSet(uids[n]) = Listed(uids[n])
  BY <1>1, ListTerms
<1>3. ASSUME NEW n \in A, lastConn[n] # {} PROVE Nodes!getNodeCurrent(n) = lastConn[n]
  <2>1. uids[n] # <<>> /\ lastConn[n] = {uids[n][1]}
    BY <1>3 DEF NodeInv, NodeMaps
  <2>2. 1 \in 1 .. 1
    OBVIOUS
  <2>3. Nodes!getNodeCurrent(n) = {uids[n][1] : i \in 1 .. 1}
    BY <2>1 DEF Nodes!getNodeCurrent
  <2> QED
    BY <2>1, <2>2, <2>3
<1> QED
  BY <1>2, <1>3 DEF NodeInv, NodeMaps, Nodes!RightConnection

LEMMA NodesInit == Nodes!Init => NodeInv
<1> SUFFICES ASSUME Nodes!Init PROVE NodeInv
  OBVIOUS
<1>1. \A n \in A : uids[n] = <<>>
  BY DEF Nodes!Init
<1>2. Listed(<<>>) = {} /\ OneEach(<<>>) /\ <<>> \in Seq(B)
  BY DEF Listed, OneEach
<1>3. Nodes!TypeOK
  BY <1>2 DEF Nodes!Init, Nodes!TypeOK, Nodes!Calls
<1>4. NodeMaps
  BY <1>1, <1>2 DEF Nodes!Init, NodeMaps
<1> QED
  BY <1>3, <1>4 DEF NodeInv

\* The node's side.
LEMMA NodesSend ==
  ASSUME NodeInv, NEW n \in A, NEW u \in B,
         Nodes!Report(n, u) \/ Nodes!Delete(n, u)
  PROVE  NodeInv'
<1>1. UNCHANGED <<uids, idNode, current, belated, lastConn>>
  BY DEF Nodes!Report, Nodes!Delete, Nodes!Close
<1>2. Nodes!TypeOK'
  BY <1>1 DEF NodeInv, Nodes!TypeOK, Nodes!Report, Nodes!Delete, Nodes!Close, Nodes!Calls
<1>3. \A v \in B : Nodes!CloseHandled(v)' => Nodes!CloseHandled(v)
  BY DEF NodeInv, Nodes!TypeOK, Nodes!CloseHandled, Nodes!Report, Nodes!Delete, Nodes!Close
<1> QED
  BY <1>1, <1>2, <1>3 DEF NodeInv, NodeMaps

\* What a handler leaves is judged by the lists of each node.
LEMMA NodesHandled ==
  ASSUME NodeInv, NEW call \in calls, calls' = calls \ {call}, UNCHANGED life,
         call.kind = "close" => idNode'[call.conn] = {} ,
         uids' \in [A -> Seq(B)], idNode' \in [B -> SUBSET A], lastConn' \in [A -> SUBSET B],
         current' \subseteq B, belated' \subseteq B,
         \A n \in A : OneEach(uids'[n]) /\ Listed(uids'[n]) \subseteq current',
         \A n \in A, u \in B : u \in Listed(uids'[n]) <=> n \in idNode'[u],
         \A u \in B : idNode'[u] # {} /\ Nodes!CloseHandled(u) => u \in belated',
         \A n \in A : lastConn'[n] # {} =>
                        uids'[n] # <<>> /\ lastConn'[n] = {uids'[n][1]}
  PROVE  NodeInv'
<1>1. Nodes!TypeOK'
  BY DEF NodeInv, Nodes!TypeOK
<1>2. ASSUME NEW u \in B, idNode'[u] # {}, Nodes!CloseHandled(u)' PROVE u \in belated'
  BY <1>2 DEF Nodes!CloseHandled
<1> QED
  BY <1>1, <1>2 DEF NodeInv, NodeMaps

LEMMA NodesReported ==
  ASSUME NodeInv, NEW call \in calls, calls' = calls \ {call}, UNCHANGED life,
         call.kind = "report", Nodes!createNodeCurrent(call.node, call.conn)
  PROVE  NodeInv'
<1> DEFINE n == call.node
           u == call.conn
           rest == Nodes!Without(uids[n], u)
<1>1. n \in A /\ u \in B
  BY DEF NodeInv, Nodes!TypeOK, Nodes!Calls
<1>2. uids \in [A -> Seq(B)] /\ idNode \in [B -> SUBSET A] /\ lastConn \in [A -> SUBSET B]
  BY DEF NodeInv, Nodes!TypeOK
<1>3. uids[n] \in Seq(B) /\ OneEach(uids[n])
  BY <1>1, <1>2 DEF NodeInv, NodeMaps
<1>4. /\ rest \in Seq(B) /\ OneEach(rest) /\ Listed(rest) = Listed(uids[n]) \ {u}
  BY <1>1, <1>3, WithoutIt
<1>5. /\ uids' = [uids EXCEPT ![n] = <<u>> \o rest]
      /\ idNode' = [idNode EXCEPT ![u] = @ \cup {n}]
      /\ current' = current \cup {u}
      /\ belated' = IF Nodes!CloseHandled(u) THEN belated \cup {u} ELSE belated
      /\ lastConn' = [lastConn EXCEPT ![n] = {u}]
  BY DEF Nodes!createNodeCurrent
<1> HIDE DEF n, u, rest
<1>6. PICK all \in Seq(B) :
        /\ all = <<u>> \o rest /\ OneEach(all) /\ Listed(all) = Listed(uids[n]) \cup {u}
        /\ all # <<>> /\ all[1] = u
  BY <1>1, <1>4, InFront
<1>7. /\ uids' \in [A -> Seq(B)] /\ uids'[n] = all
      /\ \A m \in A \ {n} : uids'[m] = uids[m]
      /\ idNode' \in [B -> SUBSET A] /\ idNode'[u] = idNode[u] \cup {n}
      /\ \A v \in B \ {u} : idNode'[v] = idNode[v]
      /\ lastConn' \in [A -> SUBSET B] /\ lastConn'[n] = {u}
      /\ \A m \in A \ {n} : lastConn'[m] = lastConn[m]
  BY <1>1, <1>2, <1>5, <1>6
<1>8. \A m \in A : OneEach(uids'[m]) /\ Listed(uids'[m]) \subseteq current'
  BY <1>1, <1>5, <1>6, <1>7 DEF NodeInv, NodeMaps
<1>9. \A m \in A, v \in B : v \in Listed(uids'[m]) <=> m \in idNode'[v]
  <2>1. \A m \in A \ {n}, v \in B : m \in idNode'[v] <=> m \in idNode[v]
    BY <1>7
  <2>2. \A v \in B : n \in idNode'[v] <=> n \in idNode[v] \/ v = u
    BY <1>1, <1>7
  <2>3. \A m \in A, v \in B : v \in Listed(uids[m]) <=> m \in idNode[v]
    BY DEF NodeInv, NodeMaps
  <2>4. \A m \in A \ {n}, v \in B : v \in Listed(uids'[m]) <=> m \in idNode'[v]
    BY <1>7, <2>1, <2>3
  <2>5. \A v \in B : v \in Listed(uids'[n]) <=> n \in idNode'[v]
    BY <1>1, <1>6, <1>7, <2>2, <2>3
  <2> QED
    BY <2>4, <2>5
<1>10. \A v \in B : idNode'[v] # {} /\ Nodes!CloseHandled(v) => v \in belated'
  BY <1>1, <1>5, <1>7 DEF NodeInv, NodeMaps
<1>11. \A m \in A : lastConn'[m] # {} => uids'[m] # <<>> /\ lastConn'[m] = {uids'[m][1]}
  BY <1>6, <1>7 DEF NodeInv, NodeMaps
<1>12. current' \subseteq B /\ belated' \subseteq B
  BY <1>1, <1>5 DEF NodeInv, Nodes!TypeOK
<1> QED
  BY <1>7, <1>8, <1>9, <1>10, <1>11, <1>12, NodesHandled

LEMMA NodesDeleted ==
  ASSUME NodeInv, NEW call \in calls, calls' = calls \ {call}, UNCHANGED life,
         call.kind = "delete", Nodes!deleteNodeCurrent(call.node, call.conn)
  PROVE  NodeInv'
<1> DEFINE n == call.node
<1>1. n \in A
  BY DEF NodeInv, Nodes!TypeOK, Nodes!Calls
<1>2. uids \in [A -> Seq(B)] /\ idNode \in [B -> SUBSET A] /\ lastConn \in [A -> SUBSET B]
  BY DEF NodeInv, Nodes!TypeOK
<1>3. Nodes!ToSet(uids[n]) = Listed(uids[n])
  BY <1>1, <1>2, ListTerms
<1>4. /\ uids' = [uids EXCEPT ![n] = <<>>]
      /\ idNode' = [v \in B |-> IF v \in Listed(uids[n]) THEN idNode[v] \ {n} ELSE idNode[v]]
      /\ lastConn' = [lastConn EXCEPT ![n] = {}]
      /\ UNCHANGED <<current, belated>>
  BY <1>3 DEF Nodes!deleteNodeCurrent
<1> HIDE DEF n
<1>5. <<>> \in Seq(B) /\ OneEach(<<>>) /\ Listed(<<>>) = {}
  BY DEF OneEach, Listed
<1>6. /\ uids' \in [A -> Seq(B)] /\ uids'[n] = <<>>
      /\ \A m \in A \ {n} : uids'[m] = uids[m]
      /\ lastConn' \in [A -> SUBSET B] /\ lastConn'[n] = {}
      /\ \A m \in A \ {n} : lastConn'[m] = lastConn[m]
  BY <1>1, <1>2, <1>4, <1>5
<1>7. /\ idNode' \in [B -> SUBSET A]
      /\ \A v \in B : idNode'[v] = idNode[v] \ {n}
  BY <1>1, <1>2, <1>4 DEF NodeInv, NodeMaps
<1>8. \A m \in A : OneEach(uids'[m]) /\ Listed(uids'[m]) \subseteq current'
  BY <1>4, <1>5, <1>6 DEF NodeInv, NodeMaps
<1>9. \A m \in A, v \in B : v \in Listed(uids'[m]) <=> m \in idNode'[v]
  BY <1>5, <1>6, <1>7 DEF NodeInv, NodeMaps
<1>10. \A v \in B : idNode'[v] # {} /\ Nodes!CloseHandled(v) => v \in belated'
  BY <1>4, <1>7 DEF NodeInv, NodeMaps
<1>11. \A m \in A : lastConn'[m] # {} => uids'[m] # <<>> /\ lastConn'[m] = {uids'[m][1]}
  BY <1>6 DEF NodeInv, NodeMaps
<1>12. current' \subseteq B /\ belated' \subseteq B
  BY <1>4 DEF NodeInv, Nodes!TypeOK
<1> QED
  BY <1>6, <1>7, <1>8, <1>9, <1>10, <1>11, <1>12, NodesHandled

LEMMA NodesClosed ==
  ASSUME NodeInv, NEW call \in calls, calls' = calls \ {call}, UNCHANGED life,
         call.kind = "close", Nodes!eraseNodeCurrent(call.conn)
  PROVE  NodeInv'
<1> DEFINE u == call.conn
<1>1. u \in B
  BY DEF NodeInv, Nodes!TypeOK, Nodes!Calls
<1>2. uids \in [A -> Seq(B)] /\ idNode \in [B -> SUBSET A] /\ lastConn \in [A -> SUBSET B]
  BY DEF NodeInv, Nodes!TypeOK
<1>3. /\ uids' = [n \in A |-> IF n \in idNode[u] THEN Nodes!Without(uids[n], u) ELSE uids[n]]
      /\ idNode' = [idNode EXCEPT ![u] = {}]
      /\ current' = current \ {u}
      /\ lastConn' = [n \in A |-> lastConn[n] \ {u}]
      /\ UNCHANGED belated
  BY DEF Nodes!eraseNodeCurrent
<1> HIDE DEF u
<1>4. ASSUME NEW n \in A
      PROVE  /\ uids'[n] \in Seq(B) /\ OneEach(uids'[n])
             /\ Listed(uids'[n]) = Listed(uids[n]) \ {u}
             /\ uids[n] # <<>> /\ uids[n][1] # u => uids'[n] # <<>> /\ uids'[n][1] = uids[n][1]
  <2>1. uids[n] \in Seq(B) /\ OneEach(uids[n]) /\ (u \in Listed(uids[n]) <=> n \in idNode[u])
    BY <1>1, <1>2 DEF NodeInv, NodeMaps
  <2>2. CASE n \in idNode[u]
    BY <1>1, <1>3, <2>1, <2>2, WithoutIt
  <2>3. CASE n \notin idNode[u]
    BY <1>3, <2>1, <2>3
  <2> QED
    BY <2>2, <2>3
<1>5. /\ uids' \in [A -> Seq(B)] /\ idNode' \in [B -> SUBSET A] /\ idNode'[u] = {}
      /\ \A v \in B \ {u} : idNode'[v] = idNode[v]
  <2>1. uids' = [n \in A |-> uids'[n]]
    BY <1>3
  <2>2. uids' \in [A -> Seq(B)]
    BY <1>4, <2>1
  <2> QED
    BY <1>1, <1>2, <1>3, <2>2
<1>6. lastConn' \in [A -> SUBSET B] /\ \A n \in A : lastConn'[n] = lastConn[n] \ {u}
  BY <1>2, <1>3
<1>7. \A m \in A : OneEach(uids'[m]) /\ Listed(uids'[m]) \subseteq current'
  <2>1. \A m \in A : Listed(uids[m]) \subseteq current
    BY DEF NodeInv, NodeMaps
  <2>2. \A m \in A : Listed(uids'[m]) \subseteq current'
    BY <1>3, <1>4, <2>1
  <2> QED
    BY <1>4, <2>2
<1>8. \A m \in A, v \in B : v \in Listed(uids'[m]) <=> m \in idNode'[v]
  BY <1>4, <1>5 DEF NodeInv, NodeMaps
<1>9. \A v \in B : idNode'[v] # {} /\ Nodes!CloseHandled(v) => v \in belated'
  BY <1>3, <1>5 DEF NodeInv, NodeMaps
<1>10. \A m \in A : lastConn'[m] # {} => uids'[m] # <<>> /\ lastConn'[m] = {uids'[m][1]}
  BY <1>4, <1>6 DEF NodeInv, NodeMaps
<1>11. current' \subseteq B /\ belated' \subseteq B
  BY <1>3 DEF NodeInv, Nodes!TypeOK
<1> QED
  BY <1>5, <1>6, <1>7, <1>8, <1>9, <1>10, <1>11, NodesHandled DEF u

LEMMA NodesStep == NodeInv /\ Nodes!Next => NodeInv'
<1> SUFFICES ASSUME NodeInv, Nodes!Next PROVE NodeInv'
  OBVIOUS
<1>1. ASSUME NEW call \in calls, Nodes!Handle(call) PROVE NodeInv'
  BY <1>1, NodesReported, NodesDeleted, NodesClosed DEF Nodes!Handle
<1>2. ASSUME NEW u \in B, Nodes!Close(u) PROVE NodeInv'
  <2>1. UNCHANGED <<uids, idNode, current, belated, lastConn>>
    BY <1>2 DEF Nodes!Close
  <2>2. Nodes!TypeOK'
    BY <1>2, <2>1 DEF NodeInv, Nodes!TypeOK, Nodes!Close, Nodes!Calls
  <2>3. \A v \in B : Nodes!CloseHandled(v)' => Nodes!CloseHandled(v)
    BY <1>2 DEF NodeInv, Nodes!TypeOK, Nodes!CloseHandled, Nodes!Close
  <2> QED
    BY <2>1, <2>2, <2>3 DEF NodeInv, NodeMaps
<1> QED
  BY <1>1, <1>2, NodesSend DEF Nodes!Next

LEMMA NodesRest == NodeInv /\ UNCHANGED nodeVars => NodeInv'
BY DEF NodeInv, NodeMaps, Nodes!TypeOK, Nodes!CloseHandled, nodeVars

-----------------------------------------------------------------------------
(***************************************************************************)
(* PatchFlow                                                               *)
(***************************************************************************)
Patched ==
  [patching : BOOLEAN, full : BOOLEAN, succ : BOOLEAN, ok : BOOLEAN,
   installed : Patch!Package, version : Patch!Package, ostype : BOOLEAN,
   stage : Patch!Stage, swapped : BOOLEAN]
Items ==
  [stage : {"new", "prepare", "push", "poll", "success", "failed"},
   server : A \cup {"none"}, version : Patch!Package, ostype : BOOLEAN,
   overtaken : BOOLEAN, right : BOOLEAN, swapped : BOOLEAN]

\* The thread has installed something, and has not found an error since.
Done(r) ==
  \/ r.stage = "update" \/ (r.stage \in {"result", "patched"} /\ r.ok)
  \/ (r.stage = "patched" /\ r.succ) \/ (r.full /\ r.succ)

Right(r) ==
  /\ r.full => r.stage = "idle"
  /\ r.stage # "idle" => r.patching
  /\ r.stage = "unpack" /\ ~r.ostype => r.ok /\ (local = r.version \/ r.swapped)
  /\ r.stage = "update" => r.ok
  /\ Done(r) => r.installed = r.version \/ r.swapped

\* A task that asks for the progress asks of its own patch, unless another came
\* behind it, or of none, when the node has been restarted.
Told(k) ==
  /\ k.stage # "new" => k.server \in A /\ k.version \in B
  /\ k.stage = "poll" /\ ~k.overtaken =>
       \/ server[k.server].version = k.version
       \/ server[k.server].stage = "idle" /\ ~server[k.server].full
  /\ k.stage = "success" => k.right \/ k.overtaken \/ k.swapped

PatchTypes ==
  /\ served \in Patch!Package /\ local \in Patch!Package /\ faults \in 0 .. MaxFaults
  /\ server \in [A -> Patched] /\ task \in [B -> Items]

PatchInv ==
  /\ PatchTypes
  /\ \A s \in A, r \in Patched : r = server[s] => Right(r)
  /\ \A t \in B, k \in Items : k = task[t] => Told(k)

LEMMA PatchTyped == PatchTypes => Patch!TypeOK
BY DEF PatchTypes, Patch!TypeOK, Patched, Items, Patch!None

LEMMA PatchFault ==
  ASSUME PatchTypes, Patch!Fault \/ UNCHANGED faults
  PROVE  faults' \in 0 .. MaxFaults
BY ServicesAssumption DEF PatchTypes, Patch!Fault

LEMMA FreshRight ==
  ASSUME NEW p \in Patch!Package
  PROVE  /\ Patch!Fresh(p) \in Patched /\ Right(Patch!Fresh(p))
         /\ Patch!Fresh(p).stage = "idle" /\ ~Patch!Fresh(p).full
BY DEF Patch!Fresh, Patched, Right, Done, Patch!Package, Patch!None, Patch!Stage

LEMMA PatchesInit == Patch!Init => PatchInv
<1> SUFFICES ASSUME Patch!Init PROVE PatchInv
  OBVIOUS
<1>1. "none" \in Patch!Package /\ 0 \in 0 .. MaxFaults
  BY ServicesAssumption DEF Patch!Package, Patch!None
<1>2. Patch!Fresh("none") \in Patched /\ Right(Patch!Fresh("none"))
  BY <1>1, FreshRight
<1>3. server \in [A -> Patched] /\ \A s \in A : server[s] = Patch!Fresh("none")
  BY <1>2 DEF Patch!Init, Patch!None
<1>4. task \in [B -> Items] /\ \A t \in B : task[t].stage = "new"
  BY <1>1 DEF Patch!Init, Patch!None, Items
<1>5. PatchTypes
  BY <1>1, <1>3, <1>4 DEF Patch!Init, PatchTypes, Patch!None
<1>6. \A t \in B, k \in Items : k = task[t] => Told(k)
  BY <1>4 DEF Told
<1> QED
  BY <1>2, <1>3, <1>5, <1>6 DEF PatchInv

\* A step of a task of its own.
LEMMA PatchTask ==
  ASSUME PatchInv, NEW t \in B, NEW new \in Items, task' = [task EXCEPT ![t] = new],
         Told(new), UNCHANGED <<local, server>>, served' \in Patch!Package,
         faults' \in 0 .. MaxFaults
  PROVE  PatchInv'
<1>1. /\ PatchTypes /\ task' \in [B -> Items]
      /\ \A u \in B : task'[u] = IF u = t THEN new ELSE task[u]
  BY DEF PatchInv, PatchTypes
<1>2. PatchTypes'
  BY <1>1 DEF PatchTypes
<1>3. \A s \in A, r \in Patched : r = server'[s] => Right(r)'
  BY DEF PatchInv, Right
<1>4. \A u \in B, k \in Items : k = task'[u] => Told(k)
  BY <1>1 DEF PatchInv
<1>5. \A k \in Items : Told(k) => Told(k)'
  BY DEF Told
<1> QED
  BY <1>2, <1>3, <1>4, <1>5 DEF PatchInv

LEMMA PatchTasks ==
  ASSUME PatchInv, NEW t \in B,
         \/ Patch!addTask(t) \/ Patch!preparePatch(t) \/ Patch!getPatchPercent(t)
         \/ Patch!GiveUp(t)
  PROVE  PatchInv'
<1>1. PatchTypes
  BY DEF PatchInv
<1>2. PICK k \in Items : k = task[t] /\ Told(k)
  BY <1>1 DEF PatchInv, PatchTypes
<1>3. faults' \in 0 .. MaxFaults
  BY <1>1, PatchFault
  DEF PatchTypes, Patch!addTask, Patch!preparePatch, Patch!getPatchPercent, Patch!GiveUp
<1>4. UNCHANGED <<local, server>>
  BY DEF Patch!addTask, Patch!preparePatch, Patch!getPatchPercent, Patch!GiveUp
<1>5. PICK new \in Items :
        /\ task' = [task EXCEPT ![t] = new] /\ Told(new) /\ served' \in Patch!Package
  <2>1. CASE Patch!addTask(t)
    <3>1. PICK s \in A, v \in B, os \in BOOLEAN :
            /\ task' = [task EXCEPT ![t].stage = "prepare", ![t].server = s,
                                    ![t].version = v, ![t].ostype = os]
            /\ UNCHANGED served
      BY <2>1 DEF Patch!addTask
    <3>2. PICK new : new = [k EXCEPT !.stage = "prepare", !.server = s, !.version = v,
                                     !.ostype = os]
      OBVIOUS
    <3>3. new \in Items /\ new.stage = "prepare" /\ new.server = s /\ new.version = v
      BY <3>2 DEF Items, Patch!Package
    <3>4. task' = [task EXCEPT ![t] = new]
      BY <1>1, <1>2, <3>1, <3>2 DEF PatchTypes
    <3> QED
      BY <1>1, <3>1, <3>3, <3>4 DEF Told, PatchTypes
  <2>2. ASSUME NEW stage \in {"push", "failed"}, Patch!Go(t, stage), k.stage # "new",
               served' \in Patch!Package
        PROVE  \E new \in Items :
                 /\ task' = [task EXCEPT ![t] = new] /\ Told(new)
                 /\ served' \in Patch!Package
    <3>1. PICK new : new = [k EXCEPT !.stage = stage]
      OBVIOUS
    <3>2. new \in Items /\ new.stage = stage /\ new.server = k.server /\ new.version = k.version
      BY <3>1 DEF Items
    <3>3. task' = [task EXCEPT ![t] = new]
      BY <1>1, <1>2, <2>2, <3>1 DEF PatchTypes, Patch!Go
    <3>4. Told(new)
      BY <1>2, <2>2, <3>2 DEF Told
    <3> QED
      BY <2>2, <3>2, <3>3, <3>4
  <2>3. CASE Patch!preparePatch(t)
    <3>1. k.stage = "prepare" /\ k.version \in Patch!Package
      BY <1>2, <2>3 DEF Patch!preparePatch, Items
    <3>2. served' \in Patch!Package /\ (Patch!Go(t, "push") \/ Patch!Go(t, "failed"))
      BY <1>1, <1>2, <2>3, <3>1 DEF Patch!preparePatch, PatchTypes
    <3> QED
      BY <2>2, <3>1, <3>2
  <2>4. CASE Patch!GiveUp(t)
    <3>1. k.stage = "poll" /\ Patch!Go(t, "failed") /\ served' \in Patch!Package
      BY <1>1, <1>2, <2>4 DEF Patch!GiveUp, PatchTypes
    <3> QED
      BY <2>2, <3>1
  <2>5. CASE Patch!getPatchPercent(t)
    <3>1. k.stage = "poll" /\ k.server \in A /\ UNCHANGED served /\ served \in Patch!Package
      BY <1>1, <1>2, <2>5 DEF Patch!getPatchPercent, PatchTypes, Told
    <3>2. PICK r \in Patched : r = server[k.server] /\ Right(r)
      BY <1>1, <3>1 DEF PatchInv, PatchTypes
    <3>3. CASE Patch!Go(t, "failed")
      BY <2>2, <3>1, <3>3
    <3>4. CASE /\ r.succ /\ r.full
               /\ task' = [task EXCEPT ![t].stage = "success",
                                       ![t].right = r.installed = k.version,
                                       ![t].swapped = r.swapped]
      <4>1. PICK right \in BOOLEAN : right = (r.installed = k.version)
        OBVIOUS
      <4>2. PICK new : new = [k EXCEPT !.stage = "success", !.right = right,
                                       !.swapped = r.swapped]
        OBVIOUS
      <4>3. /\ new \in Items /\ new.stage = "success" /\ new.right = right
            /\ new.swapped = r.swapped /\ new.overtaken = k.overtaken
            /\ new.server = k.server /\ new.version = k.version
        BY <4>2 DEF Items, Patched
      <4>4. task' = [task EXCEPT ![t] = new]
        BY <1>1, <1>2, <3>4, <4>1, <4>2 DEF PatchTypes
      <4>5. r.installed = r.version \/ r.swapped
        BY <3>2, <3>4 DEF Right, Done
      <4>6. k.overtaken \/ r.version = k.version
        BY <1>2, <3>1, <3>2, <3>4 DEF Told
      <4>7. Told(new)
        BY <1>2, <3>1, <4>1, <4>3, <4>5, <4>6 DEF Told
      <4> QED
        BY <3>1, <4>3, <4>4, <4>7
    <3> QED
      BY <1>2, <2>5, <3>2, <3>3, <3>4 DEF Patch!getPatchPercent
  <2> QED
    BY <2>1, <2>3, <2>4, <2>5
<1> QED
  BY <1>3, <1>4, <1>5, PatchTask

LEMMA PatchBatch ==
  ASSUME PatchInv, NEW t \in B, Patch!batchPatch(t)
  PROVE  PatchInv'
<1>1. PatchTypes /\ UNCHANGED <<served, local>>
  BY DEF PatchInv, Patch!batchPatch
<1>2. PICK k \in Items : k = task[t] /\ Told(k) /\ k.stage = "push"
  BY <1>1 DEF PatchInv, PatchTypes, Patch!batchPatch
<1>3. k.server \in A /\ k.version \in B
  BY <1>2 DEF Told
<1>4. PICK r \in Patched : r = server[k.server] /\ Right(r)
  BY <1>1, <1>3 DEF PatchInv, PatchTypes
<1>5. CASE r.patching
  <2>1. Patch!Go(t, "failed") /\ UNCHANGED <<server, faults>>
    BY <1>2, <1>4, <1>5 DEF Patch!batchPatch
  <2>2. PICK new : new = [k EXCEPT !.stage = "failed"]
    OBVIOUS
  <2>3. /\ new \in Items /\ new.stage = "failed"
        /\ new.server = k.server /\ new.version = k.version
    BY <2>2 DEF Items
  <2>4. task' = [task EXCEPT ![t] = new]
    BY <1>1, <1>2, <2>1, <2>2 DEF PatchTypes, Patch!Go
  <2>5. Told(new) /\ served' \in Patch!Package /\ faults' \in 0 .. MaxFaults
    BY <1>1, <1>3, <2>1, <2>3 DEF Told, PatchTypes
  <2> QED
    BY <1>1, <2>1, <2>3, <2>4, <2>5, PatchTask
<1>6. CASE ~r.patching
  <2>1. PICK dropped \in BOOLEAN :
          /\ Patch!patchPro(k.server, k.version, k.ostype)
          /\ Patch!Fault \/ UNCHANGED faults
          /\ task' = [u \in B |->
               IF u = t THEN [task[t] EXCEPT !.stage = IF dropped THEN "failed" ELSE "poll"]
               ELSE [task[u] EXCEPT !.overtaken = @ \/ task[u].server = k.server]]
    BY <1>2, <1>4, <1>6 DEF Patch!batchPatch
  <2>2. PICK new : new = [r EXCEPT !.patching = TRUE, !.full = FALSE, !.version = k.version,
                                   !.ostype = k.ostype, !.stage = "queued"]
    OBVIOUS
  <2>3. /\ new \in Patched /\ new.version = k.version /\ ~new.full /\ new.patching
        /\ new.stage = "queued"
    BY <1>2, <1>3, <2>2 DEF Items, Patched, Patch!Stage, Patch!Package
  <2>4. server' = [server EXCEPT ![k.server] = new]
    BY <1>1, <1>4, <2>1, <2>2 DEF Patch!patchPro, PatchTypes
  <2>5. Right(new)'
    BY <2>3 DEF Right, Done
  <2>6. /\ server' \in [A -> Patched]
        /\ \A u \in A : server'[u] = IF u = k.server THEN new ELSE server[u]
    BY <1>1, <1>3, <2>3, <2>4 DEF PatchTypes
  <2>7. \A s \in A, q \in Patched : q = server'[s] => Right(q)'
    BY <1>1, <2>5, <2>6 DEF PatchInv, Right
  <2>8. ASSUME NEW u \in B
        PROVE  \E n \in Items : n = task'[u] /\ Told(n)'
    <3>1. PICK o \in Items : o = task[u] /\ Told(o)
      BY <1>1 DEF PatchInv, PatchTypes
    <3>2. CASE u = t
      <4>1. PICK n : n = [k EXCEPT !.stage = IF dropped THEN "failed" ELSE "poll"]
        OBVIOUS
      <4>2. /\ n \in Items /\ n.stage \in {"failed", "poll"} /\ n.server = k.server
            /\ n.version = k.version
        BY <4>1 DEF Items
      <4>3. n = task'[u]
        BY <1>2, <2>1, <3>2, <4>1
      <4>4. Told(n)'
        BY <1>3, <2>3, <2>6, <4>2 DEF Told
      <4> QED
        BY <4>2, <4>3, <4>4
    <3>3. CASE u # t
      <4>1. PICK over \in BOOLEAN : over = (o.overtaken \/ o.server = k.server)
        BY DEF Items
      <4>2. PICK n : n = [o EXCEPT !.overtaken = over]
        OBVIOUS
      <4>3. /\ n \in Items /\ n.stage = o.stage /\ n.server = o.server
            /\ n.version = o.version /\ n.overtaken = over /\ n.right = o.right
            /\ n.swapped = o.swapped
        BY <4>2 DEF Items
      <4>4. n = task'[u]
        BY <2>1, <3>1, <3>3, <4>1, <4>2
      <4>5. Told(n)'
        BY <2>6, <3>1, <4>1, <4>3 DEF Told
      <4> QED
        BY <4>3, <4>4, <4>5
    <3> QED
      BY <3>2, <3>3
  <2>9. task' \in [B -> Items]
    <3>1. task' = [u \in B |-> task'[u]]
      BY <2>1
    <3> QED
      BY <2>8, <3>1
  <2>10. PatchTypes'
    BY <1>1, <2>1, <2>6, <2>9, PatchFault DEF PatchTypes
  <2> QED
    BY <2>7, <2>8, <2>10 DEF PatchInv
<1> QED
  BY <1>4, <1>5, <1>6 DEF Patched

\* What the thread of another server does to this one: at most it replaces the
\* package behind its check.
Aside(u) ==
  /\ server'[u].stage = server[u].stage /\ server'[u].patching = server[u].patching
  /\ server'[u].full = server[u].full /\ server'[u].succ = server[u].succ
  /\ server'[u].ok = server[u].ok /\ server'[u].version = server[u].version
  /\ server'[u].ostype = server[u].ostype
  /\ server'[u].installed = server[u].installed
  /\ server[u].swapped => server'[u].swapped
  /\ Patch!Unpacks(u) => local' = local \/ server'[u].swapped

\* A thread keeps the version it is at, so that those who ask are told of it.
LEMMA PatchThread ==
  ASSUME PatchInv, NEW s \in A, server[s].stage # "idle", server' \in [A -> Patched],
         server'[s].version = server[s].version,
         \A r \in Patched : r = server'[s] => Right(r)',
         \A u \in A \ {s} : Aside(u),
         UNCHANGED <<served, task>>, local' \in Patch!Package, faults' \in 0 .. MaxFaults
  PROVE  PatchInv'
<1>1. PatchTypes /\ PatchTypes'
  BY DEF PatchInv, PatchTypes
<1>2. ASSUME NEW u \in A, NEW r \in Patched, r = server'[u] PROVE Right(r)'
  <2>1. CASE u = s
    BY <1>2, <2>1
  <2>2. CASE u # s
    <3>1. PICK q \in Patched : q = server[u] /\ Right(q)
      BY <1>1 DEF PatchInv, PatchTypes
    <3>2. Aside(u)
      BY <2>2
    <3>3. Done(r) => Done(q)
      BY <1>2, <3>1, <3>2 DEF Done, Aside
    <3> QED
      BY <1>2, <3>1, <3>2, <3>3 DEF Right, Aside, Patched, Patch!Unpacks
  <2> QED
    BY <2>1, <2>2
<1>3. ASSUME NEW t \in B, NEW k \in Items, k = task'[t] PROVE Told(k)'
  <2>1. Told(k) /\ k = task[t]
    BY <1>3 DEF PatchInv
  <2>2. CASE k.stage = "poll" /\ ~k.overtaken
    <3>1. k.server \in A
      BY <2>1, <2>2 DEF Told
    <3>2. CASE k.server = s
      BY <2>1, <2>2, <3>2 DEF Told
    <3>3. CASE k.server # s
      BY <2>1, <2>2, <3>1, <3>3 DEF Told, Aside
    <3> QED
      BY <3>2, <3>3
  <2>3. CASE ~(k.stage = "poll" /\ ~k.overtaken)
    BY <2>1, <2>3 DEF Told
  <2> QED
    BY <2>2, <2>3
<1> QED
  BY <1>1, <1>2, <1>3 DEF PatchInv

\* A step that changes this thread only.
LEMMA PatchAlone ==
  ASSUME PatchInv, NEW s \in A, server[s].stage # "idle", NEW new \in Patched,
         server' = [server EXCEPT ![s] = new], new.version = server[s].version, Right(new),
         UNCHANGED <<served, local, task>>, faults' \in 0 .. MaxFaults
  PROVE  PatchInv'
<1>1. PatchTypes
  BY DEF PatchInv
<1>2. /\ server' \in [A -> Patched] /\ server'[s] = new
      /\ \A u \in A \ {s} : server'[u] = server[u]
  BY <1>1 DEF PatchTypes
<1>3. \A u \in A \ {s} : Aside(u)
  BY <1>2 DEF Aside
<1>4. \A r \in Patched : r = server'[s] => Right(r)'
  BY <1>2 DEF Right
<1>5. local' \in Patch!Package
  BY <1>1 DEF PatchTypes
<1> QED
  BY <1>2, <1>3, <1>4, <1>5, PatchThread

LEMMA PatchReplace ==
  ASSUME PatchInv, NEW s \in A, NEW r \in Patched, r = server[s], r.stage = "download",
         ~r.ostype,
         NEW f \in Patch!Package,
         \/ Patch!Replace(s, f, "unpack", TRUE) /\ f = r.version
         \/ Patch!Replace(s, f, "result", FALSE),
         UNCHANGED <<served, task>>, faults' \in 0 .. MaxFaults
  PROVE  PatchInv'
<1>1. PatchTypes /\ Right(r)
  BY DEF PatchInv
<1>2. PICK stage \in {"unpack", "result"}, ok \in BOOLEAN :
        /\ Patch!Replace(s, f, stage, ok)
        /\ stage = "unpack" => f = r.version /\ ok
        /\ stage = "result" => ~ok
  OBVIOUS
<1>3. /\ local' = f
      /\ server' = [u \in A |->
           IF u = s THEN [server[u] EXCEPT !.stage = stage, !.ok = ok]
           ELSE [server[u] EXCEPT !.swapped = @ \/ (Patch!Unpacks(u) /\ f # local)]]
  BY <1>2 DEF Patch!Replace
<1>4. PICK new : new = [r EXCEPT !.stage = stage, !.ok = ok]
  OBVIOUS
<1>5. /\ new \in Patched /\ new.stage = stage /\ new.ok = ok /\ new.full = r.full
      /\ new.patching = r.patching /\ new.version = r.version /\ new.succ = r.succ
      /\ new.ostype = r.ostype
  BY <1>4 DEF Patched, Patch!Stage
<1>6. server'[s] = new
  BY <1>3, <1>4
<1>7. Right(new)'
  BY <1>1, <1>2, <1>3, <1>5 DEF Right, Done, Patched
<1>8. ASSUME NEW u \in A \ {s} PROVE server'[u] \in Patched /\ Aside(u)
  <2>1. PICK q \in Patched : q = server[u]
    BY <1>1 DEF PatchTypes
  <2>2. PICK swapped \in BOOLEAN : swapped = (q.swapped \/ (Patch!Unpacks(u) /\ f # local))
    BY DEF Patched
  <2>3. PICK n : n = [q EXCEPT !.swapped = swapped]
    OBVIOUS
  <2>4. /\ n \in Patched /\ n.stage = q.stage /\ n.patching = q.patching /\ n.full = q.full
        /\ n.succ = q.succ /\ n.ok = q.ok /\ n.version = q.version
        /\ n.installed = q.installed /\ n.ostype = q.ostype /\ n.swapped = swapped
    BY <2>3 DEF Patched
  <2>5. server'[u] = n
    BY <1>3, <2>1, <2>2, <2>3
  <2> QED
    BY <1>3, <2>1, <2>2, <2>4, <2>5 DEF Aside
<1>9. server' \in [A -> Patched]
  <2>1. \A u \in A : server'[u] \in Patched
    BY <1>5, <1>6, <1>8
  <2>2. server' = [u \in A |-> server'[u]]
    BY <1>3
  <2> QED
    BY <2>1, <2>2
<1> QED
  BY <1>3, <1>5, <1>6, <1>7, <1>8, <1>9, PatchThread

LEMMA PatchDownload ==
  ASSUME PatchInv, NEW s \in A, Patch!Download(s)
  PROVE  PatchInv'
<1>1. PatchTypes /\ faults' \in 0 .. MaxFaults /\ UNCHANGED <<served, task>>
  BY PatchFault DEF PatchInv, Patch!Download, Patch!Patching
<1>2. PICK r \in Patched : r = server[s] /\ r.stage = "download" /\ Right(r)
  BY <1>1 DEF PatchInv, PatchTypes, Patch!Download
<1>3. r.version \in Patch!Package /\ served \in Patch!Package /\ local \in Patch!Package
      /\ "none" \in Patch!Package
  BY <1>1, <1>2 DEF PatchTypes, Patched, Patch!Package, Patch!None
<1>4. CASE ~r.ostype
  <2>1. \/ Patch!Replace(s, r.version, "unpack", TRUE)
        \/ \E f \in {served, local, "none"} : Patch!Replace(s, f, "result", FALSE)
    BY <1>2, <1>4 DEF Patch!Download, Patch!download, Patch!None
  <2> QED
    BY <1>1, <1>2, <1>3, <1>4, <2>1, PatchReplace
<1>5. CASE r.ostype
  <2>1. UNCHANGED local /\ Patch!DownloadOs(s)
    BY <1>2, <1>5 DEF Patch!Download
  <2>2. PICK ok \in BOOLEAN :
          server' = [server EXCEPT ![s].stage = "unpack", ![s].ok = ok]
    BY <2>1 DEF Patch!DownloadOs
  <2>3. PICK new : new = [r EXCEPT !.stage = "unpack", !.ok = ok]
    OBVIOUS
  <2>4. server' = [server EXCEPT ![s] = new]
    BY <1>1, <1>2, <2>2, <2>3 DEF PatchTypes
  <2>5. /\ new \in Patched /\ new.stage = "unpack" /\ new.ostype /\ new.full = r.full
        /\ new.patching = r.patching /\ new.version = r.version
    BY <1>5, <2>3 DEF Patched, Patch!Stage
  <2>6. Right(new)
    BY <1>2, <2>5 DEF Right, Done
  <2> QED
    BY <1>1, <1>2, <2>1, <2>4, <2>5, <2>6, PatchAlone
<1> QED
  BY <1>4, <1>5

LEMMA PatchThreads ==
  ASSUME PatchInv, NEW s \in A,
         \/ Patch!canExecute(s) \/ Patch!Unpack(s) \/ Patch!updatePatchResult(s)
         \/ Patch!setPatchResult(s) \/ Patch!setPatched(s)
  PROVE  PatchInv'
<1>1. PatchTypes
  BY DEF PatchInv
<1>2. PICK r \in Patched : r = server[s] /\ Right(r)
  BY <1>1 DEF PatchInv, PatchTypes
<1>3. UNCHANGED <<served, local, task>> /\ faults' \in 0 .. MaxFaults
  BY <1>1, PatchFault
  DEF Patch!canExecute, Patch!Unpack, Patch!updatePatchResult, Patch!setPatchResult,
      Patch!setPatched, Patch!Patching
<1>4. r.stage \in {"queued", "unpack", "update", "result", "patched"}
  BY <1>2 DEF Patch!canExecute, Patch!Unpack, Patch!updatePatchResult, Patch!setPatchResult,
              Patch!setPatched
<1>5. PICK new \in Patched :
        server' = [server EXCEPT ![s] = new] /\ new.version = r.version /\ Right(new)
  <2>1. CASE Patch!canExecute(s)
    <3>1. PICK new : new = [r EXCEPT !.stage = "download", !.full = FALSE, !.succ = TRUE,
                                     !.ok = TRUE, !.swapped = FALSE]
      OBVIOUS
    <3>2. server' = [server EXCEPT ![s] = new]
      BY <1>1, <1>2, <2>1, <3>1 DEF Patch!canExecute, PatchTypes
    <3>3. /\ new \in Patched /\ new.stage = "download" /\ ~new.full
          /\ new.patching = r.patching /\ new.version = r.version
      BY <3>1 DEF Patched, Patch!Stage
    <3>4. Right(new)
      BY <1>2, <1>4, <3>3 DEF Right, Done
    <3> QED
      BY <3>2, <3>3, <3>4
  <2>2. ASSUME Patch!Fail(s), r.stage \in {"unpack", "update"}
        PROVE  \E new \in Patched :
                 server' = [server EXCEPT ![s] = new] /\ new.version = r.version /\ Right(new)
    <3>1. PICK new : new = [r EXCEPT !.stage = "result", !.ok = FALSE]
      OBVIOUS
    <3>2. server' = [server EXCEPT ![s] = new]
      BY <1>1, <1>2, <2>2, <3>1 DEF Patch!Fail, PatchTypes
    <3>3. /\ new \in Patched /\ new.stage = "result" /\ ~new.ok /\ new.full = r.full
          /\ new.patching = r.patching /\ new.version = r.version
      BY <3>1 DEF Patched, Patch!Stage
    <3>4. Right(new)
      BY <1>2, <2>2, <3>3 DEF Right, Done
    <3> QED
      BY <3>2, <3>3, <3>4
  <2>3. CASE Patch!Unpack(s) /\ ~Patch!Fail(s)
    <3>1. PICK f \in Patch!Unpacked(s) : Patch!install(s, f)
      BY <2>3 DEF Patch!Unpack
    <3>2. /\ r.stage = "unpack" /\ f \in Patch!Package
          /\ r.ok => f = r.version \/ r.swapped
      BY <1>1, <1>2, <2>3, <3>1
      DEF Patch!Unpack, Patch!Unpacked, PatchTypes, Right, Patched
    <3>3. PICK stage \in {"update", "result"} : stage = IF r.ok THEN "update" ELSE "result"
      OBVIOUS
    <3>4. PICK new : new = [r EXCEPT !.stage = stage, !.installed = f]
      OBVIOUS
    <3>5. server' = [server EXCEPT ![s] = new]
      BY <1>1, <1>2, <3>1, <3>3, <3>4 DEF PatchTypes, Patch!install
    <3>6. /\ new \in Patched /\ new.stage = stage /\ new.full = r.full /\ new.ok = r.ok
          /\ new.patching = r.patching /\ new.version = r.version /\ new.installed = f
          /\ new.swapped = r.swapped /\ new.succ = r.succ
      BY <3>2, <3>4 DEF Patched, Patch!Stage
    <3>7. Right(new)
      BY <1>2, <3>2, <3>3, <3>6 DEF Right, Done
    <3> QED
      BY <3>5, <3>6, <3>7
  <2>4. CASE Patch!updatePatchResult(s) /\ ~Patch!Fail(s)
    <3>1. r.stage = "update" /\ server' = [server EXCEPT ![s].stage = "result"]
      BY <1>2, <2>4 DEF Patch!updatePatchResult, Patch!To
    <3>2. PICK new : new = [r EXCEPT !.stage = "result"]
      OBVIOUS
    <3>3. server' = [server EXCEPT ![s] = new]
      BY <1>1, <1>2, <3>1, <3>2 DEF PatchTypes
    <3>4. /\ new \in Patched /\ new.stage = "result" /\ new.full = r.full
          /\ new.patching = r.patching /\ new.version = r.version
          /\ new.installed = r.installed /\ new.swapped = r.swapped
      BY <3>2 DEF Patched, Patch!Stage
    <3>5. Right(new)
      BY <1>2, <3>1, <3>4 DEF Right, Done
    <3> QED
      BY <3>3, <3>4, <3>5
  <2>5. CASE Patch!setPatchResult(s)
    <3>1. /\ r.stage = "result"
          /\ server' = [server EXCEPT ![s].stage = "patched", ![s].succ = r.ok]
      BY <1>2, <2>5 DEF Patch!setPatchResult
    <3>2. PICK new : new = [r EXCEPT !.stage = "patched", !.succ = r.ok]
      OBVIOUS
    <3>3. server' = [server EXCEPT ![s] = new]
      BY <1>1, <1>2, <3>1, <3>2 DEF PatchTypes
    <3>4. /\ new \in Patched /\ new.stage = "patched" /\ new.full = r.full
          /\ new.patching = r.patching /\ new.version = r.version /\ new.succ = r.ok
          /\ new.ok = r.ok /\ new.installed = r.installed /\ new.swapped = r.swapped
      BY <3>2 DEF Patched, Patch!Stage
    <3>5. Right(new)
      BY <1>2, <3>1, <3>4 DEF Right, Done
    <3> QED
      BY <3>3, <3>4, <3>5
  <2>6. CASE Patch!setPatched(s)
    <3>1. /\ r.stage = "patched"
          /\ server' = [server EXCEPT ![s].stage = "idle", ![s].full = TRUE,
                                      ![s].patching = FALSE]
      BY <1>2, <2>6 DEF Patch!setPatched
    <3>2. PICK new : new = [r EXCEPT !.stage = "idle", !.full = TRUE, !.patching = FALSE]
      OBVIOUS
    <3>3. server' = [server EXCEPT ![s] = new]
      BY <1>1, <1>2, <3>1, <3>2 DEF PatchTypes
    <3>4. /\ new \in Patched /\ new.stage = "idle" /\ new.version = r.version
          /\ new.succ = r.succ /\ new.installed = r.installed /\ new.swapped = r.swapped
      BY <3>2 DEF Patched, Patch!Stage
    <3>5. Right(new)
      BY <1>2, <3>1, <3>4 DEF Right, Done
    <3> QED
      BY <3>3, <3>4, <3>5
  <2> QED
    BY <1>2, <2>1, <2>2, <2>3, <2>4, <2>5, <2>6 DEF Patch!Unpack, Patch!updatePatchResult
<1> QED
  BY <1>2, <1>3, <1>4, <1>5, PatchAlone

\* A node that comes back knows of no patch.
LEMMA PatchRestart == PatchInv /\ Patch!Restart => PatchInv'
<1> SUFFICES ASSUME PatchInv, Patch!Restart PROVE PatchInv'
  OBVIOUS
<1>1. /\ PatchTypes /\ UNCHANGED <<served, local, task>> /\ faults' \in 0 .. MaxFaults
      /\ server' = [s \in A |-> Patch!Fresh(server[s].installed)]
  BY PatchFault DEF PatchInv, Patch!Restart, Patch!Patching
<1>2. \A s \in A : server[s].installed \in Patch!Package
  BY <1>1 DEF PatchTypes, Patched
<1>3. \A p \in Patch!Package :
        /\ Patch!Fresh(p) \in Patched /\ Right(Patch!Fresh(p))
        /\ Patch!Fresh(p).stage = "idle" /\ ~Patch!Fresh(p).full
  BY FreshRight
<1>4. /\ server' \in [A -> Patched]
      /\ \A s \in A : /\ Right(server'[s])
                      /\ server'[s].stage = "idle" /\ ~server'[s].full
  BY <1>1, <1>2, <1>3
<1>5. \A s \in A, r \in Patched : r = server'[s] => Right(r)'
  BY <1>1, <1>4 DEF Right
<1>6. \A t \in B, k \in Items : k = task'[t] => Told(k)'
  BY <1>1, <1>4 DEF PatchInv, Told
<1> QED
  BY <1>1, <1>4, <1>5, <1>6 DEF PatchInv, PatchTypes

LEMMA PatchesStep == PatchInv /\ Patch!Next => PatchInv'
BY PatchTasks, PatchBatch, PatchDownload, PatchThreads, PatchRestart DEF Patch!Next

LEMMA PatchesRest == PatchInv /\ UNCHANGED <<patchVars, faults>> => PatchInv'
BY DEF PatchInv, PatchTypes, Right, Told, patchVars

LEMMA PatchesTold == PatchInv => Patch!TypeOK /\ Patch!PatchedAsTold
<1> SUFFICES ASSUME PatchInv PROVE Patch!TypeOK /\ Patch!PatchedAsTold
  OBVIOUS
<1>1. PatchTypes
  BY DEF PatchInv
<1>2. ASSUME NEW t \in B, task[t].stage = "success"
      PROVE  task[t].right \/ task[t].overtaken \/ task[t].swapped
  <2>1. PICK k \in Items : k = task[t] /\ Told(k)
    BY <1>1 DEF PatchInv, PatchTypes
  <2> QED
    BY <1>2, <2>1 DEF Told
<1> QED
  BY <1>1, <1>2, PatchTyped DEF Patch!PatchedAsTold

-----------------------------------------------------------------------------
(***************************************************************************)
(* ServerOps                                                               *)
(***************************************************************************)
\* What is left of the plan of an operation.
AsPlanned(o) ==
  \/ o.what = "start" /\ o.todo \in {<<"active", "start">>, <<"start">>}
  \/ o.what = "stop" /\ o.todo \in {<<"inactive", "stop">>, <<"stop">>}
  \/ o.what = "destroy" /\ o.todo \in {<<"inactive", "destroy">>, <<"destroy">>}
  \/ o.what = "restart"
     /\ o.todo \in {<<"stop", "active", "start">>, <<"active", "start">>, <<"start">>}
  \/ o.what = "uninstall"
     /\ o.todo \in {<<"look", "inactive", "destroy", "delete">>,
                    <<"inactive", "destroy", "delete">>, <<"destroy", "delete">>, <<"delete">>}
  \/ o.what = "undeploy"
     /\ o.todo \in {<<"inactive", "stop", "delete">>, <<"stop", "delete">>, <<"delete">>}
  \/ o.what = "insert" /\ o.todo = <<"insert">>

Ends(o) == Tail(o.todo) = <<>>
Step(o) == Head(o.todo)
Follows(o, step) == Tail(o.todo) # <<>> /\ Head(Tail(o.todo)) = step

\* What the steps of an operation have behind them.
LEMMA Steps ==
  ASSUME NEW o, AsPlanned(o)
  PROVE  \/ Step(o) = "look" /\ Follows(o, "inactive") /\ o.what = "uninstall"
         \/ Step(o) = "active" /\ Follows(o, "start") /\ o.what \in {"start", "restart"}
         \/ Step(o) = "inactive" /\ Follows(o, "stop") /\ o.what \in {"stop", "undeploy"}
         \/ Step(o) = "inactive" /\ Follows(o, "destroy") /\ o.what \in {"destroy", "uninstall"}
         \/ Step(o) = "start" /\ Ends(o) /\ o.what \in {"start", "restart"}
         \/ Step(o) = "stop" /\ Follows(o, "active") /\ o.what = "restart"
         \/ Step(o) = "stop" /\ Follows(o, "delete") /\ o.what = "undeploy"
         \/ Step(o) = "stop" /\ Ends(o) /\ o.what = "stop"
         \/ Step(o) = "destroy" /\ Follows(o, "delete") /\ o.what = "uninstall"
         \/ Step(o) = "destroy" /\ Ends(o) /\ o.what = "destroy"
         \/ Step(o) = "delete" /\ Ends(o) /\ o.what \in {"uninstall", "undeploy"}
         \/ Step(o) = "insert" /\ Ends(o) /\ o.what = "insert"
<1>1. \A a, b, c, d :
        /\ Head(<<a>>) = a /\ Tail(<<a>>) = <<>>
        /\ Head(<<a, b>>) = a /\ Tail(<<a, b>>) = <<b>> /\ <<b>> # <<>>
        /\ Head(<<a, b, c>>) = a /\ Tail(<<a, b, c>>) = <<b, c>> /\ <<b, c>> # <<>>
        /\ Head(<<a, b, c, d>>) = a /\ Tail(<<a, b, c, d>>) = <<b, c, d>> /\ <<b, c, d>> # <<>>
  OBVIOUS
<1>2. ASSUME NEW a, o.todo = <<a>> PROVE Step(o) = a /\ Ends(o)
  BY <1>1, <1>2, Zenon DEF Step, Ends
<1>3. ASSUME NEW a, NEW b, o.todo = <<a, b>> PROVE Step(o) = a /\ Follows(o, b)
  <2>1. Head(<<a, b>>) = a /\ Tail(<<a, b>>) = <<b>> /\ Head(<<b>>) = b /\ <<b>> # <<>>
    OBVIOUS
  <2> QED
    BY <1>3, <2>1, Zenon DEF Step, Follows
<1>4. ASSUME NEW a, NEW b, NEW c, o.todo = <<a, b, c>> PROVE Step(o) = a /\ Follows(o, b)
  <2>1. Head(<<a, b, c>>) = a /\ Tail(<<a, b, c>>) = <<b, c>> /\ Head(<<b, c>>) = b /\ <<b, c>> # <<>>
    OBVIOUS
  <2> QED
    BY <1>4, <2>1, Zenon DEF Step, Follows
<1>5. ASSUME NEW a, NEW b, NEW c, NEW d, o.todo = <<a, b, c, d>>
      PROVE  Step(o) = a /\ Follows(o, b)
  <2>1. Head(<<a, b, c, d>>) = a /\ Tail(<<a, b, c, d>>) = <<b, c, d>> /\ Head(<<b, c, d>>) = b /\ <<b, c, d>> # <<>>
    OBVIOUS
  <2> QED
    BY <1>5, <2>1, Zenon DEF Step, Follows
<1>6. CASE o.what = "start" /\ o.todo \in {<<"active", "start">>, <<"start">>}
  BY <1>2, <1>3, <1>6, Zenon
<1>7. CASE o.what = "stop" /\ o.todo \in {<<"inactive", "stop">>, <<"stop">>}
  BY <1>2, <1>3, <1>7, Zenon
<1>8. CASE o.what = "destroy" /\ o.todo \in {<<"inactive", "destroy">>, <<"destroy">>}
  BY <1>2, <1>3, <1>8, Zenon
<1>9. CASE /\ o.what = "restart"
           /\ o.todo \in {<<"stop", "active", "start">>, <<"active", "start">>, <<"start">>}
  BY <1>2, <1>3, <1>4, <1>9, Zenon
<1>10. CASE /\ o.what = "uninstall"
           /\ o.todo \in {<<"look", "inactive", "destroy", "delete">>,
                          <<"inactive", "destroy", "delete">>, <<"destroy", "delete">>,
                          <<"delete">>}
  BY <1>2, <1>3, <1>4, <1>5, <1>10, Zenon
<1>11. CASE /\ o.what = "undeploy"
           /\ o.todo \in {<<"inactive", "stop", "delete">>, <<"stop", "delete">>, <<"delete">>}
  BY <1>2, <1>3, <1>4, <1>11, Zenon
<1>12. CASE o.what = "insert" /\ o.todo = <<"insert">>
  BY <1>2, <1>12, Zenon
<1> QED
  BY <1>6, <1>7, <1>8, <1>9, <1>10, <1>11, <1>12, Zenon DEF AsPlanned

LEMMA Shorter ==
  ASSUME NEW o, NEW p, AsPlanned(o), ~Ends(o), p.what = o.what, p.todo = Tail(o.todo)
  PROVE  AsPlanned(p)
<1>1. \A a : o.todo = <<a>> => Ends(o)
  BY DEF Ends
<1>2. ASSUME NEW a, NEW b, o.todo = <<a, b>> PROVE p.todo = <<b>>
  BY <1>2
<1>3. ASSUME NEW a, NEW b, NEW c, o.todo = <<a, b, c>> PROVE p.todo = <<b, c>>
  BY <1>3
<1>4. ASSUME NEW a, NEW b, NEW c, NEW d, o.todo = <<a, b, c, d>> PROVE p.todo = <<b, c, d>>
  BY <1>4
<1> USE <1>1, <1>2, <1>3, <1>4
<1>5. CASE o.what \in {"start", "stop", "destroy", "insert"}
  BY <1>5 DEF AsPlanned
<1>6. CASE o.what = "restart"
  BY <1>6 DEF AsPlanned
<1>7. CASE o.what = "uninstall"
  BY <1>7 DEF AsPlanned
<1>8. CASE o.what = "undeploy"
  BY <1>8 DEF AsPlanned
<1> QED
  BY <1>5, <1>6, <1>7, <1>8 DEF AsPlanned

LEMMA UndeployIs == Ops!Undeploy = <<"inactive", "stop", "delete">>
<1> DEFINE front == <<"inactive", "stop">>  word == {"inactive", "stop", "delete"}
<1>1. front \in Seq(word) /\ Len(front) = 2 /\ <<"delete">> \in Seq(word)
  OBVIOUS
<1>2. PICK whole : whole = front \o <<"delete">>
  OBVIOUS
<1>3. whole \in Seq(word) /\ Len(whole) = 3
  BY <1>1, <1>2, ConcatProperties
<1>4. whole[1] = "inactive" /\ whole[2] = "stop" /\ whole[3] = "delete"
  BY <1>2
<1>5. whole = <<"inactive", "stop", "delete">>
  BY <1>3, <1>4
<1> QED
  BY <1>2, <1>5 DEF Ops!Undeploy, Ops!StopServer

LEMMA Planned ==
  ASSUME NEW o, o.what \in Ops!Operation, o.todo = Ops!Plan(o.what)
  PROVE  AsPlanned(o)
<1> USE DEF AsPlanned, Ops!Plan
<1>1. CASE o.what = "start"
  BY <1>1 DEF Ops!StartServer
<1>2. CASE o.what = "stop"
  BY <1>2 DEF Ops!StopServer
<1>3. CASE o.what = "destroy"
  BY <1>3 DEF Ops!DestroyServer
<1>4. CASE o.what = "restart"
  BY <1>4 DEF Ops!RestartServer
<1>5. CASE o.what = "uninstall"
  BY <1>5 DEF Ops!UninstallServer
<1>6. CASE o.what = "undeploy"
  BY <1>6, UndeployIs
<1>7. CASE o.what = "insert"
  BY <1>7
<1> QED
  BY <1>1, <1>2, <1>3, <1>4, <1>5, <1>6, <1>7 DEF Ops!Operation, Ops!Command

\* No operation but a restart begins with the command.
LEMMA Begins ==
  ASSUME NEW o, o.what \in Ops!Operation, o.todo = Ops!Plan(o.what)
  PROVE  o.what = "restart" \/ Step(o) \notin {"stop", "destroy", "delete"}
<1> USE DEF Step, Ops!Plan
<1>1. CASE o.what \in {"start", "stop", "destroy", "insert"}
  BY <1>1 DEF Ops!StartServer, Ops!StopServer, Ops!DestroyServer
<1>2. CASE o.what = "uninstall"
  BY <1>2 DEF Ops!UninstallServer
<1>3. CASE o.what = "undeploy"
  BY <1>3, UndeployIs
<1> QED
  BY <1>1, <1>2, <1>3 DEF Ops!Operation, Ops!Command

LEMMA SamePlan ==
  ASSUME NEW o, NEW p, AsPlanned(o), p.what = o.what, p.todo = o.todo
  PROVE  AsPlanned(p) /\ Step(p) = Step(o)
BY DEF AsPlanned, Step

Todo == {<<>>, <<"active", "start">>, <<"start">>, <<"inactive", "stop">>, <<"stop">>,
         <<"inactive", "destroy">>, <<"destroy">>, <<"stop", "active", "start">>,
         <<"look", "inactive", "destroy", "delete">>, <<"inactive", "destroy", "delete">>,
         <<"destroy", "delete">>, <<"delete">>, <<"inactive", "stop", "delete">>,
         <<"stop", "delete">>, <<"insert">>}

LEMMA TodoOf == \A o : AsPlanned(o) => o.todo \in Todo
BY Zenon DEF AsPlanned, Todo

Results == {"any", "started", "stopped"}
OpRecord == [what : Ops!Operation \cup {"none"}, todo : Todo, clean : BOOLEAN, left : Results]

Places ==
  /\ row \in Ops!Setting \cup {"none"} /\ cache \in Ops!Setting \cup {"none"}
  /\ object \in {Ops!NoObject} \cup [desc : Ops!Setting, enabled : BOOLEAN]
  /\ process \in BOOLEAN /\ linked \in BOOLEAN /\ alone \in BOOLEAN
Tallies == late \subseteq Ops!Command /\ ops \in 0 .. MaxOps /\ faults \in 0 .. MaxFaults
Running == op \in [A -> OpRecord] /\ settled \in Results

\* The server is off for good, or on for good.
Off == ~process /\ row # "active" /\ ~(object.enabled /\ object.desc = "active")
On == row = "active" /\ cache = "active" /\ object.enabled /\ object.desc = "active"

\* What an operation counts on: behind its first step the row says that the server
\* is not to run, and before its last the server is off.
CountsOn(o) ==
  /\ o.what # "restart" /\ Step(o) \in {"stop", "destroy"} => row # "active"
  /\ Step(o) = "delete" => o.left # "started" /\ (o.left = "stopped" => Off)

\* An operation that nothing has disturbed is the only one; while one is under way
\* nothing is settled, and what is settled lasts.
Settled ==
  /\ settled # "any" => late = {}
  /\ settled = "stopped" => Off /\ cache # "active"
  /\ settled = "started" => On
Ordered ==
  /\ \A c \in A : Ops!Busy(c) => AsPlanned(op[c]) /\ settled = "any"
  /\ \A c \in A : Ops!Busy(c) /\ op[c].clean =>
       (\A d \in A : Ops!Busy(d) => c = d) /\ CountsOn(op[c])
  /\ Settled

OpsInv == Places /\ Tallies /\ Running /\ Ordered

LEMMA OpsOrdered == OpsInv => Ops!TypeOK /\ Ops!AsOrdered
<1> SUFFICES ASSUME OpsInv PROVE Ops!TypeOK /\ Ops!AsOrdered
  OBVIOUS
<1>1. \A c \in A : op[c] \in OpRecord
  BY DEF OpsInv, Running
<1>2. Ops!TypeOK
  BY <1>1 DEF OpsInv, Places, Tallies, Running, Results, OpRecord, Ops!TypeOK, Ops!None
<1>3. Ops!AsOrdered
  BY DEF OpsInv, Ordered, Settled, Off, On, Ops!AsOrdered
<1> QED
  BY <1>2, <1>3

LEMMA OpsInit == Ops!Init => OpsInv
<1> SUFFICES ASSUME Ops!Init PROVE OpsInv
  OBVIOUS
<1>1. Ops!NoOp \in OpRecord /\ Ops!NoOp.what = "none"
  BY DEF Ops!NoOp, Ops!None, OpRecord, Results, Todo
<1>2. Running
  BY <1>1 DEF Ops!Init, Running, Results
<1>3. Ordered
  BY <1>1 DEF Ops!Init, Ordered, Settled, Ops!Busy, Ops!None
<1>4. Places
  BY DEF Ops!Init, Places, Ops!Setting
<1>5. Tallies
  BY ServicesAssumption DEF Ops!Init, Tallies
<1> QED
  BY <1>2, <1>3, <1>4, <1>5 DEF OpsInv

LEMMA GoesOn ==
  ASSUME OpsInv, NEW c \in A, Ops!Busy(c), NEW ok \in BOOLEAN, NEW left \in Results,
         Ops!Proceed(c, ok, left), late' = late \/ ~ok,
         Ends(op[c]) /\ ok /\ op[c].clean =>
           (left = "stopped" => Off' /\ cache' # "active") /\ (left = "started" => On'),
         ~Ends(op[c]) /\ ok /\ op[c].clean =>
           /\ (op[c].what # "restart" /\ (Follows(op[c], "stop") \/ Follows(op[c], "destroy"))) =>
                row' # "active"
           /\ Follows(op[c], "delete") => left # "started" /\ (left = "stopped" => Off')
  PROVE  Running' /\ Ordered'
<1> USE DEF Ops!Busy, Ops!None
<1>1. op \in [A -> OpRecord] /\ op[c] \in OpRecord /\ AsPlanned(op[c]) /\ settled = "any"
  BY DEF OpsInv, Running, Ordered
<1>2. PICK o : o = [op[c] EXCEPT !.clean = @ /\ ok, !.left = left, !.todo = Tail(@)]
  OBVIOUS
<1>3. /\ o.what = op[c].what /\ o.todo = Tail(op[c].todo) /\ o.left = left
      /\ o.clean = (op[c].clean /\ ok)
  BY <1>1, <1>2 DEF OpRecord
<1>4. CASE Ends(op[c])
  <2>1. /\ op' = [op EXCEPT ![c] = Ops!NoOp]
        /\ settled' = IF o.clean /\ late = {} THEN left ELSE "any"
    BY <1>2, <1>3, <1>4 DEF Ops!Proceed, Ends
  <2>2. Ops!NoOp \in OpRecord /\ Ops!NoOp.what = "none"
    BY DEF Ops!NoOp, OpRecord, Results, Todo
  <2>3. Running'
    BY <1>1, <2>1, <2>2 DEF Running, Results
  <2>4. \A d \in A : op'[d].what # "none" => d # c /\ op'[d] = op[d]
    BY <1>1, <2>1, <2>2
  <2>5. ASSUME settled' # "any"
        PROVE  /\ op[c].clean /\ ok /\ left = settled' /\ late' = {}
               /\ \A d \in A : op'[d].what = "none"
    <3>1. o.clean /\ late = {} /\ left = settled'
      BY <2>1, <2>5
    <3>2. op[c].clean /\ ok
      BY <1>1, <1>3, <3>1 DEF OpRecord
    <3>3. \A d \in A : op[d].what # "none" => c = d
      BY <3>2 DEF OpsInv, Ordered
    <3> QED
      BY <2>4, <3>1, <3>2, <3>3
  <2>6. \A d \in A : op'[d].what # "none" => ~op'[d].clean
    BY <2>4 DEF OpsInv, Ordered
  <2>7. \A d \in A : op'[d].what # "none" => AsPlanned(op'[d]) /\ settled' = "any"
    BY <2>4, <2>5 DEF OpsInv, Ordered
  <2>8. Settled'
    BY <1>4, <2>5 DEF Settled
  <2> QED
    BY <2>3, <2>6, <2>7, <2>8 DEF Ordered
<1>5. CASE ~Ends(op[c])
  <2>1. op' = [op EXCEPT ![c] = o] /\ settled' = "any"
    BY <1>1, <1>2, <1>3, <1>5 DEF Ops!Proceed, Ends
  <2>2. AsPlanned(o)
    BY <1>1, <1>3, <1>5, Shorter
  <2>3. o \in OpRecord
    <3>1. o.todo \in Todo
      BY <2>2, TodoOf
    <3> QED
      BY <1>1, <1>2, <1>3, <3>1 DEF OpRecord
  <2>4. Running'
    BY <1>1, <2>1, <2>3 DEF Running, Results
  <2>5. op'[c] = o /\ \A d \in A : d # c => op'[d] = op[d]
    BY <1>1, <2>1
  <2>6. \A d \in A : op'[d].what # "none" => AsPlanned(op'[d]) /\ settled' = "any"
    BY <2>1, <2>2, <2>5 DEF OpsInv, Ordered
  <2>7. \A d \in A : d # c /\ op'[d].what # "none" => ~op'[d].clean
    BY <2>5 DEF OpsInv, Ordered
  <2>8. ASSUME o.clean
        PROVE  (\A d \in A : op'[d].what # "none" => c = d) /\ CountsOn(op[c])' 
    <3>1. op[c].clean /\ ok
      BY <1>1, <1>3, <2>8 DEF OpRecord
    <3>2. \A d \in A : op[d].what # "none" => c = d
      BY <3>1 DEF OpsInv, Ordered
    <3>3. \A step : Step(o) = step => Follows(op[c], step)
      BY <1>3, <1>5 DEF Step, Follows, Ends
    <3>4. /\ o.what # "restart" /\ Step(o) \in {"stop", "destroy"} => row' # "active"
          /\ Step(o) = "delete" => o.left # "started" /\ (o.left = "stopped" => Off')
      BY <1>3, <1>5, <3>1, <3>3
    <3> QED
      BY <2>5, <3>2, <3>4 DEF CountsOn
  <2> QED
    BY <2>1, <2>4, <2>5, <2>6, <2>7, <2>8 DEF Ordered, Settled
<1> QED
  BY <1>4, <1>5

LEMMA BreaksOff ==
  ASSUME OpsInv, NEW c \in A, Ops!Busy(c), Ops!Break(c)
  PROVE  Running' /\ Ordered'
<1> USE DEF Ops!Busy, Ops!None
<1>1. /\ op \in [A -> OpRecord] /\ settled = "any" /\ op' = [op EXCEPT ![c] = Ops!NoOp]
      /\ settled' = settled
  BY DEF OpsInv, Running, Ordered, Ops!Break
<1>2. Ops!NoOp \in OpRecord /\ Ops!NoOp.what = "none"
  BY DEF Ops!NoOp, OpRecord, Results, Todo
<1>3. Running'
  BY <1>1, <1>2 DEF Running, Results
<1>4. \A d \in A : op'[d].what # "none" => d # c /\ op'[d] = op[d]
  BY <1>1, <1>2
<1>5. \A d \in A : op'[d].what # "none" =>
        ~op'[d].clean /\ AsPlanned(op'[d]) /\ settled' = "any"
  BY <1>1, <1>4 DEF OpsInv, Ordered
<1> QED
  BY <1>1, <1>3, <1>5 DEF Ordered, Settled

LEMMA Disturbs ==
  ASSUME OpsInv, op' = [c \in A |-> [op[c] EXCEPT !.clean = FALSE]],
         settled' \in {settled, "any"}, Settled'
  PROVE  Running' /\ Ordered'
<1> USE DEF Ops!Busy, Ops!None
<1>1. \A c \in A : op[c] \in OpRecord
  BY DEF OpsInv, Running
<1>2. ASSUME NEW c \in A
      PROVE  /\ op'[c] \in OpRecord /\ ~op'[c].clean
             /\ op'[c].what = op[c].what /\ op'[c].todo = op[c].todo
  <2>1. PICK o : o = [op[c] EXCEPT !.clean = FALSE]
    OBVIOUS
  <2>2. o \in OpRecord /\ o.clean = FALSE /\ o.what = op[c].what /\ o.todo = op[c].todo
    BY <1>1, <2>1 DEF OpRecord
  <2> QED
    BY <2>1, <2>2
<1>3. Running'
  BY <1>2 DEF OpsInv, Running, Results
<1>4. \A c \in A : op'[c].what # "none" => AsPlanned(op'[c]) /\ settled' = "any"
  BY <1>2, SamePlan DEF OpsInv, Ordered
<1> QED
  BY <1>2, <1>3, <1>4 DEF Ordered

LEMMA OpsBegin ==
  ASSUME OpsInv, NEW c \in A, Ops!Begin(c)
  PROVE  OpsInv'
<1> USE DEF Ops!Busy, Ops!None
<1>1. \A d \in A : op[d] \in OpRecord
  BY DEF OpsInv, Running
<1>2. PICK what \in Ops!Operation :
        op' = [d \in A |->
                 IF d = c THEN [what |-> what, todo |-> Ops!Plan(what),
                                clean |-> ~\E e \in A : Ops!Busy(e), left |-> "any"]
                 ELSE [op[d] EXCEPT !.clean = FALSE]]
  BY DEF Ops!Begin
<1>3. PICK new : new = [what |-> what, todo |-> Ops!Plan(what),
                        clean |-> ~\E e \in A : Ops!Busy(e), left |-> "any"]
  OBVIOUS
<1>4. /\ new.what = what /\ new.todo = Ops!Plan(what) /\ new.left = "any"
      /\ new.clean \in BOOLEAN /\ (new.clean => \A e \in A : op[e].what = "none")
  BY <1>3
<1>5. AsPlanned(new)
  BY <1>4, Planned
<1>6. new \in OpRecord
  <2>1. new.todo \in Todo
    BY <1>5, TodoOf
  <2> QED
    BY <1>3, <1>4, <2>1 DEF OpRecord, Results
<1>7. op'[c] = new
  BY <1>2, <1>3
<1>8. ASSUME NEW d \in A, d # c
      PROVE  /\ op'[d] \in OpRecord /\ ~op'[d].clean
             /\ op'[d].what = op[d].what /\ op'[d].todo = op[d].todo
  <2>1. PICK o : o = [op[d] EXCEPT !.clean = FALSE]
    OBVIOUS
  <2>2. o \in OpRecord /\ o.clean = FALSE /\ o.what = op[d].what /\ o.todo = op[d].todo
    BY <1>1, <2>1 DEF OpRecord
  <2>3. op'[d] = o
    BY <1>2, <1>8, <2>1
  <2> QED
    BY <2>2, <2>3
<1>9. Running'
  BY <1>2, <1>6, <1>7, <1>8 DEF Ops!Begin, Running, Results
<1>10. \A d \in A : op'[d].what # "none" => AsPlanned(op'[d]) /\ settled' = "any"
  BY <1>5, <1>7, <1>8, SamePlan DEF OpsInv, Ordered, Ops!Begin
<1>11. ASSUME new.clean
       PROVE  (\A d \in A : op'[d].what # "none" => c = d) /\ CountsOn(op[c])'
  <2>1. Step(new) \notin {"stop", "destroy", "delete"} \/ new.what = "restart"
    BY <1>4, Begins
  <2>2. new.left = "any" /\ (\A d \in A : op'[d].what # "none" => c = d)
    BY <1>4, <1>8, <1>11
  <2> QED
    BY <1>4, <1>7, <2>1, <2>2 DEF CountsOn
<1>12. Ordered'
  BY <1>7, <1>8, <1>10, <1>11 DEF Ordered, Settled, Ops!Begin
<1>13. Places'
  BY DEF OpsInv, Places, Ops!Begin
<1>14. Tallies'
  BY ServicesAssumption DEF OpsInv, Tallies, Ops!Begin
<1> QED
  BY <1>9, <1>12, <1>13, <1>14 DEF OpsInv

LEMMA OpsFault == OpsInv /\ Ops!Fault => faults' \in 0 .. MaxFaults
BY ServicesAssumption DEF OpsInv, Tallies, Ops!Fault

LEMMA OpsUpdate ==
  ASSUME OpsInv, NEW c \in A, NEW s \in Ops!Setting, Ops!updateServerState(c, s)
  PROVE  OpsInv'
<1>1. /\ Ops!Busy(c) /\ Step(op[c]) = s /\ late' = late /\ UNCHANGED <<process, object, cache>>
      /\ UNCHANGED <<linked, alone, ops>>
  BY DEF Ops!updateServerState, Ops!At, Step, Ops!Node
<1>2. AsPlanned(op[c]) /\ op[c].left \in Results
  BY <1>1 DEF OpsInv, Ordered, Running, OpRecord
<1>3. /\ ~Ends(op[c]) /\ ~Follows(op[c], "delete")
      /\ Follows(op[c], "stop") \/ Follows(op[c], "destroy") => s = "inactive"
  BY <1>1, <1>2, Steps DEF Follows, Ends, Ops!Setting
<1>4. CASE /\ row' = (IF row = "none" THEN "none" ELSE s)
           /\ Ops!Proceed(c, row # "none", op[c].left) /\ UNCHANGED faults
  <2>1. Running' /\ Ordered'
    BY <1>1, <1>2, <1>3, <1>4, GoesOn
  <2> QED
    BY <1>1, <1>4, <2>1 DEF OpsInv, Places, Tallies
<1>5. CASE Ops!Fault /\ Ops!Proceed(c, FALSE, "any") /\ UNCHANGED row
  <2>1. Running' /\ Ordered'
    BY <1>1, <1>3, <1>5, GoesOn DEF Results
  <2> QED
    BY <1>1, <1>5, <2>1, OpsFault DEF OpsInv, Places, Tallies
<1> QED
  BY <1>4, <1>5 DEF Ops!updateServerState, Ops!None

LEMMA OpsInsert ==
  ASSUME OpsInv, NEW c \in A, Ops!insertServerConf(c)
  PROVE  OpsInv'
<1>1. Running' /\ Ordered'
  BY BreaksOff DEF Ops!insertServerConf, Ops!At
<1> QED
  BY <1>1 DEF Ops!insertServerConf, Ops!Node, OpsInv, Places, Tallies

LEMMA OpsDelete ==
  ASSUME OpsInv, NEW c \in A, Ops!deleteServer(c)
  PROVE  OpsInv'
<1>1. /\ Ops!Busy(c) /\ Step(op[c]) = "delete" /\ row' = "none"
      /\ UNCHANGED <<late, process, object, cache, linked, alone, ops, faults>>
  BY DEF Ops!deleteServer, Ops!At, Step, Ops!Node, Ops!None
<1>2. AsPlanned(op[c]) /\ op[c].left \in Results
  BY <1>1 DEF OpsInv, Ordered, Running, OpRecord
<1>3. Ends(op[c])
  BY <1>1, <1>2, Steps
<1>4. PICK left \in Results :
        Ops!Proceed(c, TRUE, left) /\ left = IF cache # "active" THEN op[c].left ELSE "any"
  BY <1>2 DEF Ops!deleteServer, Results
<1>5. op[c].clean => left # "started" /\ (left = "stopped" => Off' /\ cache' # "active")
  BY <1>1, <1>4 DEF OpsInv, Ordered, CountsOn, Off
<1>6. Running' /\ Ordered'
  BY <1>1, <1>3, <1>4, <1>5, GoesOn
<1> QED
  BY <1>1, <1>6 DEF OpsInv, Places, Tallies

LEMMA OpsLook ==
  ASSUME OpsInv, NEW c \in A, Ops!getServerState(c)
  PROVE  OpsInv'
<1>1. /\ Ops!Busy(c) /\ Step(op[c]) = "look"
      /\ UNCHANGED <<late, process, object, cache, linked, alone, ops, faults, row>>
  BY DEF Ops!getServerState, Ops!At, Step, Ops!Node, Ops!None
<1>2. AsPlanned(op[c])
  BY <1>1 DEF OpsInv, Ordered
<1>3. ~Ends(op[c]) /\ ~\E s \in {"stop", "destroy", "delete"} : Follows(op[c], s)
  BY <1>1, <1>2, Steps DEF Follows, Ends
<1>4. Ops!Proceed(c, TRUE, "any") \/ Ops!Break(c)
  BY DEF Ops!getServerState
<1>5. Running' /\ Ordered'
  BY <1>1, <1>3, <1>4, GoesOn, BreaksOff DEF Results
<1> QED
  BY <1>1, <1>5 DEF OpsInv, Places, Tallies

\* What the commands do on the node, and what they leave.
LEMMA CommandPlaces ==
  ASSUME Places, NEW command \in Ops!Command, NEW ok \in BOOLEAN, Ops!Run(command, ok),
         UNCHANGED <<row, linked, alone>>
  PROVE  Places'
<1> USE DEF Places, Ops!Load, Ops!FromRegistry, Ops!Filled, Ops!None, Ops!Setting
<1>1. CASE command = "start"
  <2>1. Ops!startServer(ok)
    BY <1>1 DEF Ops!Run
  <2>2. cache' \in Ops!Setting \cup {"none"} /\ process' \in BOOLEAN
    BY <2>1 DEF Ops!startServer
  <2>3. PICK d \in Ops!Setting \cup {"none"} :
          object' = IF d = "none"
                    THEN IF object = Ops!NoObject THEN Ops!NoObject
                         ELSE [object EXCEPT !.enabled = TRUE]
                    ELSE [desc |-> d, enabled |-> TRUE]
    BY <2>1 DEF Ops!startServer
  <2>4. object' \in {Ops!NoObject} \cup [desc : Ops!Setting, enabled : BOOLEAN]
    BY <2>3
  <2>5. row' = row /\ linked' = linked /\ alone' = alone
    OBVIOUS
  <2> QED
    BY <2>2, <2>4, <2>5
<1>2. CASE command = "stop"
  <2>1. Ops!stopServer(ok)
    BY <1>2 DEF Ops!Run
  <2>2. cache' \in Ops!Setting \cup {"none"} /\ process' \in BOOLEAN
    BY <2>1 DEF Ops!stopServer
  <2>3. PICK d \in Ops!Setting \cup {"none"} :
          object' = IF d # "none" THEN [desc |-> d, enabled |-> d = "active"]
                    ELSE [object EXCEPT !.enabled = FALSE]
    BY <2>1 DEF Ops!stopServer, Ops!ByDesc
  <2>4. object' \in {Ops!NoObject} \cup [desc : Ops!Setting, enabled : BOOLEAN]
    <3>1. CASE d # "none"
      BY <2>3, <3>1
    <3>2. CASE d = "none" /\ object = Ops!NoObject
      BY <2>3, <3>2 DEF Ops!NoObject
    <3>3. CASE d = "none" /\ object # Ops!NoObject
      BY <2>3, <3>3
    <3> QED
      BY <3>1, <3>2, <3>3
  <2>5. row' = row /\ linked' = linked /\ alone' = alone
    OBVIOUS
  <2> QED
    BY <2>2, <2>4, <2>5
<1>3. CASE command = "destroy"
  BY <1>3 DEF Ops!Run, Ops!destroyServer
<1> QED
  BY <1>1, <1>2, <1>3 DEF Ops!Command

LEMMA CommandLeaves ==
  ASSUME Places, NEW command \in Ops!Command, NEW ok \in BOOLEAN, Ops!Run(command, ok),
         UNCHANGED <<row, linked, alone>>
  PROVE  /\ Ops!Left(command, ok) \in Results
         /\ Ops!Left(command, ok) = "started" => command = "start" /\ On'
         /\ Ops!Left(command, ok) = "stopped" => command \in {"stop", "destroy"}
         /\ Ops!Left(command, ok) = "stopped" /\ row # "active" => Off' /\ cache' # "active"
<1> USE DEF Places, Ops!Load, Ops!FromRegistry, Ops!Filled, Ops!None, Ops!Setting, Results,
            Ops!Left, Off, On
<1>1. CASE command = "start"
  BY <1>1 DEF Ops!Run, Ops!startServer, Ops!NoObject
<1>2. CASE command = "stop"
  BY <1>2 DEF Ops!Run, Ops!stopServer, Ops!NoObject, Ops!ByDesc
<1>3. CASE command = "destroy"
  <2>1. Ops!destroyServer(ok)
    BY <1>3 DEF Ops!Run
  <2>2. Ops!Left(command, ok) = IF ok /\ cache # "active" THEN "stopped" ELSE "any"
    BY <1>3
  <2>3. ok => ~process' /\ object' = Ops!NoObject /\ cache' = cache
    BY <2>1 DEF Ops!destroyServer
  <2>4. ok /\ row # "active" => Off'
    BY <2>3 DEF Ops!NoObject
  <2> QED
    BY <1>3, <2>2, <2>3, <2>4
<1> QED
  BY <1>1, <1>2, <1>3 DEF Ops!Command

LEMMA OpsExecute ==
  ASSUME OpsInv, NEW c \in A, Ops!Execute(c)
  PROVE  OpsInv'
<1>1. PICK command \in Ops!Command, ok \in BOOLEAN :
        /\ Ops!Busy(c) /\ Step(op[c]) = command /\ Ops!Run(command, ok)
        /\ Ops!Break(c) \/ Ops!Proceed(c, ok, Ops!Left(command, ok))
  BY DEF Ops!Execute, Ops!At, Step
<1>2. UNCHANGED <<row, linked, alone, late, ops, faults>>
  BY DEF Ops!Execute
<1>3. Places'
  BY <1>1, <1>2, CommandPlaces DEF OpsInv
<1>4. AsPlanned(op[c])
  BY <1>1 DEF OpsInv, Ordered
<1>5. PICK left \in Results :
        /\ left = Ops!Left(command, ok)
        /\ left = "started" => command = "start" /\ On'
        /\ left = "stopped" => command \in {"stop", "destroy"}
        /\ left = "stopped" /\ row # "active" => Off' /\ cache' # "active"
  BY <1>1, <1>2, CommandLeaves DEF OpsInv
<1>6. /\ Ends(op[c]) => op[c].what # "restart" \/ command = "start"
      /\ ~Ends(op[c]) => ~\E s \in {"stop", "destroy"} : Follows(op[c], s)
      /\ Follows(op[c], "delete") => op[c].what # "restart" /\ command \in {"stop", "destroy"}
  BY <1>1, <1>4, Steps DEF Follows, Ends, Ops!Command
<1>7. op[c].clean /\ op[c].what # "restart" /\ command \in {"stop", "destroy"} => row # "active"
  BY <1>1 DEF OpsInv, Ordered, CountsOn
<1>8. Running' /\ Ordered'
  <2>1. CASE Ops!Break(c)
    BY <1>1, <2>1, BreaksOff
  <2>2. CASE Ops!Proceed(c, ok, left)
    <3>1. Ends(op[c]) /\ ok /\ op[c].clean =>
            (left = "stopped" => Off' /\ cache' # "active") /\ (left = "started" => On')
      BY <1>5, <1>6, <1>7
    <3>2. ~Ends(op[c]) /\ ok /\ op[c].clean =>
            /\ ~Follows(op[c], "stop") /\ ~Follows(op[c], "destroy")
            /\ Follows(op[c], "delete") => left # "started" /\ (left = "stopped" => Off')
      BY <1>5, <1>6, <1>7
    <3> QED
      BY <1>1, <1>2, <2>2, <3>1, <3>2, GoesOn
  <2> QED
    BY <1>1, <1>5, <2>1, <2>2
<1> QED
  BY <1>2, <1>3, <1>8 DEF OpsInv, Tallies

LEMMA OpsGiveUp ==
  ASSUME OpsInv, NEW c \in A, Ops!GiveUp(c)
  PROVE  OpsInv'
<1>1. /\ Ops!Busy(c) /\ Ops!Fault /\ late' \subseteq Ops!Command
      /\ Ops!Break(c) \/ Ops!Proceed(c, FALSE, "any")
      /\ UNCHANGED <<row, cache, object, process, linked, alone, ops>>
  BY DEF Ops!GiveUp, Ops!At, OpsInv, Tallies
<1>2. Running' /\ Ordered'
  BY <1>1, GoesOn, BreaksOff DEF Results
<1> QED
  BY <1>1, <1>2, OpsFault DEF OpsInv, Places, Tallies

LEMMA OpsLate == OpsInv /\ Ops!ExecuteLate => OpsInv'
<1> SUFFICES ASSUME OpsInv, Ops!ExecuteLate PROVE OpsInv'
  OBVIOUS
<1>1. PICK command \in Ops!Command, ok \in BOOLEAN :
        Ops!Run(command, ok) /\ late' = late \ {command}
  BY DEF Ops!ExecuteLate, OpsInv, Tallies
<1>2. Places'
  BY <1>1, CommandPlaces DEF OpsInv, Ops!ExecuteLate
<1>3. Running' /\ Ordered'
  BY Disturbs DEF Ops!ExecuteLate, Settled
<1> QED
  BY <1>1, <1>2, <1>3 DEF OpsInv, Tallies, Ops!ExecuteLate

LEMMA OpsLoadAll == OpsInv /\ Ops!loadAllServers => OpsInv'
<1> SUFFICES ASSUME OpsInv, Ops!loadAllServers PROVE OpsInv'
  OBVIOUS
<1>1. PICK d \in Ops!Setting \cup {"none"} :
        /\ d \in {row, cache} /\ cache' \in {row, cache} /\ cache' = d
        /\ object' = IF d = "none" THEN Ops!NoObject ELSE Ops!ByDesc(d)
  BY DEF OpsInv, Places, Ops!loadAllServers, Ops!None
<1>2. UNCHANGED <<process, linked, row, alone, late, settled, ops>> /\ Ops!Fault
  BY DEF Ops!loadAllServers, Ops!Still
<1>3. Places'
  BY <1>1, <1>2 DEF OpsInv, Places, Ops!NoObject, Ops!ByDesc, Ops!Setting
<1>4. Settled'
  BY <1>1, <1>2
  DEF OpsInv, Ordered, Settled, Off, On, Ops!NoObject, Ops!ByDesc, Ops!None, Ops!Setting
<1>5. Running' /\ Ordered'
  BY <1>2, <1>4, Disturbs DEF Ops!loadAllServers
<1> QED
  BY <1>2, <1>3, <1>5, OpsFault DEF OpsInv, Tallies

LEMMA OpsAround ==
  ASSUME OpsInv, Ops!checkServer \/ Ops!Crash \/ Ops!Link
  PROVE  OpsInv'
<1>1. UNCHANGED <<row, cache, object, alone, late, settled, ops, op>>
  BY DEF Ops!checkServer, Ops!Crash, Ops!Link, Ops!Still
<1>2. Places'
  BY DEF OpsInv, Places, Ops!checkServer, Ops!Crash, Ops!Link, Ops!Still
<1>3. Tallies'
  BY <1>1, OpsFault DEF OpsInv, Tallies, Ops!checkServer, Ops!Crash, Ops!Link
<1>4. (Off => Off') /\ (On => On')
  BY <1>1 DEF OpsInv, Places, Off, On, Ops!checkServer, Ops!Crash, Ops!Link
<1>5. Running' /\ Ordered'
  BY <1>1, <1>4 DEF OpsInv, Running, Ordered, Settled, CountsOn, Ops!Busy
<1> QED
  BY <1>2, <1>3, <1>5 DEF OpsInv

LEMMA OpsStep == OpsInv /\ Ops!Next => OpsInv'
BY OpsBegin, OpsInsert, OpsDelete, OpsLook, OpsUpdate, OpsExecute, OpsGiveUp, OpsLate,
   OpsLoadAll, OpsAround DEF Ops!Next

LEMMA OpsRest == OpsInv /\ UNCHANGED <<opsVars, faults>> => OpsInv'
BY DEF OpsInv, Places, Tallies, Running, Ordered, Settled, Off, On, CountsOn, Ops!Busy, opsVars

-----------------------------------------------------------------------------
(***************************************************************************)
(* The service that is chosen                                              *)
(***************************************************************************)
LEMMA Chosen ==
  ASSUME [ServicesNext]_servicesVars
  PROVE  /\ service' = service
         /\ \/ UNCHANGED servicesVars
            \/ /\ ~crossed \/ service \notin {"property", "containers"}
               /\ service = "ops" => Ops!Next
               /\ service = "patch" => Patch!Next
               /\ service = "nodes" => Nodes!Next
<1>1. CASE UNCHANGED servicesVars
  BY <1>1 DEF servicesVars
<1>2. CASE ServicesNext
  BY <1>2 DEF ServicesNext, Followed, Rest
<1> QED
  BY <1>1, <1>2

\* tarsAdminRegistry: for any nodes and connections, whatever order reports,
\* deletions and closes are handled in, a command goes over the connection that
\* its node last reported over, and the three maps agree (NodeManager::at never
\* misses what a list names).
THEOREM CommandsGoRight == ServicesSpec => []RightConnection
<1> DEFINE Inv == service = "nodes" => NodeInv
<1>1. ServicesInit => Inv
  BY NodesInit DEF ServicesInit
<1>2. Inv /\ [ServicesNext]_servicesVars => Inv'
  BY Chosen, NodesStep, NodesRest DEF servicesVars
<1>3. Inv => RightConnection
  BY NodesRight DEF RightConnection
<1> QED
  BY <1>1, <1>2, <1>3, PTL DEF ServicesSpec

\* tarsAdminRegistry and tarsnode: for any clients, an operation that was not
\* disturbed leaves what it was for, through crashes of the server and restarts of
\* tarsnode with and without a registry; and a patch that is reported as done is
\* installed, whatever the clock and the downloads did.
THEOREM OrdersLast == ServicesSpec => []OrdersKept
<1> DEFINE Inv == (service = "ops" => OpsInv) /\ (service = "patch" => PatchInv)
<1>1. ServicesInit => Inv
  BY OpsInit, PatchesInit DEF ServicesInit
<1>2. Inv /\ [ServicesNext]_servicesVars => Inv'
  BY Chosen, OpsStep, OpsRest, PatchesStep, PatchesRest DEF servicesVars
<1>3. Inv => OrdersKept
  BY OpsOrdered, PatchesTold DEF OrdersKept
<1> QED
  BY <1>1, <1>2, <1>3, PTL DEF ServicesSpec
=============================================================================
