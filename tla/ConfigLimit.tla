------------------------------ MODULE ConfigLimit ---------------------------
(***************************************************************************)
(* CHECKLIMIT of tarsconfig: how often a server on a node may load a file. *)
(* IsLimited keeps the time of a first call and a count, under a lock, and *)
(* drops the entry with the first call after the interval.                 *)
(***************************************************************************)
EXTENDS Naturals, Functions

CONSTANTS
  Limit,     \* _limitInterval
  Interval,  \* INTERVAL * _interval
  MaxTime    \* bound

VARIABLES
  now,
  entry,     \* the entry of the file in _loadConfigLimited
  answered,  \* for each moment: how many calls were let through
  refused    \* the last moment a call was refused, or none

vars == <<now, entry, answered, refused>>

Time == 0 .. MaxTime
Most == 2 * (Limit + 1)

TypeOK ==
  /\ now \in Time /\ refused \in Time \cup {MaxTime + 1}
  /\ entry \in [known : BOOLEAN, first : Time, count : 0 .. Limit + 1]
  /\ answered \in [Time -> 0 .. Most]

NoEntry == [known |-> FALSE, first |-> 0, count |-> 0]

Init ==
  /\ now = 0 /\ entry = NoEntry /\ refused = MaxTime + 1
  /\ answered = [t \in Time |-> 0]

Tick == now < MaxTime /\ now' = now + 1 /\ UNCHANGED <<entry, answered, refused>>

Expired == now - entry.first > Interval
Through == answered' = [answered EXCEPT ![now] = @ + 1] /\ UNCHANGED refused

IsLimited_Wrong ==
  \/ ~entry.known /\ entry' = [known |-> TRUE, first |-> now, count |-> 1] /\ Through
  \/ entry.known /\ ~Expired /\ entry.count <= Limit
       /\ entry' = [entry EXCEPT !.count = @ + 1] /\ Through
  \/ entry.known /\ ~Expired /\ entry.count > Limit
       /\ refused' = now /\ UNCHANGED <<entry, answered>>
  \/ entry.known /\ Expired /\ entry' = [entry EXCEPT !.count = 1] /\ Through

\* The call that finds its entry expired is let through and not counted.
IsLimited ==
  \/ ~entry.known /\ entry' = [known |-> TRUE, first |-> now, count |-> 1] /\ Through
  \/ entry.known /\ ~Expired /\ entry.count <= Limit
       /\ entry' = [entry EXCEPT !.count = @ + 1] /\ Through
  \/ entry.known /\ ~Expired /\ entry.count > Limit
       /\ refused' = now /\ UNCHANGED <<entry, answered>>
  \/ entry.known /\ Expired /\ entry' = NoEntry /\ Through

Call == IsLimited /\ UNCHANGED now

Next == Tick \/ Call

Spec == Init /\ [][Next]_vars

-----------------------------------------------------------------------------
Within(a, b) == SumFunctionOnSet(answered, {t \in Time : a <= t /\ t <= b})

\* Within an interval no more calls are let through than two entries allow: the one
\* between them is not counted, but then the first of the former is behind; and a
\* call is refused only if an entry's worth has been let through within the interval
\* behind it.
LimitKept ==
  /\ \A t \in Time : Within(t, t + Interval) <= Most
  /\ refused \in Time => Within(IF refused < Interval THEN 0 ELSE refused - Interval, refused) > Limit
=============================================================================
