----------------------------- MODULE Activator -----------------------------
(***************************************************************************)
(* Activator (src/NodeServer/Activator.cpp): how often tarsnode starts a   *)
(* server.  Every start, asked for by the registry or decided by           *)
(* checkServer, adds an activating record; once too many starts have       *)
(* followed each other closely the Activator is limited, and the           *)
(* KeepAliveThread only starts the server again when the last record is    *)
(* older than the punishment interval.                                     *)
(*                                                                         *)
(* Of the records only the last one is ever read: its age is kept, up to   *)
(* the age beyond which nothing distinguishes it, and so is the count.     *)
(* One tick is the unit of the two intervals (a second in the code).       *)
(*                                                                         *)
(* X_Wrong is X with a plausible mistake, kept to see what it breaks.      *)
(***************************************************************************)
EXTENDS Integers

CONSTANTS
    Limits,       \* what may be configured: _timeInterval, _maxCount, _punishInterval
    Ancient,      \* the last age that is told apart
    MaxRequested  \* bound on the starts and the reconfigurations asked for

\* The configuration is read with strto<int>, and nothing relates the two intervals.
ASSUME ActivatorAssumption ==
    /\ Limits \subseteq [time : Int, count : Int, punish : Int]
    /\ Ancient \in Nat
    /\ \A l \in Limits : l.time <= Ancient /\ 3 * l.punish < 2 * Ancient
    /\ MaxRequested \in Nat

VARIABLES
    limits,     \* _timeInterval, _maxCount and _punishInterval
    recorded,   \* _activingRecord is not empty
    age,        \* time since the last activating record
    limited,    \* _limited
    curCount,   \* _curCount
    decided,    \* checkServer has found that the server may be started
    requested,  \* number of starts and reconfigurations asked for
    burst       \* history: automatic starts since two successive starts were
                \* Window apart, or since the records were cleared

vars == <<limits, recorded, age, limited, curCount, decided, requested, burst>>

TypeOK ==
    /\ limits \in Limits
    /\ recorded \in BOOLEAN
    /\ age \in 0..Ancient
    /\ limited \in BOOLEAN
    /\ curCount \in Nat
    /\ decided \in BOOLEAN
    /\ requested \in 0..MaxRequested
    /\ burst \in Nat

Init ==
    /\ limits \in Limits
    /\ recorded = FALSE /\ age = Ancient
    /\ limited = FALSE /\ curCount = 0
    /\ decided = FALSE /\ requested = 0 /\ burst = 0

isActivatingLimited_Wrong == limited /\ recorded

isActivatingLimited == limited /\ recorded /\ age < limits.punish

addActivatingRecord_Wrong ==
    LET soon    == recorded /\ age + 1 < limits.time
        counted == IF soon /\ curCount <= limits.count THEN curCount + 1 ELSE curCount
    IN  /\ curCount' = counted
        /\ limited' = (limited \/ counted > limits.count)
        /\ recorded' = TRUE
        /\ age' = 0

\* addActivatingRecord: a start soon after the last one is counted, and the count
\* only goes back to zero when a punishment has been served with half as much
\* again.  The first record is never counted.
addActivatingRecord ==
    LET soon    == recorded /\ age < limits.time
        served  == recorded /\ limited /\ 2 * age > 3 * limits.punish
        counted == IF served THEN 0
                   ELSE IF soon /\ curCount <= limits.count THEN curCount + 1 ELSE curCount
    IN  /\ curCount' = counted
        /\ limited' = ((recorded /\ counted > limits.count) \/ (limited /\ ~served))
        /\ recorded' = TRUE
        /\ age' = 0

\* Starts this close to each other are counted, and one of them does not end a
\* punishment.
Close == age < limits.time /\ age < limits.punish

\* A start goes on with the current burst, or begins a new one.
BurstSoFar == IF recorded /\ Close THEN burst ELSE 0

\* checkServer asks isAutoStart ...
CheckAutoStart ==
    /\ ~decided
    /\ ~isActivatingLimited
    /\ decided' = TRUE
    /\ UNCHANGED <<limits, recorded, age, limited, curCount, requested, burst>>

\* ... and its CommandStart activates the server: activate logs that the server
\* is limited by then, but goes on.
AutoStart ==
    /\ decided
    /\ decided' = FALSE
    /\ addActivatingRecord
    /\ burst' = BurstSoFar + 1
    /\ UNCHANGED <<limits, requested>>

\* A start asked for by the registry is recorded, but never refused.
RequestedStart ==
    /\ requested < MaxRequested
    /\ requested' = requested + 1
    /\ addActivatingRecord
    /\ burst' = BurstSoFar
    /\ UNCHANGED <<limits, decided>>

\* The limits are configured again: setLimitInfo calls clearRunntimeData.
SetLimitInfo ==
    /\ requested < MaxRequested
    /\ requested' = requested + 1
    /\ limits' \in Limits
    /\ recorded' = FALSE /\ age' = Ancient
    /\ limited' = FALSE /\ curCount' = 0
    /\ burst' = 0
    /\ UNCHANGED decided

Tick ==
    /\ age < Ancient
    /\ age' = age + 1
    /\ UNCHANGED <<limits, recorded, limited, curCount, decided, requested, burst>>

Next == CheckAutoStart \/ AutoStart \/ RequestedStart \/ SetLimitInfo \/ Tick

Spec == Init /\ [][Next]_vars

\* Time passes, and the KeepAliveThread checks the server for ever.
FairSpec == Spec /\ WF_vars(Tick) /\ WF_vars(CheckAutoStart)

-----------------------------------------------------------------------------
\* The first start is not counted, whatever the count is.
Counted == IF limits.count < 0 THEN 0 ELSE limits.count

\* A server that keeps dying is never started automatically more than
\* _maxCount + 2 times in a row with less than both intervals between the starts,
\* whatever the registry asks for meanwhile and however the two intervals are
\* configured: the bound that the counting of addActivatingRecord and the test of
\* isActivatingLimited give together.
BurstBound == burst <= Counted + 2

\* No punishment is for ever: a limited server may be started again later,
\* without anybody's help.
PunishmentEnds == isActivatingLimited ~> ~isActivatingLimited

\* The inductive invariant behind BurstBound.
BurstInv ==
    /\ TypeOK
    /\ ~recorded => burst = 0
    /\ ~limited => curCount <= Counted /\ burst <= curCount + 1
    /\ limited => burst <= Counted + 2
    /\ limited /\ decided => ~Close \/ burst <= Counted + 1
=============================================================================
