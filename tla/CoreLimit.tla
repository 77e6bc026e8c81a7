----------------------------- MODULE CoreLimit ------------------------------
(***************************************************************************)
(* How often a server may dump core: ServerLimitResource counts its        *)
(* automatic starts, and closes the server's core once there were too many *)
(* within an interval; ServerObject::checkCoredumpLimit tells the running  *)
(* server so, and tells it to open it again when the limit has expired.    *)
(* A server listed under closecore has its core closed for good.           *)
(*                                                                         *)
(* What is told is gone when the process is: _limitStateUpdated says that  *)
(* the process has still to be told.  Ages are kept up to the interval     *)
(* they are compared with.                                                 *)
(***************************************************************************)
EXTENDS Naturals

CONSTANTS
  MaxStop,   \* _maxExcStopCount
  Interval,  \* _coreLimitTimeInterval
  Expired    \* _coreLimitExpiredTime

VARIABLES
  up,        \* the process runs, and the state is Active
  core,      \* whether the process dumps core
  limiter,   \* _closeCore, _curExcStopCount, the ages of _excStopRecordTime and
             \* _enableCoreLimitTime
  info,      \* _limitStateInfo: enabled, EM_MANUAL_LIMIT
  updated,   \* _limitStateUpdated
  conf,      \* corelimitenable, and what the two buffers of _mServerCoreConfig say
  missed,    \* ledger: the running process was not told that its core is open
  stale      \* ledger: the server has been taken off closecore

vars == <<up, core, limiter, info, updated, conf, missed, stale>>

TypeOK ==
  /\ up \in BOOLEAN /\ core \in BOOLEAN /\ updated \in BOOLEAN
  /\ missed \in BOOLEAN /\ stale \in BOOLEAN
  /\ limiter \in [closed : BOOLEAN, count : 0 .. MaxStop, age : 0 .. Interval, since : 0 .. Expired]
  /\ info \in [enabled : BOOLEAN, manual : BOOLEAN]
  /\ conf \in [enabled : BOOLEAN, listed : BOOLEAN, reader : BOOLEAN, other : BOOLEAN]

\* resetRunTimeData.
Fresh == [closed |-> FALSE, count |-> 0, age |-> 0, since |-> 0]

Init ==
  /\ up = FALSE /\ core = TRUE /\ limiter = Fresh /\ updated = TRUE
  /\ info = [enabled |-> TRUE, manual |-> FALSE]
  /\ conf = [enabled |-> TRUE, listed |-> FALSE, reader |-> FALSE, other |-> FALSE]
  /\ missed = FALSE /\ stale = FALSE

Wanted == info.enabled /\ (info.manual \/ limiter.closed)

-----------------------------------------------------------------------------
addExcStopRecord ==
  LET more == IF limiter.count < MaxStop THEN limiter.count + 1 ELSE limiter.count
      close == ~limiter.closed /\ more >= MaxStop
  IN  limiter' =
        IF limiter.age < Interval
        THEN [closed |-> limiter.closed \/ close, count |-> more, age |-> limiter.age,
              since |-> IF close THEN 0 ELSE limiter.since]
        ELSE [limiter EXCEPT !.count = 1, !.age = 0]

startFinish_Wrong == up' = TRUE /\ core' = TRUE /\ missed' = FALSE /\ UNCHANGED updated

\* A new process dumps core until it is told not to.
startFinish == up' = TRUE /\ core' = TRUE /\ missed' = FALSE /\ updated' = TRUE

\* checkServer: the start is recorded whether it succeeds or not.
AutoStart ==
  /\ ~up
  /\ startFinish \/ UNCHANGED <<up, core, missed, updated>>
  /\ IF info.enabled THEN addExcStopRecord ELSE UNCHANGED limiter
  /\ UNCHANGED <<info, conf, stale>>

RequestedStart == ~up /\ startFinish /\ UNCHANGED <<limiter, info, conf, stale>>

Stop == up /\ up' = FALSE /\ UNCHANGED <<core, limiter, info, updated, conf, missed, stale>>

\* The command to the process may fail, with or without having had its effect.
setServerCoreLimit(close, ok) ==
  \/ core' = ~close
  \/ ~ok /\ UNCHANGED core

IsCoreLimitNeedClose_Wrong == limiter.closed

IsCoreLimitNeedClose == limiter.closed /\ limiter.since < Expired

\* A limit that has expired is over, and told to be so, once.
checkCoredumpLimit ==
  /\ up /\ info.enabled
  /\ CASE info.manual /\ updated ->
            /\ \E ok \in BOOLEAN : setServerCoreLimit(TRUE, ok) /\ updated' = ~ok
            /\ UNCHANGED <<limiter, missed>>
       [] ~info.manual /\ IsCoreLimitNeedClose /\ updated ->
            /\ \E ok \in BOOLEAN : setServerCoreLimit(TRUE, ok) /\ updated' = ~ok
            /\ UNCHANGED <<limiter, missed>>
       [] ~info.manual /\ limiter.closed /\ ~IsCoreLimitNeedClose ->
            /\ limiter' = [Fresh EXCEPT !.age = Interval]
            /\ \E ok \in BOOLEAN : setServerCoreLimit(FALSE, ok) /\ missed' = ~core'
            /\ UNCHANGED updated
       [] OTHER -> FALSE
  /\ UNCHANGED <<up, info, conf, stale>>

\* ServerFactory::loadConfig only ever adds to the buffer it writes, which is
\* the one from before the last load.
loadConfig ==
  \E enabled, listed \in BOOLEAN :
    /\ conf' = [enabled |-> enabled, listed |-> listed,
                reader |-> conf.other \/ listed, other |-> conf.reader]
    /\ stale' = (stale \/ (conf.listed /\ ~listed))
    /\ UNCHANGED <<up, core, limiter, info, updated, missed>>

\* The limits are given to the servers, or to the one that is loaded.  Nothing
\* opens a core that is closed for another reason than the limiter's.
setServerLimitInfo ==
  LET new == [enabled |-> conf.enabled, manual |-> conf.reader]
  IN  /\ info' = new /\ updated' = TRUE
      /\ missed' = (missed \/ (~core /\ ~(new.enabled /\ (new.manual \/ limiter.closed))))
      /\ UNCHANGED <<up, core, limiter, conf, stale>>

\* A patch forgets the count, and what has been closed.
resetCoreInfo ==
  /\ limiter' = Fresh
  /\ missed' = (missed \/ (~core /\ ~(info.enabled /\ info.manual)))
  /\ UNCHANGED <<up, core, info, updated, conf, stale>>

Tick ==
  /\ limiter.age < Interval \/ limiter.since < Expired
  /\ limiter' = [limiter EXCEPT !.age = IF @ < Interval THEN @ + 1 ELSE @,
                                !.since = IF @ < Expired THEN @ + 1 ELSE @]
  /\ UNCHANGED <<up, core, info, updated, conf, missed, stale>>

Next ==
  \/ AutoStart \/ RequestedStart \/ Stop \/ checkCoredumpLimit
  \/ loadConfig \/ setServerLimitInfo \/ resetCoreInfo \/ Tick

Spec == Init /\ [][Next]_vars

-----------------------------------------------------------------------------
\* A running process that has not been told to open its core in vain has it
\* closed only if the limiter or the configuration wants it so, and has it closed
\* when they do and nothing is left to be told: across restarts, whose processes
\* know nothing, and changes of the configuration.  And a manual limit is in the
\* configuration, unless the server once was, and has been taken off.
CoreAgrees ==
  /\ up /\ ~missed => /\ ~core => Wanted
                      /\ Wanted /\ ~updated => ~core
  /\ conf.reader => conf.listed \/ stale

\* A core closed by the limiter is opened again while the process runs.
CoreReopens ==
  (up /\ ~core /\ limiter.closed) ~> (~up \/ core \/ missed \/ info.manual \/ ~info.enabled)
=============================================================================
