---------------------------- MODULE ServerLimits ----------------------------
(***************************************************************************)
(* The limits of one server together: the Activator, which delays its      *)
(* starts, and the limit of its core dumps, which counts them.  Both are   *)
(* driven by checkServer and by the requested starts, both take their      *)
(* limits from setServerLimitInfo.                                         *)
(***************************************************************************)
EXTENDS Activator

CONSTANTS MaxStop, CoreInterval, CoreExpired

\* The defaults are 3 stops, an hour and ten minutes.
ASSUME ServerLimitsAssumption ==
  MaxStop \in Nat \ {0} /\ CoreInterval \in Nat /\ CoreExpired \in Nat

VARIABLES up, core, limiter, info, updated, conf, missed, stale

Core == INSTANCE CoreLimit WITH Interval <- CoreInterval, Expired <- CoreExpired

coreVars == <<up, core, limiter, info, updated, conf, missed, stale>>

LimitsInit == Init /\ Core!Init

\* The server is found Inactive ...
Check == ~up /\ CheckAutoStart /\ UNCHANGED coreVars

\* ... and is started.  It may have been started by a request in between, and is
\* recorded all the same.
Started == AutoStart /\ (Core!AutoStart \/ (up /\ UNCHANGED coreVars))

Requested == RequestedStart /\ (Core!RequestedStart \/ UNCHANGED coreVars)

Configured == SetLimitInfo /\ Core!setServerLimitInfo

Watched ==
  /\ \/ Core!Stop \/ Core!checkCoredumpLimit \/ Core!loadConfig \/ Core!resetCoreInfo
  /\ UNCHANGED vars

Passes ==
  /\ Tick \/ (age = Ancient /\ UNCHANGED vars)
  /\ Core!Tick \/ UNCHANGED coreVars
  /\ age < Ancient \/ Core!Tick
  /\ (limiter.age < CoreInterval \/ limiter.since < CoreExpired) => Core!Tick

LimitsNext == Check \/ Started \/ Requested \/ Configured \/ Watched \/ Passes

\* Time passes, and the KeepAliveThread checks the server for ever.
LimitsSpec ==
  /\ LimitsInit /\ [][LimitsNext]_<<vars, coreVars>>
  /\ WF_<<vars, coreVars>>(Passes)
  /\ WF_<<vars, coreVars>>(Core!checkCoredumpLimit /\ UNCHANGED vars)

\* What CoreLimit says of a process's core (see there), with its type invariant,
\* under the starts that the Activator lets through.
CoreOK == Core!TypeOK /\ Core!CoreAgrees

\* A core closed by the limiter is opened again while the process runs, unless
\* the command that says so fails.
CoreReopens == Core!CoreReopens
=============================================================================
