--------------------------- MODULE MCServerLimits ---------------------------
(***************************************************************************)
(* Two configurations of the Activator, of which one punishes for longer   *)
(* than it counts, as the defaults do, and the other for less; the first   *)
(* counts two starts, the second none.                                     *)
(***************************************************************************)
EXTENDS ServerLimits

MCLimits == {[time |-> 2, count |-> 2, punish |-> 3], [time |-> 3, count |-> -1, punish |-> 2]}
=============================================================================
