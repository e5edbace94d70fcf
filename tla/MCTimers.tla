------------------------------ MODULE MCTimers ------------------------------
(***************************************************************************)
(* Instances of Timers for TLC: one timer that loops, like the one that    *)
(* polls the update server, and one that is called once.                   *)
(***************************************************************************)
EXTENDS Timers

MCList == <<"check", "once">>
MCLoop == [t \in {"check", "once"} |-> t = "check"]
=============================================================================
