----------------------------- MODULE MCRollout -----------------------------
(***************************************************************************)
(* Instances of Rollout for TLC.  One upgrade, version 1 on devices that   *)
(* run 0, for one, two or three controllers; the server visits them in     *)
(* alphabetical order.                                                     *)
(***************************************************************************)
EXTENDS Rollout

upgrade(method, packages) ==
    [id |-> 1, download |-> method, deploy |-> method, packages |-> packages]

MCNames == {"a", "b", "c", "viewer"}
MCPosition == [n \in MCNames |-> CASE n = "a" -> 1 [] n = "b" -> 2 [] n = "c" -> 3
                                   [] n = "viewer" -> 4]
MCTarget == [i \in Ids |-> i]

MCOne == {upgrade("MTHD_FORCED", {"a"})}
MCTwo == {upgrade("MTHD_FORCED", {"a", "b"})}
MCThree == {upgrade("MTHD_FORCED", {"a", "b", "c"})}

\* Each needs the one before it.
MCChain == [n \in MCNames |-> CASE n = "b" -> {"a"} [] n = "c" -> {"b"} [] OTHER -> {}]
=============================================================================
