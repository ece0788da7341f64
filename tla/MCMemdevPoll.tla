---------------------------- MODULE MCMemdevPoll -----------------------------
(***************************************************************************)
(* Two processes and the code's two devices: p1 keeps to one of them, p2   *)
(* goes from one to the other.                                             *)
(***************************************************************************)
EXTENDS MemdevPoll, TLC

CONSTANTS p1, p2, d1, d2

MCOpens == p1 :> {d1} @@ p2 :> {d1, d2}

MCMaxFaults == d1 :> 1 @@ d2 :> 0
=============================================================================
