---------------------------- MODULE MCStoreLock ----------------------------
(* Two processes; two callers in each. *)
EXTENDS StoreLock, TLC

CONSTANTS p1, p2, a1, a2, b1, b2

MCHome == a1 :> p1 @@ a2 :> p1 @@ b1 :> p2 @@ b2 :> p2
=============================================================================
