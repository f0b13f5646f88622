----------------------------- MODULE MCPeriodic -----------------------------
(* Periodic with three periodics, one of them registered by a hook.         *)
EXTENDS Periodic, TLC

CONSTANTS p1, p2, p3

MCPeriod == p1 :> 1 @@ p2 :> 2 @@ p3 :> 3
=============================================================================
