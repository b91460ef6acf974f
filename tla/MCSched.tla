------------------------------ MODULE MCSched ------------------------------
(* Instances of Sched for TLC. *)
EXTENDS Sched, TLC

CONSTANTS c1, c2, boot, a, b, i1, i2

MCIdle == c1 :> i1 @@ c2 :> i2
MCIdle1 == c1 :> i1
MCPreloadedA == <<a>>
MCPreloadedAB == <<a, b>>
=============================================================================
