------------------------------ MODULE MCMutex ------------------------------
(* Instances of Mutex for TLC. *)
EXTENDS Mutex, TLC

CONSTANTS c1, c2, boot, a, b, d, i1, i2

MCIdle == c1 :> i1 @@ c2 :> i2
MCIdle1 == c1 :> i1
MCPreloadedAB == <<a, b>>
MCPreloadedABD == <<a, b, d>>
=============================================================================
