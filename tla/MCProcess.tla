----------------------------- MODULE MCProcess -----------------------------
(* Instances of Process for TLC: each behaviour runs one of these workloads. *)
EXTENDS Process, TLC

CONSTANTS c1, c2, boot, a, b, d, i1, i2

MCIdle == c1 :> i1 @@ c2 :> i2
MCPreloadedA == <<a>>

(* A parent and a child on two CPUs. *)
Pair == [calls |-> {"spawn", "exit", "waitchild"}, procs |-> {b}, cpus |-> {c1, c2}]

(* One CPU: a parent and two children, with faults; a sleeping pair; and a pair
   that kills, waits for and interrupts each other in any combination. *)
Family == [calls |-> {"spawn", "exit", "waitchild", "fault"}, procs |-> {b, d}, cpus |-> {c1}]
Sleepers == [calls |-> {"spawn", "exit", "waitchild", "sleep"}, procs |-> {b}, cpus |-> {c1}]
Signals == [calls |-> {"spawn", "exit", "kill", "waitany", "ctrlc", "fault"},
            procs |-> {b}, cpus |-> {c1}]

MCWorkloads == {Pair, Family, Sleepers, Signals}
=============================================================================
