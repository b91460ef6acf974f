----------------------------- MODULE MCPipeline -----------------------------
(* Instances of Descriptors and Pipeline for TLC. *)
EXTENDS Pipeline

CONSTANTS shell, cat, grep, wc, a, b, c

MCTwoSlots == {0, 1}
MCOneSlot == {0}
MCTwo == <<cat, wc>>
MCThree == <<cat, grep, wc>>
MCMessage == <<<<a, b>>, <<c>>>>
MCShort == <<<<a, b>>>>

(* Slots of the global tables under kill, pipes of one's own, and a pipeline. *)
SlotCalls == [calls |-> {"open", "socket", "close", "spawn", "exit", "kill"}, procs |-> {shell, cat}]
PipeCalls == [calls |-> {"close", "pipe", "spawn", "exit"}, procs |-> {shell, cat}]
Piped == [calls |-> {"pipe", "close", "read", "write", "spawn_io", "exit"}, procs |-> Proc]

MCWorkloads == {SlotCalls, PipeCalls, Piped}
MCPiped == {Piped}
=============================================================================
