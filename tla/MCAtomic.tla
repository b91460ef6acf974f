------------------------------ MODULE MCAtomic ------------------------------
(* Instances of Pipe, Cred and Heap for TLC.  Every call of these components is
   one step, and they share no state: a behaviour exercises one of them. *)
EXTENDS Pipe, Cred, Heap

CONSTANTS z, x, p1, p2

VARIABLE part

MCPipes == {0}

Anyone == [k \in {"owner", "group", "other"} |-> TRUE]
OwnerOnly == [k \in {"owner", "group", "other"} |-> k = "owner"]

(* An ordinary program, one only its owner runs, and two that run as their owner. *)
MCProgram ==
  {[uid |-> 0, gid |-> 0, setuid |-> FALSE, mode |-> Anyone],
   [uid |-> 1, gid |-> 1, setuid |-> FALSE, mode |-> OwnerOnly],
   [uid |-> 2, gid |-> 2, setuid |-> TRUE, mode |-> Anyone],
   [uid |-> 0, gid |-> 0, setuid |-> TRUE, mode |-> Anyone]}

(* Small blocks, one page, more than a page, and sizes that wrap around. *)
MCSizes == {1, 4, 7, 12, Wrap - 4, Wrap - 1}

AtomicInit == part \in {"pipe", "cred", "heap"} /\ PipeInit /\ CredInit /\ HeapInit

AtomicNext ==
  /\ \/ part = "pipe" /\ PipeNext /\ UNCHANGED <<credVars, heapVars>>
     \/ part = "cred" /\ CredNext /\ UNCHANGED <<pipeVars, heapVars>>
     \/ part = "heap" /\ HeapNext /\ UNCHANGED <<pipeVars, credVars>>
  /\ UNCHANGED part

AtomicSpec == AtomicInit /\ [][AtomicNext]_<<part, pipeVars, credVars, heapVars>>
=============================================================================
