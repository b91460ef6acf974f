-------------------------------- MODULE Pipe --------------------------------
(***************************************************************************)
(* kernel/proc/pipe.c: the table of ring buffers.  Every function runs     *)
(* under pipe_lock from its first read to its last write, so each one is   *)
(* a single step here.                                                     *)
(***************************************************************************)
EXTENDS Integers, Sequences

CONSTANTS
  Pipes,   \* 0..MAX_PIPES - 1
  Cap,     \* PIPE_BUF
  Byte,
  Zero,    \* the byte memset leaves in the buffer
  MaxLen   \* the longest transfer one call is asked for

VARIABLES
  s_pipes, \* s_pipes[]
  ret      \* what the last call returned to its caller

ASSUME RingConstants ==
  /\ Pipes \subseteq Nat
  /\ Cap \in Nat \ {0}
  /\ MaxLen \in Nat
  /\ Zero \in Byte

pipeVars == <<s_pipes, ret>>

Data == UNION {[1..n -> Byte] : n \in 0..MaxLen}

Ring == [in_use : BOOLEAN, buf : [0..Cap - 1 -> Byte], head : 0..Cap - 1, count : 0..Cap,
         write_closed : BOOLEAN, read_closed : BOOLEAN]

(* A slot after memset. *)
Cleared(used) ==
  [in_use |-> used, buf |-> [k \in 0..Cap - 1 |-> Zero], head |-> 0, count |-> 0,
   write_closed |-> FALSE, read_closed |-> FALSE]

(* head stays inside the buffer and count never exceeds it. *)
PipeTypeOK == s_pipes \in [Pipes -> Ring]

PipeInit ==
  /\ s_pipes = [i \in Pipes |-> Cleared(FALSE)]
  /\ ret = <<>>

Least(x, y) == IF x <= y THEN x ELSE y

(* pipe_alloc: the lowest free slot, cleared. *)
PipeAlloc(i) ==
  /\ ~s_pipes[i].in_use
  /\ \A j \in Pipes : j < i => s_pipes[j].in_use
  /\ s_pipes' = [s_pipes EXCEPT ![i] = Cleared(TRUE)]
  /\ ret' = <<i>>

PipeAllocFull ==
  /\ \A i \in Pipes : s_pipes[i].in_use
  /\ ret' = <<-1>>
  /\ UNCHANGED s_pipes

(* in_use and the closed flags after one of the ends is closed: the second
   close is an inlined pipe_free. *)
Flagged(p, used, w, r) ==
  [in_use |-> used, buf |-> p.buf, head |-> p.head, count |-> p.count,
   write_closed |-> w, read_closed |-> r]

PipeFree(i) ==
  LET p == s_pipes[i] IN
  /\ s_pipes' = [s_pipes EXCEPT ![i] = Flagged(p, FALSE, p.write_closed, p.read_closed)]
  /\ ret' = <<>>

(* How many bytes pipe_write's loop stores. *)
Written(p, data) == Least(Len(data), Cap - p.count)

(* The position of the k-th byte, from 0, after the read position. *)
Slot_NoWrap(p, k) == IF p.head + k < Cap THEN p.head + k ELSE Cap - 1

Slot(p, k) == (p.head + k) % Cap

(* The buffer after pipe_write's loop: wp = (head + count) % PIPE_BUF each time. *)
Stored(p, data) ==
  [pos \in 0..Cap - 1 |->
     IF \E k \in 1..Written(p, data) : pos = Slot(p, p.count + k - 1)
     THEN data[CHOOSE k \in 1..Written(p, data) : pos = Slot(p, p.count + k - 1)]
     ELSE p.buf[pos]]

(* The pipe once data was written, and once n bytes were read. *)
Pushed(p, data) ==
  [in_use |-> p.in_use, buf |-> Stored(p, data), head |-> p.head,
   count |-> p.count + Written(p, data),
   write_closed |-> p.write_closed, read_closed |-> p.read_closed]

Popped(p, n) ==
  [in_use |-> p.in_use, buf |-> p.buf, head |-> Slot(p, n), count |-> p.count - n,
   write_closed |-> p.write_closed, read_closed |-> p.read_closed]

PipeWrite(i, data) ==
  LET p == s_pipes[i] IN
  IF p.in_use /\ ~p.read_closed
  THEN /\ s_pipes' = [s_pipes EXCEPT ![i] = Pushed(p, data)]
       /\ ret' = <<Written(p, data)>>
  ELSE /\ ret' = <<-1>>
       /\ UNCHANGED s_pipes

PipeRead(i, len) ==
  LET p == s_pipes[i]
      n == Least(len, p.count)
  IN
  IF ~p.in_use
  THEN ret' = <<-1>> /\ UNCHANGED s_pipes
  ELSE IF p.count = 0
  THEN ret' = <<IF p.write_closed THEN 0 ELSE -2>> /\ UNCHANGED s_pipes
  ELSE /\ ret' = <<n, [k \in 1..n |-> p.buf[Slot(p, k - 1)]]>>
       /\ s_pipes' = [s_pipes EXCEPT ![i] = Popped(p, n)]

PipeCloseWrite(i) ==
  LET p == s_pipes[i] IN
  /\ s_pipes' = IF p.in_use
                THEN [s_pipes EXCEPT ![i] = Flagged(p, ~p.read_closed, TRUE, p.read_closed)]
                ELSE s_pipes
  /\ ret' = <<>>

PipeCloseRead(i) ==
  LET p == s_pipes[i] IN
  /\ s_pipes' = IF p.in_use
                THEN [s_pipes EXCEPT ![i] = Flagged(p, ~p.write_closed, p.write_closed, TRUE)]
                ELSE s_pipes
  /\ ret' = <<>>

PipeNext ==
  \/ PipeAllocFull
  \/ \E i \in Pipes :
       \/ PipeAlloc(i) \/ PipeFree(i) \/ PipeCloseWrite(i) \/ PipeCloseRead(i)
       \/ \E data \in Data : PipeWrite(i, data)
       \/ \E len \in 0..MaxLen : PipeRead(i, len)

PipeSpec == PipeInit /\ [][PipeNext]_pipeVars

-----------------------------------------------------------------------------
(* Properties *)

(* The bytes of a ring in the order pipe_read will return them. *)
Contents(p) == [k \in 1..p.count |-> p.buf[Slot(p, k - 1)]]

fifo == [i \in Pipes |-> [in_use |-> s_pipes[i].in_use, q |-> Contents(s_pipes[i]),
                          write_closed |-> s_pipes[i].write_closed,
                          read_closed |-> s_pipes[i].read_closed]]

Abstract == INSTANCE PipeFifo

(* The ring buffer with its wrap-around implements the byte FIFO: nothing is
   lost, reordered or overwritten, and every result is the promised one. *)
ImplementsFifo == Abstract!FifoSpec
=============================================================================
