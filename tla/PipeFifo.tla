------------------------------ MODULE PipeFifo ------------------------------
(***************************************************************************)
(* What kernel/proc/pipe.c promises its callers: a pipe is a bounded FIFO  *)
(* of bytes with two ends that close independently.  A write takes the     *)
(* longest prefix that fits, a read takes the longest prefix there is, and *)
(* the results tell end of file, "try again" and a dead pipe apart.        *)
(***************************************************************************)
EXTENDS Integers, Sequences

CONSTANTS
  Pipes,   \* 0..MAX_PIPES - 1
  Cap,     \* PIPE_BUF
  Byte,
  MaxLen   \* the longest transfer one call is asked for

VARIABLES
  fifo,    \* per pipe: whether it is allocated, its bytes, its closed ends
  ret      \* what the last call returned to its caller

fifoVars == <<fifo, ret>>

Data == UNION {[1..n -> Byte] : n \in 0..MaxLen}

Least(x, y) == IF x <= y THEN x ELSE y

(* A pipe with the same ends and other contents. *)
Holding(p, used, q) ==
  [in_use |-> used, q |-> q, write_closed |-> p.write_closed, read_closed |-> p.read_closed]

FifoInit ==
  /\ fifo = [i \in Pipes |-> [in_use |-> FALSE, q |-> <<>>,
                              write_closed |-> FALSE, read_closed |-> FALSE]]
  /\ ret = <<>>

FAlloc(i) ==
  /\ ~fifo[i].in_use
  /\ fifo' = [fifo EXCEPT ![i] = [in_use |-> TRUE, q |-> <<>>,
                                  write_closed |-> FALSE, read_closed |-> FALSE]]
  /\ ret' = <<i>>

FNone ==
  /\ \A i \in Pipes : fifo[i].in_use
  /\ ret' = <<-1>>
  /\ UNCHANGED fifo

FFree(i) ==
  /\ fifo' = [fifo EXCEPT ![i] = Holding(fifo[i], FALSE, fifo[i].q)]
  /\ ret' = <<>>

FWrite(i, data) ==
  LET w == Least(Len(data), Cap - Len(fifo[i].q)) IN
  IF fifo[i].in_use /\ ~fifo[i].read_closed
  THEN /\ fifo' = [fifo EXCEPT ![i] = Holding(@, TRUE, @.q \o SubSeq(data, 1, w))]
       /\ ret' = <<w>>
  ELSE /\ ret' = <<-1>>
       /\ UNCHANGED fifo

FRead(i, len) ==
  LET n == Least(len, Len(fifo[i].q)) IN
  IF ~fifo[i].in_use
  THEN ret' = <<-1>> /\ UNCHANGED fifo
  ELSE IF fifo[i].q = <<>>
  THEN ret' = <<IF fifo[i].write_closed THEN 0 ELSE -2>> /\ UNCHANGED fifo
  ELSE /\ ret' = <<n, SubSeq(fifo[i].q, 1, n)>>
       /\ fifo' = [fifo EXCEPT ![i] = Holding(@, TRUE, SubSeq(@.q, n + 1, Len(@.q)))]

(* A pipe with its closed ends set: closing the second end releases it. *)
Ends(p, w, r) ==
  [in_use |-> ~(w /\ r), q |-> p.q, write_closed |-> w, read_closed |-> r]

FCloseWrite(i) ==
  /\ fifo' = IF fifo[i].in_use
             THEN [fifo EXCEPT ![i] = Ends(fifo[i], TRUE, fifo[i].read_closed)] ELSE fifo
  /\ ret' = <<>>

FCloseRead(i) ==
  /\ fifo' = IF fifo[i].in_use
             THEN [fifo EXCEPT ![i] = Ends(fifo[i], fifo[i].write_closed, TRUE)] ELSE fifo
  /\ ret' = <<>>

FifoNext ==
  \/ FNone
  \/ \E i \in Pipes :
       \/ FAlloc(i) \/ FFree(i) \/ FCloseWrite(i) \/ FCloseRead(i)
       \/ \E data \in Data : FWrite(i, data)
       \/ \E len \in 0..MaxLen : FRead(i, len)

FifoSpec == FifoInit /\ [][FifoNext]_fifoVars
=============================================================================
