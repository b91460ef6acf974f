-------------------------------- MODULE Nvme --------------------------------
(* The NVMe driver (drivers/nvme.c): the bring-up of the controller, the admin queue
   pair and the I/O queue pair, each with its phase tag.  The controller is external:
   it takes commands from a submission queue in order and posts completions. *)
EXTENDS Disk

CONSTANTS AqSize, IoqSize   \* NVME_AQ_SIZE, NVME_IOQ_SIZE

ASSUME NvmeConstants == AqSize \in Nat \ {0} /\ IoqSize \in Nat \ {0}

VARIABLES
  npos,      \* how far nvme_init is; "ready" is s_ready
  q          \* the queue pairs

nvmeVars == <<npos, q>>

Queue == {"admin", "io"}
Size(i) == IF i = "admin" THEN AqSize ELSE IoqSize
Step(i, n) == (n + 1) % Size(i)
Flipped(n, phase) == IF n = 0 THEN 1 - phase ELSE phase

(* A pair of zeroed queues: the driver's s_*q_tail, s_*q_head, s_*q_phase, and the
   controller's head, tail and phase. *)
NewQueue(i) ==
  [sq |-> [n \in 0..Size(i) - 1 |-> NoCall], tail |-> 0,
   cq |-> [n \in 0..Size(i) - 1 |-> [phase |-> 0, good |-> FALSE]], head |-> 0, phase |-> 1,
   ctlHead |-> 0, ctlTail |-> 0, ctlPhase |-> 1]

NvmeInit ==
  /\ npos = "off"
  /\ q = [i \in Queue |-> NewQueue(i)]

-----------------------------------------------------------------------------

Pending(i) == q[i].ctlHead # q[i].tail

(* The controller carries out the next command and posts its completion.  An entry it
   has taken is not read again and is forgotten. *)
Complete(i) ==
  LET r == q[i]
      c == r.sq[r.ctlHead]
  IN  /\ Pending(i)
      /\ Step(i, r.ctlTail) # r.head
      /\ \E good \in BOOLEAN :
           /\ IF i = "io" THEN Executed(c, good) ELSE UNCHANGED diskVars
           /\ q' = [q EXCEPT ![i] =
                     [r EXCEPT !.cq[r.ctlTail] = [phase |-> r.ctlPhase, good |-> good],
                               !.sq[r.ctlHead] = NoCall,
                               !.ctlHead = Step(i, @),
                               !.ctlTail = Step(i, @),
                               !.ctlPhase = Flipped(Step(i, r.ctlTail), @)]]
      /\ UNCHANGED npos

(* asq_submit, and the first half of io_cmd. *)
Submitted(i, c) == [q EXCEPT ![i].sq[q[i].tail] = c, ![i].tail = Step(i, @)]

Posted(i) == q[i].cq[q[i].head].phase = q[i].phase

PhaseAfter_Same(i, n) == q[i].phase
PhaseAfter(i, n) == Flipped(n, q[i].phase)

(* The second half of acq_wait and of io_cmd: one completion is taken.  Its command
   identifier is not looked at. *)
Taken(i) ==
  LET n == Step(i, q[i].head)
  IN  [q EXCEPT ![i].head = n, ![i].phase = PhaseAfter(i, n)]

-----------------------------------------------------------------------------
(* nvme_init.  Every failure on the way leaves the driver off for good. *)

At2(from, to) == npos = from /\ npos' = to

(* The reset, the admin queues and the enable bit; a reset that times out or a page
   that is missing ends it. *)
NvmeEnable ==
  /\ \/ At2("off", "enabling") /\ q' = [q EXCEPT !["admin"] = NewQueue("admin")]
     \/ At2("off", "failed") /\ UNCHANGED q
  /\ UNCHANGED diskVars

(* wait_csts(RDY), then cmd_identify_ns is submitted. *)
NvmeIdentify ==
  /\ \/ At2("enabling", "identify") /\ q' = Submitted("admin", NoCall)
     \/ At2("enabling", "failed") /\ UNCHANGED q
  /\ UNCHANGED diskVars

NextStage == [identify |-> "create_iocq", create_iocq |-> "create_iosq", create_iosq |-> "ready"]

(* acq_wait and what nvme_init goes on to: the I/O queues after the identify command,
   if a sector has 512 bytes and there are pages, and the next admin command. *)
NvmeAdmin ==
  /\ npos \in DOMAIN NextStage
  /\ Posted("admin")
  /\ LET good == q["admin"].cq[q["admin"].head].good
         taken == Taken("admin")["admin"]
         sent == [taken EXCEPT !.sq[taken.tail] = NoCall, !.tail = Step("admin", @)]
     IN  \/ /\ good
            /\ npos' = NextStage[npos]
            /\ q' = [q EXCEPT !["admin"] = IF npos' = "ready" THEN taken ELSE sent,
                              !["io"] = IF npos = "identify" THEN NewQueue("io") ELSE @]
         \/ /\ ~good \/ npos = "identify"
            /\ npos' = "failed"
            /\ q' = [q EXCEPT !["admin"] = taken]
  /\ UNCHANGED diskVars

NvmeAdminTimeout ==
  /\ npos \in DOMAIN NextStage
  /\ ~Posted("admin")
  /\ npos' = "failed"
  /\ UNCHANGED <<q, diskVars>>

-----------------------------------------------------------------------------

(* io_cmd up to the doorbell; without s_ready its callers return false at once. *)
IoCmd(c) ==
  /\ npos = "ready"
  /\ Called(c)
  /\ q' = Submitted("io", c)
  /\ UNCHANGED npos

NvmeRead == \E l \in Lba : IoCmd(ReadOf(l))
NvmeWrite == \E l \in Lba, v \in Val : IoCmd(WriteOf(l, v))

NvmeReturn ==
  /\ call # NoCall
  /\ Posted("io")
  /\ q' = Taken("io")
  /\ Returned(q["io"].cq[q["io"].head].good, Pending("io"))
  /\ UNCHANGED npos

NvmeTimeout ==
  /\ call # NoCall
  /\ ~Posted("io")
  /\ Returned(FALSE, TRUE)
  /\ UNCHANGED <<q, npos>>

NvmeNext ==
  \/ NvmeEnable \/ NvmeIdentify \/ NvmeAdmin \/ NvmeAdminTimeout
  \/ NvmeRead \/ NvmeWrite \/ NvmeReturn \/ NvmeTimeout
  \/ \E i \in Queue : Complete(i)

NvmeSpec == DiskInit /\ NvmeInit /\ [][NvmeNext]_<<diskVars, nvmeVars>>

(* The inductive invariant behind ReadsLastWrite: the I/O queue pair has no command
   but the one of the call, and the entry the driver looks at has the phase it waits
   for exactly when that command is done: the entries before it are of this lap, the
   others of the lap before. *)
Slots == 0..IoqSize - 1

IoQueue(r) ==
  /\ DOMAIN r = {"sq", "tail", "cq", "head", "phase", "ctlHead", "ctlTail", "ctlPhase"}
  /\ r.sq \in [Slots -> DiskCall \cup {NoCall}] /\ r.cq \in [Slots -> [phase : {0, 1}, good : BOOLEAN]]
  /\ r.tail \in Slots /\ r.head \in Slots /\ r.ctlHead \in Slots /\ r.ctlTail \in Slots
  /\ r.phase \in {0, 1} /\ r.ctlPhase \in {0, 1}

Lap(r, k) == \A n \in Slots : r.cq[n].phase = IF n < k THEN r.phase ELSE 1 - r.phase

Empty(r) == r.ctlHead = r.tail
Answered(r) == r.ctlTail = r.head /\ r.ctlPhase = r.phase /\ Lap(r, r.head)

(* The device has the command of the call; it has completed it. *)
Outstanding(r) == Step("io", r.ctlHead) = r.tail /\ r.sq[r.ctlHead] = call /\ Answered(r)
Completed(r) ==
  /\ Empty(r)
  /\ r.ctlTail = Step("io", r.head) /\ r.ctlPhase = Flipped(r.ctlTail, r.phase) /\ Lap(r, r.head + 1)
  /\ r.cq[r.head].good => Done

IoInv ==
  /\ DOMAIN q = Queue /\ IoQueue(q["io"])
  /\ IF call = NoCall THEN Empty(q["io"]) /\ Answered(q["io"]) ELSE Outstanding(q["io"]) \/ Completed(q["io"])

NvmeInv ==
  /\ DiskInv
  /\ npos # "ready" => call = NoCall
  /\ ~adrift => IoInv
=============================================================================
