------------------------------ MODULE Process ------------------------------
(***************************************************************************)
(* Process lifecycle on top of the scheduler: kernel/proc/process.c with   *)
(* the syscalls that drive it (sys_spawn's publication, sys_exit,          *)
(* sys_waitpid and SYS_KILL in kernel/syscall/syscall.c) and the user      *)
(* fault path of kernel/arch/x86_64/idt.c.                                 *)
(*                                                                         *)
(* A process is named by its thread.  proc_table_lock is taken with        *)
(* interrupts off, so its sections are single steps; proc_wait_lock is a   *)
(* plain spinlock, so its holder can lose its CPU.                         *)
(***************************************************************************)
EXTENDS Sched, FiniteSets

CONSTANTS
  MaxProcs,  \* MAX_PROCS
  MaxPid,    \* the largest uint32_t pid
  Workloads  \* what may happen in a behaviour: [calls, procs, cpus]

AllCalls == {"spawn", "exit", "sleep", "waitchild", "waitany", "kill", "ctrlc", "fault"}

ASSUME ProcessConstants ==
  /\ MaxProcs \in Nat \ {0}
  /\ MaxPid \in Nat /\ MaxPid > MaxProcs
  /\ Workloads \subseteq [calls : SUBSET AllCalls, procs : SUBSET Worker, cpus : SUBSET CPU]
  /\ Len(Preloaded) <= MaxProcs

VARIABLES
  workload,       \* the system calls made, the processes there are, the CPUs started
  pmem,           \* the struct process: none, live or freed
  s_procs,        \* s_procs[]
  next_pid,       \* next_pid
  pid,            \* proc->pid
  parent,         \* the process that spawned it
  exited,         \* proc->exited
  exit_status,    \* proc->exit_status
  wait_queue,     \* proc->wait_queue: newest first
  proc_wait_lock, \* holder, or None
  ppc,            \* where each thread is in these functions
  target,         \* the struct process a call works on
  how,            \* what a process_mark_exited call is part of
  drain           \* the wait queue process_mark_exited has detached

tableVars == <<workload, pmem, s_procs, next_pid, pid, parent>>
exitVars == <<exited, exit_status, wait_queue, proc_wait_lock>>
syscallVars == <<ppc, target, how, drain>>
procVars == <<tableVars, exitVars, syscallVars>>
allVars == <<vars, procVars>>

ProcPc == {"user", "mark", "marking", "drain", "loop", "pwacq", "pwtest", "nap", "sleep", "reap"}
Slots == 1..MaxProcs
Pids == 1..MaxPid

(* The process table, the fields of struct process and every thread's position in
   process.c stay within their ranges. *)
ProcessTypeOK ==
  /\ TypeOK
  /\ workload \in Workloads
  /\ pmem \in [Thread -> {"none", "live", "freed"}]
  /\ s_procs \in [Slots -> Thread \cup {None}]
  /\ next_pid \in Pids
  /\ pid \in [Thread -> 0..MaxPid]
  /\ parent \in [Thread -> Thread \cup {None}]
  /\ exited \in [Thread -> BOOLEAN]
  /\ exit_status \in [Thread -> {0, 130}]
  /\ wait_queue \in [Thread -> Seq(Thread)]
  /\ proc_wait_lock \in Thread \cup {None}
  /\ ppc \in [Thread -> ProcPc]
  /\ target \in [Thread -> Thread \cup {None}]
  /\ how \in [Thread -> {"none", "exit", "kill", "ctrlc", "fault"}]
  /\ drain \in [Thread -> Seq(Thread)]

(* kernel_main's process_create_from_elf calls: the preloaded processes. *)
ProcessInit ==
  /\ Init
  /\ workload \in Workloads
  /\ pmem = [t \in Thread |-> IF t \in PreloadedSet THEN "live" ELSE "none"]
  /\ s_procs = [i \in Slots |-> IF i <= Len(Preloaded) THEN Preloaded[i] ELSE None]
  /\ next_pid = Len(Preloaded) + 1
  /\ pid = [t \in Thread |-> IF t \in PreloadedSet
                             THEN CHOOSE i \in 1..Len(Preloaded) : Preloaded[i] = t ELSE 0]
  /\ parent = [t \in Thread |-> None]
  /\ exited = [t \in Thread |-> FALSE]
  /\ exit_status = [t \in Thread |-> 0]
  /\ wait_queue = [t \in Thread |-> <<>>]
  /\ proc_wait_lock = None
  /\ ppc = [t \in Thread |-> "user"]
  /\ target = [t \in Thread |-> None]
  /\ how = [t \in Thread |-> "none"]
  /\ drain = [t \in Thread |-> <<>>]

-----------------------------------------------------------------------------
(* The process table. *)

(* The current thread of c is a process at label p.  A thread whose struct
   process was freed under it is not followed into another system call. *)
PAt(c, p) ==
  /\ At(c, "run")
  /\ ppc[Cur(c)] = p
  /\ pmem[Cur(c)] = "live" \/ (pmem[Cur(c)] = "freed" /\ p # "user")

Goto(c, p) == ppc' = [ppc EXCEPT ![Cur(c)] = p]

Reaped_KeepSlot(i, p) == s_procs[i]

(* What process_reap leaves in a slot: NULL in the one that held p. *)
Reaped(i, p) == IF s_procs[i] = p THEN None ELSE s_procs[i]

(* find_locked over the table: the process in the lowest slot with pid k. *)
Find(k) ==
  LET hits == {i \in Slots : s_procs[i] # None /\ pid[s_procs[i]] = k}
  IN  IF hits = {} THEN None ELSE s_procs[CHOOSE i \in hits : \A j \in hits : i <= j]

(* next_pid++ on a uint32_t, skipping 0. *)
PidAfter(k, n) == ((k - 1 + n) % MaxPid) + 1

PidFree(k) == Find(k) = None

(* alloc_pid_locked: how far the scan goes before it meets a pid not in use. *)
PidScan ==
  CHOOSE n \in 0..MaxPid - 1 :
    /\ PidFree(PidAfter(next_pid, n))
    /\ \A m \in 0..n - 1 : ~PidFree(PidAfter(next_pid, m))

(* The slot process_create_from_result fills: none when the table is full. *)
FreeSlot ==
  LET free == {i \in Slots : s_procs[i] = None}
  IN  IF free = {} THEN 0 ELSE CHOOSE i \in free : \A j \in free : i <= j

(* sys_spawn: process_create_from_result with its parked thread, the pid and
   the publication under proc_table_lock, then process_start's sched_add. *)
SysSpawn(c, n) ==
  /\ "spawn" \in workload.calls
  /\ PAt(c, "user")
  /\ n \in workload.procs
  /\ ThreadCreate(c, n)
  /\ pmem' = [pmem EXCEPT ![n] = "live"]
  /\ pid' = [pid EXCEPT ![n] = PidAfter(next_pid, PidScan)]
  /\ next_pid' = PidAfter(next_pid, PidScan + 1)
  /\ s_procs' = [i \in Slots |-> IF i = FreeSlot THEN n ELSE s_procs[i]]
  /\ parent' = [parent EXCEPT ![n] = Cur(c)]
  /\ UNCHANGED <<workload, exitVars, syscallVars>>

(* process_reap: clear the table slot, then kfree. *)
ReapStruct(p) ==
  /\ s_procs' = [i \in Slots |-> Reaped(i, p)]
  /\ pmem' = [pmem EXCEPT ![p] = "freed"]

-----------------------------------------------------------------------------
(* process_mark_exited, reached from sys_exit, SYS_KILL, Ctrl+C and faults. *)

BeginMark(c, p, why) ==
  /\ Goto(c, "mark")
  /\ target' = [target EXCEPT ![Cur(c)] = p]
  /\ how' = [how EXCEPT ![Cur(c)] = why]
  /\ UNCHANGED <<vars, tableVars, exitVars, drain>>

SysExit(c) ==
  /\ "exit" \in workload.calls
  /\ PAt(c, "user")
  /\ BeginMark(c, Cur(c), "exit")

(* A CPU exception in user mode: process_kill on the current process, unless
   it is already marked exited, then DEAD and int $0x20. *)
UserFault(c) ==
  /\ "fault" \in workload.calls
  /\ PAt(c, "user")
  /\ IF exited[Cur(c)] THEN ThreadExit(c) /\ UNCHANGED procVars
     ELSE BeginMark(c, Cur(c), "fault")

(* The exception gates clear IF, and the handler never sets it again. *)
Masked(c) == Cur(c) \in Thread /\ how[Cur(c)] = "fault"

(* SYS_KILL: process_find, then process_kill, which returns on an exited one. *)
SysKill(c, k) ==
  /\ "kill" \in workload.calls
  /\ PAt(c, "user")
  /\ Find(k) # None /\ ~exited[Find(k)]
  /\ BeginMark(c, Find(k), "kill")

AcquireForMark(c) ==
  /\ PAt(c, "mark")
  /\ proc_wait_lock = None
  /\ proc_wait_lock' = Cur(c)
  /\ Goto(c, "marking")
  /\ UNCHANGED <<vars, tableVars, exited, exit_status, wait_queue, target, how, drain>>

(* The locked body of process_mark_exited, and its release. *)
MarkExited(c) ==
  LET p == target[Cur(c)] IN
  /\ PAt(c, "marking")
  /\ exited' = [exited EXCEPT ![p] = TRUE]
  /\ exit_status' = [exit_status EXCEPT ![p] = IF how[Cur(c)] = "exit" THEN 0 ELSE 130]
  /\ drain' = [drain EXCEPT ![Cur(c)] = wait_queue[p]]
  /\ wait_queue' = [wait_queue EXCEPT ![p] = <<>>]
  /\ proc_wait_lock' = None
  /\ Goto(c, "drain")
  /\ UNCHANGED <<vars, tableVars, target, how>>

(* One turn of the loop that calls sched_wake on each detached waiter. *)
DrainWake(c) ==
  /\ PAt(c, "drain")
  /\ drain[Cur(c)] # <<>>
  /\ WakeCall(c, Head(drain[Cur(c)]))
  /\ drain' = [drain EXCEPT ![Cur(c)] = Tail(@)]
  /\ UNCHANGED <<tableVars, exitVars, ppc, target, how>>

(* sys_exit's tail, and the fault handler's: DEAD and int $0x20. *)
ExitDone(c) ==
  /\ PAt(c, "drain")
  /\ drain[Cur(c)] = <<>>
  /\ how[Cur(c)] \in {"exit", "fault"}
  /\ ThreadExit(c)
  /\ UNCHANGED procVars

(* process_kill's last line, on whatever the victim's thread is doing; then
   back to user mode, or on to sys_waitpid's reap. *)
KillDone(c) ==
  /\ PAt(c, "drain")
  /\ drain[Cur(c)] = <<>>
  /\ how[Cur(c)] \in {"kill", "ctrlc"}
  /\ state' = [state EXCEPT ![target[Cur(c)]] = "DEAD"]
  /\ Goto(c, IF how[Cur(c)] = "kill" THEN "user" ELSE "reap")
  /\ UNCHANGED <<on_cpu, saved, mem, queueVars, cpuVars, callVars>>
  /\ UNCHANGED <<tableVars, exitVars, target, how, drain>>

-----------------------------------------------------------------------------
(* SYS_SLEEP: sched_sleep_ms, up to its int $0x20. *)

SysSleep(c) ==
  /\ "sleep" \in workload.calls
  /\ PAt(c, "user")
  /\ SleepCall(c)
  /\ UNCHANGED procVars

SleepYield(c) ==
  /\ At(c, "window") /\ ppc[Cur(c)] = "user"
  /\ Yield(c)
  /\ UNCHANGED procVars

-----------------------------------------------------------------------------
(* sys_waitpid and process_wait. *)

SysWaitpid(c, k) ==
  /\ PAt(c, "user")
  /\ Find(k) # None
  /\ \/ "waitany" \in workload.calls /\ Find(k) # Cur(c)
     \/ "waitchild" \in workload.calls /\ parent[Find(k)] = Cur(c)
  /\ target' = [target EXCEPT ![Cur(c)] = Find(k)]
  /\ Goto(c, "loop")
  /\ UNCHANGED <<vars, tableVars, exitVars, how, drain>>

TargetDone(p) == exited[p]

(* The while condition of sys_waitpid, read without a lock, and its body: a
   pending Ctrl+C on the serial line kills the target, else process_wait. *)
WaitpidLoop(c) ==
  LET p == target[Cur(c)] IN
  /\ PAt(c, "loop")
  /\ \/ /\ Goto(c, IF TargetDone(p) THEN "reap" ELSE "pwacq")
        /\ UNCHANGED <<vars, tableVars, exitVars, target, how, drain>>
     \/ "ctrlc" \in workload.calls /\ ~TargetDone(p) /\ BeginMark(c, p, "ctrlc")

AcquireForWait(c) ==
  /\ PAt(c, "pwacq")
  /\ proc_wait_lock = None
  /\ proc_wait_lock' = Cur(c)
  /\ Goto(c, "pwtest")
  /\ UNCHANGED <<vars, tableVars, exited, exit_status, wait_queue, target, how, drain>>

WaitTest_Stale(p) == FALSE

(* process_wait's loop condition, tested under proc_wait_lock. *)
WaitTest(p) == exited[p]

(* The loop body of process_wait up to state = BLOCKED, the lock still held. *)
WaitEnqueue(c) ==
  LET p == target[Cur(c)] IN
  /\ PAt(c, "pwtest")
  /\ ~WaitTest(p)
  /\ Block(c)
  /\ wait_queue' = [wait_queue EXCEPT ![p] = <<Cur(c)>> \o @]
  /\ Goto(c, "nap")
  /\ UNCHANGED <<tableVars, exited, exit_status, proc_wait_lock, target, how, drain>>

WaitDrop(c) ==
  /\ At(c, "window") /\ ppc[Cur(c)] = "nap"
  /\ proc_wait_lock' = None
  /\ Goto(c, "sleep")
  /\ UNCHANGED <<vars, tableVars, exited, exit_status, wait_queue, target, how, drain>>

WaitSleep(c) ==
  /\ At(c, "window") /\ ppc[Cur(c)] = "sleep"
  /\ Yield(c)
  /\ Goto(c, "pwacq")
  /\ UNCHANGED <<tableVars, exitVars, target, how, drain>>

WaitReturn(c) ==
  /\ PAt(c, "pwtest")
  /\ WaitTest(target[Cur(c)])
  /\ proc_wait_lock' = None
  /\ Goto(c, "loop")
  /\ UNCHANGED <<vars, tableVars, exited, exit_status, wait_queue, target, how, drain>>

(* The end of sys_waitpid: collect exit_status, process_reap, return the pid. *)
WaitpidReap(c) ==
  /\ PAt(c, "reap")
  /\ ReapStruct(target[Cur(c)])
  /\ Goto(c, "user")
  /\ target' = [target EXCEPT ![Cur(c)] = None]
  /\ UNCHANGED <<vars, workload, next_pid, pid, parent, exitVars, how, drain>>

-----------------------------------------------------------------------------
SchedStep(c) ==
  /\ \/ c \in workload.cpus /\ SchedApEnter(c)
     \/ AcquireRq(c) \/ SchedAdd(c) \/ WakeSpin(c) \/ SchedWake(c)
     \/ \E ms \in SleepTicks : SchedSleep(c, ms)
     \/ ~Masked(c) /\ Timer(c)
     \/ SchedTick(c) \/ SwitchStack(c)
  /\ UNCHANGED procVars

ProcessStep(c) ==
  \/ \E n \in Worker : SysSpawn(c, n)
  \/ SysExit(c) \/ UserFault(c) \/ SysSleep(c) \/ SleepYield(c)
  \/ \E k \in Pids : SysKill(c, k) \/ SysWaitpid(c, k)
  \/ AcquireForMark(c) \/ MarkExited(c) \/ DrainWake(c) \/ ExitDone(c) \/ KillDone(c)
  \/ WaitpidLoop(c) \/ AcquireForWait(c) \/ WaitEnqueue(c) \/ WaitDrop(c)
  \/ WaitSleep(c) \/ WaitReturn(c) \/ WaitpidReap(c)

ProcessNext == \E c \in CPU : SchedStep(c) \/ ProcessStep(c)

ProcessSpec == ProcessInit /\ [][ProcessNext]_allVars

-----------------------------------------------------------------------------
(* Properties *)

Uses(t, p) ==
  /\ target[t] = p
  /\ \/ ppc[t] \in {"mark", "marking", "loop", "pwacq", "pwtest", "nap", "sleep", "reap"}
     \/ ppc[t] = "drain" /\ how[t] \in {"kill", "ctrlc"}

(* Nobody kills a process and only its parent waits for it.  With process_kill
   in play the struct process can be freed under its user (see the hazards at
   process_kill and sys_waitpid). *)
Orderly == workload.calls \cap {"kill", "ctrlc", "waitany"} = {}

(* process_reap never frees a struct process another thread is still going to
   read, and never frees one twice. *)
NoDanglingProcess ==
  Orderly => \A t, p \in Thread : Uses(t, p) => pmem[p] = "live"

(* No wakeup is lost between process_wait's test and its enqueue: a thread on a
   wait queue waits for a process that has not exited, and a blocked waiter of
   an exited process is in the hands of the thread that marks it. *)
NoLostWaiter ==
  Orderly =>
    /\ \A p \in Thread : exited[p] => wait_queue[p] = <<>>
    /\ \A t \in waiting :
         \/ \E i \in 1..Len(wait_queue[target[t]]) : wait_queue[target[t]][i] = t
         \/ \E u \in Thread : \E i \in 1..Len(drain[u]) : drain[u][i] = t

(* alloc_pid_locked and process_reap keep the table sound, kills and Ctrl+C
   included: two processes in it never share a pid, and it never leads
   process_find to a freed struct. *)
TableSound ==
  /\ ProcessTypeOK
  /\ \A i, j \in Slots :
       s_procs[i] # None /\ s_procs[j] # None /\ pid[s_procs[i]] = pid[s_procs[j]] => i = j
  /\ \A i \in Slots : s_procs[i] # None => pmem[s_procs[i]] = "live"

(* The threads of processes that exit, fault, wait and sleep stay within the
   scheduler's discipline: each live one is on the structure its state says, the
   sleep list included, and is queued at most once. *)
ThreadsAccountedFor == Orderly => NoThreadLost /\ RunQueueSound

-----------------------------------------------------------------------------
(* The inductive invariants behind these properties. *)

(* What the scheduler's variables keep to even under process_kill, which writes
   thread->state with no lock: their types, and nothing of a CPU that is off. *)
SchedTypes ==
  /\ TypeOK
  /\ \A u \in Thread : InCall(u) => arg[u] \in Thread
  /\ \A c \in CPU : cpu[c] = "off" => stack[c] = None

(* A thread that does not exist yet has no struct process, and whatever a call
   works on has or had one. *)
TableInv ==
  /\ SchedTypes /\ TableSound
  /\ \A t \in Thread : mem[t] = "none" => pmem[t] = "none"
  /\ \A t \in Thread : ppc[t] # "user" => target[t] \in Thread
  /\ \A t \in Thread : target[t] # None => pmem[target[t]] # "none"

Exiting == {"mark", "marking", "drain"}
Collecting == {"loop", "pwacq", "pwtest", "nap", "sleep", "reap"}

(* When nobody kills and only parents wait: a process marks itself, once, and its
   struct is freed by its parent, after that. *)
FamilyInv ==
  /\ \A t \in Thread : ppc[t] \in Exiting => target[t] = t /\ how[t] \in {"exit", "fault"}
  /\ \A t \in Thread : ppc[t] \in Collecting =>
       parent[target[t]] = t /\ pmem[target[t]] = "live"
  /\ \A t \in Thread : ppc[t] = "reap" => exited[target[t]]
  /\ \A p \in Thread : exited[p] => ppc[p] = "drain"
  /\ \A p \in Thread : pmem[p] = "freed" => exited[p]

(* When besides nobody sleeps: the scheduler's own invariant, and every waiter is
   in process_wait, on the queue of the process it waits for or on the list being
   drained. *)
WaitersInv ==
  /\ SchedInv
  /\ NoLostWaiter
  /\ \A t \in waiting : ppc[t] \in {"nap", "sleep", "pwacq"}
  /\ \A t \in Thread : ppc[t] # "drain" => drain[t] = <<>>

(* All three, each for the workloads it is about. *)
ProcessInv ==
  /\ TableInv
  /\ Orderly => FamilyInv
  /\ Orderly /\ "sleep" \notin workload.calls => WaitersInv
=============================================================================
