------------------------------- MODULE Sched -------------------------------
(***************************************************************************)
(* The SMP scheduler: kernel/sched/sched.c, kernel/sched/thread.c and the  *)
(* timer ISR of kernel/arch/x86_64/sched_asm.asm.                          *)
(*                                                                         *)
(* One global FIFO run queue under rq_lock, a sleep list, one current      *)
(* thread per CPU, and a deferred reaper.  A CPU is running thread code    *)
(* ("run"), has taken vector 0x20 and wants rq_lock ("isr"), or has        *)
(* released rq_lock and still executes the tail of sched_tick on the stack *)
(* of the thread it is leaving ("switch").  rq_lock is a plain spinlock:   *)
(* thread code takes it with interrupts enabled, so the timer can strike   *)
(* while it is held.                                                       *)
(***************************************************************************)
EXTENDS Naturals, Sequences

CONSTANTS
  CPU,          \* the CPUs that take timer interrupts
  Thread,       \* every struct thread, idle threads included
  Bsp,          \* the CPU that runs kernel_main
  Boot,         \* thread_create_current's thread for kernel_main
  Idle,         \* cpu_idle[]: one idle thread per CPU
  Preloaded,    \* the run queue kernel_main has filled when it enables interrupts
  Ops,          \* the entry points the workload calls
  SleepTicks,   \* the millisecond arguments given to sched_sleep_ms
  None

AllOps == {"create", "block", "sleep", "exit"}

IdleThreads == {Idle[c] : c \in CPU}
Worker == Thread \ IdleThreads
PreloadedSet == {Preloaded[i] : i \in 1..Len(Preloaded)}

ASSUME SchedConstants ==
  /\ Bsp \in CPU
  /\ None \notin Thread
  /\ Idle \in [CPU -> Thread]
  /\ \A c, d \in CPU : Idle[c] = Idle[d] => c = d
  /\ Boot \in Worker
  /\ Preloaded \in Seq(Worker \ {Boot})
  /\ \A i, j \in 1..Len(Preloaded) : Preloaded[i] = Preloaded[j] => i = j
  /\ Ops \subseteq AllOps
  /\ SleepTicks \subseteq Nat

VARIABLES
  state,        \* thread.state
  on_cpu,       \* thread.on_cpu
  saved,        \* thread.rsp points at the thread's latest context
  mem,          \* the struct thread and its kstack: none, live or freed
  rq,           \* rq_head .. rq_tail
  rq_lock,      \* the thread that holds rq_lock, or None
  sleepq,       \* sleep_head list
  left,         \* sleep_deadline - g_ticks
  cpu_current,  \* cpu_current[]
  reap_pending, \* reap_pending[]
  cpu,          \* where each CPU is: off, run, isr, switch or wild
  stack,        \* the thread whose kernel stack each CPU executes on
  pc,           \* where each thread is in the scheduler's entry points
  arg,          \* the thread being added or woken
  waiting       \* threads on a caller's wait list (mutex, waitpid)

threadVars == <<state, on_cpu, saved, mem>>
queueVars == <<rq, rq_lock, sleepq, left>>
cpuVars == <<cpu_current, reap_pending, cpu, stack>>
callVars == <<pc, arg, waiting>>
vars == <<threadVars, queueVars, cpuVars, callVars>>

ThreadStates == {"READY", "RUNNING", "BLOCKED", "DEAD"}
Phases == {"off", "run", "isr", "switch", "wild"}
PcValues == {"run", "add", "sleep", "window", "wake", "ready"}

(* Each variable stays within the values its C counterpart can hold, and a CPU
   that has been started always has a current thread. *)
TypeOK ==
  /\ state \in [Thread -> ThreadStates]
  /\ on_cpu \in [Thread -> BOOLEAN]
  /\ saved \in [Thread -> BOOLEAN]
  /\ mem \in [Thread -> {"none", "live", "freed"}]
  /\ rq \in Seq(Thread)
  /\ rq_lock \in Thread \cup {None}
  /\ sleepq \in Seq(Thread)
  /\ left \in [Thread -> Nat]
  /\ cpu_current \in [CPU -> Thread \cup {None}]
  /\ \A c \in CPU : cpu_current[c] = None <=> cpu[c] = "off"
  /\ reap_pending \in [CPU -> Thread \cup {None}]
  /\ cpu \in [CPU -> Phases]
  /\ stack \in [CPU -> Thread \cup {None}]
  /\ pc \in [Thread -> PcValues]
  /\ arg \in [Thread -> Thread \cup {None}]
  /\ waiting \in SUBSET Thread

(* sched_init and the thread_create calls kernel_main makes before its sti;
   the APs are still off and their idle threads prepared (sched_ap_prepare). *)
Init ==
  /\ state = [t \in Thread |-> IF t \in IdleThreads \cup {Boot} THEN "RUNNING" ELSE "READY"]
  /\ on_cpu = [t \in Thread |-> t = Boot]
  /\ saved = [t \in Thread |-> t \in PreloadedSet]
  /\ mem = [t \in Thread |->
              IF t \in IdleThreads \cup {Boot} \cup PreloadedSet THEN "live" ELSE "none"]
  /\ rq = Preloaded
  /\ rq_lock = None
  /\ sleepq = <<>>
  /\ left = [t \in Thread |-> 0]
  /\ cpu_current = [c \in CPU |-> IF c = Bsp THEN Boot ELSE None]
  /\ reap_pending = [c \in CPU |-> None]
  /\ cpu = [c \in CPU |-> IF c = Bsp THEN "run" ELSE "off"]
  /\ stack = [c \in CPU |-> IF c = Bsp THEN Boot ELSE None]
  /\ pc = [t \in Thread |-> "run"]
  /\ arg = [t \in Thread |-> None]
  /\ waiting = {}

-----------------------------------------------------------------------------
(* Thread code.  Cur(c) executes on c; an idle thread only halts.          *)

Cur(c) == cpu_current[c]

At(c, label) == cpu[c] = "run" /\ Cur(c) \in Worker /\ pc[Cur(c)] = label

(* sched_ap_enter: an AP adopts its idle thread and starts taking ticks. *)
SchedApEnter(c) ==
  /\ cpu[c] = "off"
  /\ cpu_current' = [cpu_current EXCEPT ![c] = Idle[c]]
  /\ on_cpu' = [on_cpu EXCEPT ![Idle[c]] = TRUE]
  /\ stack' = [stack EXCEPT ![c] = Idle[c]]
  /\ cpu' = [cpu EXCEPT ![c] = "run"]
  /\ UNCHANGED <<state, saved, mem, queueVars, reap_pending, callVars>>

(* thread_create up to its sched_add call: the frame at the top of the new
   kstack is a complete saved context.  process_start reaches sched_add the
   same way, with the thread thread_create_user parked. *)
ThreadCreate(c, n) ==
  /\ "create" \in Ops
  /\ At(c, "run")
  /\ mem[n] = "none"
  /\ mem' = [mem EXCEPT ![n] = "live"]
  /\ saved' = [saved EXCEPT ![n] = TRUE]
  /\ pc' = [pc EXCEPT ![Cur(c)] = "add"]
  /\ arg' = [arg EXCEPT ![Cur(c)] = n]
  /\ UNCHANGED <<state, on_cpu, queueVars, cpuVars, waiting>>

(* spinlock_acquire(&rq_lock) by thread code, interrupts left enabled. *)
AcquireRq(c) ==
  /\ \E label \in {"add", "sleep", "ready"} : At(c, label)
  /\ rq_lock = None
  /\ rq_lock' = Cur(c)
  /\ UNCHANGED <<threadVars, rq, sleepq, left, cpuVars, callVars>>

(* The locked body of sched_add, and its release. *)
SchedAdd(c) ==
  /\ At(c, "add")
  /\ rq_lock = Cur(c)
  /\ rq' = Append(rq, arg[Cur(c)])
  /\ rq_lock' = None
  /\ pc' = [pc EXCEPT ![Cur(c)] = "run"]
  /\ arg' = [arg EXCEPT ![Cur(c)] = None]
  /\ UNCHANGED <<threadVars, sleepq, left, cpuVars, waiting>>

(* A thread puts itself on a caller's wait list and marks itself BLOCKED; it
   has still to reach its int $0x20 (mutex_lock, process_wait). *)
Block(c) ==
  /\ "block" \in Ops
  /\ At(c, "run")
  /\ state' = [state EXCEPT ![Cur(c)] = "BLOCKED"]
  /\ waiting' = waiting \cup {Cur(c)}
  /\ pc' = [pc EXCEPT ![Cur(c)] = "window"]
  /\ UNCHANGED <<on_cpu, saved, mem, queueVars, cpuVars, arg>>

(* A waker unlinks w from its wait list and calls sched_wake(w). *)
WakeCall(c, w) ==
  /\ At(c, "run")
  /\ w \in waiting
  /\ waiting' = waiting \ {w}
  /\ pc' = [pc EXCEPT ![Cur(c)] = "wake"]
  /\ arg' = [arg EXCEPT ![Cur(c)] = w]
  /\ UNCHANGED <<threadVars, queueVars, cpuVars>>

SpinDone_NoSpin(w) == TRUE

(* The exit condition of sched_wake's spin loop. *)
SpinDone(w) == ~on_cpu[w]

WakeSpin(c) ==
  /\ At(c, "wake")
  /\ SpinDone(arg[Cur(c)])
  /\ pc' = [pc EXCEPT ![Cur(c)] = "ready"]
  /\ UNCHANGED <<threadVars, queueVars, cpuVars, arg, waiting>>

(* The locked body of sched_wake, and its release. *)
SchedWake(c) ==
  /\ At(c, "ready")
  /\ rq_lock = Cur(c)
  /\ LET w == arg[Cur(c)] IN
       /\ state' = [state EXCEPT ![w] = "READY"]
       /\ rq' = Append(rq, w)
  /\ rq_lock' = None
  /\ pc' = [pc EXCEPT ![Cur(c)] = "run"]
  /\ arg' = [arg EXCEPT ![Cur(c)] = None]
  /\ UNCHANGED <<on_cpu, saved, mem, sleepq, left, cpuVars, waiting>>

SleepCall(c) ==
  /\ "sleep" \in Ops
  /\ At(c, "run")
  /\ pc' = [pc EXCEPT ![Cur(c)] = "sleep"]
  /\ UNCHANGED <<threadVars, queueVars, cpuVars, arg, waiting>>

(* The locked body of sched_sleep_ms: the deadline is ms ticks away. *)
SchedSleep(c, ms) ==
  /\ At(c, "sleep")
  /\ rq_lock = Cur(c)
  /\ left' = [left EXCEPT ![Cur(c)] = ms]
  /\ state' = [state EXCEPT ![Cur(c)] = "BLOCKED"]
  /\ sleepq' = <<Cur(c)>> \o sleepq
  /\ rq_lock' = None
  /\ pc' = [pc EXCEPT ![Cur(c)] = "window"]
  /\ UNCHANGED <<on_cpu, saved, mem, rq, cpuVars, arg, waiting>>

-----------------------------------------------------------------------------
(* Vector 0x20: the LAPIC timer, or an int $0x20 of the thread itself.     *)

Doomed_Eager(c) == IF state'[Cur(c)] = "DEAD" THEN Cur(c) ELSE reap_pending[c]

(* The thread sched_tick frees on entry: the one that died on this CPU before. *)
Doomed(c) == reap_pending[c]

(* apic_timer_isr's pushes and the part of sched_tick before rq_lock: free
   the thread that died on this CPU, then store the interrupted rsp. *)
EnterIsr(c) ==
  /\ cpu' = [cpu EXCEPT ![c] = "isr"]
  /\ saved' = [saved EXCEPT ![Cur(c)] = TRUE]
  /\ mem' = [t \in Thread |-> IF t = Doomed(c) THEN "freed" ELSE mem[t]]
  /\ reap_pending' = [reap_pending EXCEPT ![c] = None]
  /\ UNCHANGED <<on_cpu, queueVars, cpu_current, stack, arg, waiting>>

(* A timer interrupt, or a plain thread_yield: the thread resumes where it was. *)
Timer(c) ==
  /\ cpu[c] = "run"
  /\ UNCHANGED <<state, pc>>
  /\ EnterIsr(c)

(* The int $0x20 at the end of every blocking sequence. *)
Yield(c) ==
  /\ At(c, "window")
  /\ pc' = [pc EXCEPT ![Cur(c)] = "run"]
  /\ UNCHANGED state
  /\ EnterIsr(c)

(* thread_exit: DEAD, then int $0x20, with interrupts off between the two. *)
ThreadExit(c) ==
  /\ "exit" \in Ops
  /\ At(c, "run")
  /\ Cur(c) # Boot
  /\ state' = [state EXCEPT ![Cur(c)] = "DEAD"]
  /\ EnterIsr(c)
  /\ UNCHANGED pc

(* One walk along a list: the members that are in S, in list order. *)
Sublist(q, S) ==
  LET kept[i \in 0..Len(q)] ==
        IF i = 0 THEN <<>>
        ELSE IF q[i] \in S THEN Append(kept[i - 1], q[i]) ELSE kept[i - 1]
  IN  kept[Len(q)]

(* Sleepers whose deadline is reached once this tick is counted, list order. *)
Expired ==
  IF sleepq = <<>> THEN <<>> ELSE Sublist(sleepq, {t \in Thread : left[t] <= 1})

Asleep_DropRest == <<>>

(* The sleepers that stay on the list. *)
Asleep ==
  IF sleepq = <<>> THEN <<>> ELSE Sublist(sleepq, {t \in Thread : left[t] > 1})

Requeue_Always(c) == Cur(c) \in Worker

(* The condition under which the interrupted thread goes back on the queue. *)
Requeue(c) == state[Cur(c)] = "RUNNING" /\ Cur(c) \in Worker

Queued_Front(c) ==
  LET q == rq \o Expired IN IF Requeue(c) THEN <<Cur(c)>> \o q ELSE q

(* The queue after the sleepers and the interrupted thread were added. *)
Queued(c) ==
  LET q == rq \o Expired IN IF Requeue(c) THEN Append(q, Cur(c)) ELSE q

(* rq_take, or this CPU's idle thread when the queue is empty. *)
PickNext(c) == IF Queued(c) = <<>> THEN Idle[c] ELSE Head(Queued(c))

(* The rq_lock section of sched_tick. *)
SchedTick(c) ==
  LET cur  == Cur(c)
      next == PickNext(c)
      Woken(t) == \E i \in 1..Len(Expired) : Expired[i] = t
  IN
  /\ cpu[c] = "isr"
  /\ rq_lock = None
  /\ sleepq' = Asleep
  /\ left' = [t \in Thread |-> IF left[t] = 0 THEN 0 ELSE left[t] - 1]
  /\ state' = [t \in Thread |->
       IF t = next THEN "RUNNING"
       ELSE IF Woken(t) \/ (t = cur /\ Requeue(c)) THEN "READY"
       ELSE state[t]]
  /\ reap_pending' = [reap_pending EXCEPT ![c] =
       IF state[cur] = "DEAD" THEN cur ELSE @]
  /\ rq' = IF Queued(c) = <<>> THEN <<>> ELSE Tail(Queued(c))
  /\ on_cpu' = [t \in Thread |-> IF t = next THEN TRUE
                                 ELSE IF t = cur THEN FALSE ELSE on_cpu[t]]
  /\ cpu_current' = [cpu_current EXCEPT ![c] = next]
  /\ cpu' = [cpu EXCEPT ![c] = "switch"]
  /\ UNCHANGED <<saved, mem, rq_lock, stack, callVars>>

(* Another CPU is still on the stack c is about to resume: each of the two may
   find its frames overwritten by the other. *)
Clobbered(c) ==
  LET others == {d \in CPU \ {c} : stack[d] = Cur(c)}
  IN  IF others = {} THEN {} ELSE others \cup {c}

(* mov rsp, rax; pops; iretq.  A CPU whose rsp is not the thread's latest context
   (0 for a thread that never ran), or whose frames were overwritten, executes
   from garbage and is not followed further. *)
SwitchStack(c) ==
  /\ cpu[c] = "switch"
  /\ stack' = [stack EXCEPT ![c] = Cur(c)]
  /\ saved' = [saved EXCEPT ![Cur(c)] = FALSE]
  /\ \E lost \in SUBSET Clobbered(c) :
       cpu' = [d \in CPU |-> IF d \in lost \/ (d = c /\ ~saved[Cur(c)]) THEN "wild"
                             ELSE IF d = c THEN "run" ELSE cpu[d]]
  /\ UNCHANGED <<state, on_cpu, mem, queueVars, cpu_current, reap_pending, callVars>>

-----------------------------------------------------------------------------
(* SleepTicks are the times sched_sleep_ms is called with: none, and nobody sleeps. *)
ThreadStep(c) ==
  \/ \E n \in Worker : ThreadCreate(c, n)
  \/ AcquireRq(c) \/ SchedAdd(c)
  \/ Block(c)
  \/ \E w \in Worker : WakeCall(c, w)
  \/ WakeSpin(c) \/ SchedWake(c)
  \/ \E ms \in SleepTicks : SleepCall(c) \/ SchedSleep(c, ms)

InterruptStep(c) ==
  Timer(c) \/ Yield(c) \/ ThreadExit(c) \/ SchedTick(c) \/ SwitchStack(c)

Next == \E c \in CPU : SchedApEnter(c) \/ ThreadStep(c) \/ InterruptStep(c)

Spec == Init /\ [][Next]_vars

(* The timer is periodic; a CPU in the ISR runs on with interrupts off; a
   thread inside an rq_lock section keeps its CPU. *)
Fairness ==
  \A c \in CPU : /\ WF_vars(Timer(c))
                 /\ WF_vars(SchedTick(c))
                 /\ WF_vars(SwitchStack(c))
                 /\ WF_vars(SchedAdd(c))
                 /\ WF_vars(SchedWake(c))

FairSpec == Spec /\ Fairness

-----------------------------------------------------------------------------
(* Properties *)

InRq(t) == \E i \in 1..Len(rq) : rq[i] = t
Adding(t) == \E u \in Thread : pc[u] = "add" /\ arg[u] = t
Waking(t) == \E u \in Thread : pc[u] \in {"wake", "ready"} /\ arg[u] = t
Sleeping(t) == \E i \in 1..Len(sleepq) : sleepq[i] = t

(* sched_tick never hands one thread to two CPUs. *)
OneCpuPerThread ==
  \A c, d \in CPU :
    c # d /\ cpu_current[c] # None => cpu_current[c] # cpu_current[d]

(* A thread on the run queue is there once, is READY, has its context saved
   and is on no CPU: rq_add in sched_add, sched_wake and sched_tick agree. *)
RunQueueSound ==
  /\ \A i, j \in 1..Len(rq) : rq[i] = rq[j] => i = j
  /\ \A i \in 1..Len(rq) :
       /\ rq[i] \in Worker
       /\ mem[rq[i]] = "live"
       /\ state[rq[i]] = "READY"
       /\ saved[rq[i]]
       /\ ~on_cpu[rq[i]]

(* No live thread falls between the queues: a READY one is queued or about to
   be, a RUNNING one is on a CPU, a BLOCKED one has someone left to wake it,
   and a DEAD one is still on its CPU or handed to that CPU's reaper. *)
NoThreadLost ==
  \A t \in Worker : mem[t] = "live" =>
    /\ state[t] = "READY" => InRq(t) \/ Adding(t)
    /\ state[t] = "RUNNING" => on_cpu[t]
    /\ state[t] = "BLOCKED" => t \in waiting \/ Waking(t) \/ Sleeping(t)
    /\ state[t] = "DEAD" => on_cpu[t] \/ \E c \in CPU : reap_pending[c] = t

(* The deferred reaper frees a thread only when nothing refers to it: no CPU has
   it as current or runs thread code on its stack, and no queue holds it. *)
ReapedIsUnreachable ==
  \A t \in Thread : mem[t] = "freed" =>
    /\ \A c \in CPU : /\ t \notin {cpu_current[c], reap_pending[c]}
                      /\ stack[c] = t => cpu[c] \in {"switch", "wild"}
    /\ t \notin waiting
    /\ ~InRq(t) /\ ~Adding(t) /\ ~Waking(t) /\ ~Sleeping(t)

(* Whatever sched_tick picks has a context to resume, with one exception: the
   BSP's idle thread, which was never current before its first pick. *)
PicksSavedContext ==
  \A c \in CPU : cpu[c] = "switch" /\ ~saved[Cur(c)] => c = Bsp /\ Cur(c) = Idle[Bsp]

(* Round robin: a queued thread is eventually given a CPU, unless a CPU is lost
   to a shared stack or an ISR spins on the rq_lock its own thread holds. *)
QueuedEventuallyRuns ==
  \A t \in Worker :
    InRq(t) ~> \/ on_cpu[t]
               \/ \E c \in CPU : cpu[c] = "wild"
               \/ \E c \in CPU : cpu[c] = "isr" /\ rq_lock = Cur(c)
-----------------------------------------------------------------------------
(* The inductive invariant behind the safety properties, for workloads that do
   not call sched_sleep_ms. *)

NoSleepers == sleepq = <<>> /\ \A t \in Thread : pc[t] # "sleep"

RqNoDup == \A i, j \in 1..Len(rq) : rq[i] = rq[j] => i = j

(* A thread's place is determined by its state: queued threads are READY ... *)
QueueInv ==
  /\ RqNoDup
  /\ \A t \in Thread : InRq(t) => t \in Worker /\ state[t] = "READY" /\ mem[t] = "live"

(* ... the current thread of a CPU never is, and belongs to that CPU alone ... *)
CurrentInv ==
  /\ OneCpuPerThread
  /\ \A t \in Thread : on_cpu[t] <=> \E c \in CPU : cpu_current[c] = t
  /\ \A c, d \in CPU : cpu_current[c] = Idle[d] => c = d
  /\ \A c \in CPU : cpu[c] # "off" =>
       /\ state[Cur(c)] # "READY" /\ mem[Cur(c)] = "live"
       /\ cpu[c] \in {"run", "switch"} /\ pc[Cur(c)] # "window" => state[Cur(c)] = "RUNNING"
       /\ cpu[c] \in {"run", "isr"} => stack[c] = Cur(c)
  /\ \A c \in CPU : cpu[c] = "off" => stack[c] = None
  /\ \A c \in CPU : state[Idle[c]] = "RUNNING" /\ mem[Idle[c]] = "live"

(* ... the arguments of sched_add and sched_wake calls in progress are parked,
   each with one caller ... *)
InCall(u) == pc[u] \in {"add", "wake", "ready"}

CallInv ==
  /\ \A u \in Thread : pc[u] = "add" =>
       /\ arg[u] \in Worker /\ state[arg[u]] = "READY" /\ mem[arg[u]] = "live"
       /\ ~InRq(arg[u])
  /\ \A u \in Thread : pc[u] \in {"wake", "ready"} =>
       /\ arg[u] \in Worker /\ state[arg[u]] = "BLOCKED" /\ mem[arg[u]] = "live"
       /\ arg[u] \notin waiting
       /\ pc[u] = "ready" => ~on_cpu[arg[u]]
  /\ \A u, v \in Thread : InCall(u) /\ InCall(v) /\ arg[u] = arg[v] => u = v
  /\ \A t \in waiting : t \in Worker /\ state[t] = "BLOCKED" /\ mem[t] = "live"

(* ... dead threads wait on one CPU for their reaper ... *)
ReapInv ==
  /\ \A t \in Thread : mem[t] = "none" => t \in Worker /\ state[t] = "READY"
  /\ \A t \in Thread : mem[t] = "freed" => t \in Worker /\ state[t] = "DEAD"
  /\ \A c \in CPU : reap_pending[c] # None =>
       LET t == reap_pending[c]
       IN  t \in Worker /\ state[t] = "DEAD" /\ mem[t] = "live" /\ ~on_cpu[t]
  /\ \A c, d \in CPU :
       reap_pending[c] # None /\ reap_pending[c] = reap_pending[d] => c = d
  /\ \A c \in CPU : cpu[c] = "isr" => reap_pending[c] = None

(* ... and a live thread off its CPU has its context in thread.rsp. *)
ContextInv ==
  /\ \A t \in Worker : mem[t] = "live" /\ ~on_cpu[t] => saved[t]
  /\ \A c \in CPU : cpu[c] = "isr" => saved[Cur(c)]
  /\ \A c \in CPU : cpu[c] = "switch" => saved[Cur(c)] \/ (c = Bsp /\ Cur(c) = Idle[Bsp])
  /\ \A c \in CPU : c # Bsp /\ cpu[c] # "off" /\ Cur(c) # Idle[c] => saved[Idle[c]]

(* Together with NoThreadLost these are preserved by every step. *)
SchedInv ==
  /\ TypeOK /\ NoSleepers /\ QueueInv /\ CurrentInv /\ CallInv /\ ReapInv /\ ContextInv
  /\ NoThreadLost
=============================================================================
