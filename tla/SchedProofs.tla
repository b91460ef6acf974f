---------------------------- MODULE SchedProofs ----------------------------
(***************************************************************************)
(* Proofs about Sched.  The scheduler's safety properties hold on any      *)
(* number of CPUs and threads, for every workload that does not call       *)
(* sched_sleep_ms: SchedInv is inductive and implies each of them.  First  *)
(* the facts the proofs share: what the invariant says of the running      *)
(* thread, and which conjuncts a step leaves alone (frame lemmas).  Then   *)
(* the steps of a thread (sched_init, the lock, the start of an AP,        *)
(* creation, blocking, waking, the interrupt, yielding, exiting), the      *)
(* steps that move the run queue (the context switch, the enqueue of       *)
(* sched_add and sched_wake, the tick), and the theorems.                  *)
(***************************************************************************)
EXTENDS Sched, TLAPS

(* A CPU that is not off has a current thread, which is not None. *)
LEMMA CurIsThread ==
  ASSUME TypeOK, NEW c \in CPU, cpu[c] # "off"
  PROVE  Cur(c) \in Thread /\ Cur(c) = cpu_current[c] /\ Cur(c) # None
BY SchedConstants, Zenon DEF TypeOK, Cur

(* Idle threads are threads, and no idle thread is a worker. *)
LEMMA IdleFacts ==
  ASSUME NEW c \in CPU
  PROVE  /\ Idle[c] \in Thread /\ Idle[c] \notin Worker /\ Idle[c] # None
         /\ Worker \subseteq Thread /\ Boot \in Worker /\ Boot # None
         /\ \A d \in CPU : Idle[c] = Idle[d] => c = d
BY SchedConstants DEF Worker, IdleThreads

(* sched_init establishes the invariant. *)
LEMMA InitInv == Init => SchedInv
<1>. SUFFICES ASSUME Init PROVE SchedInv
  BY Zenon
<1>1. PreloadedSet \subseteq Worker \ {Boot} /\ Len(Preloaded) \in Nat
  BY SchedConstants DEF PreloadedSet
<1>2. TypeOK
  BY SchedConstants, <1>1, IdleFacts DEF Init, TypeOK, ThreadStates, Phases, PcValues
<1>3. \A t \in Thread : InRq(t) <=> t \in PreloadedSet
  BY SchedConstants, Zenon DEF Init, InRq, PreloadedSet
<1>4. NoSleepers
  BY Zenon DEF Init, NoSleepers
<1>5. QueueInv
  BY <1>1, <1>3, SchedConstants, IdleFacts, Zenon DEF Init, QueueInv, RqNoDup, Worker
<1>6. CurrentInv
  BY SchedConstants, IdleFacts, Zenon DEF Init, CurrentInv, OneCpuPerThread, Cur, Worker, IdleThreads
<1>7. CallInv
  BY Zenon DEF Init, CallInv, InCall
<1>8. ReapInv
  BY <1>1, SchedConstants, Zenon DEF Init, ReapInv, Worker
<1>9. ContextInv
  BY SchedConstants, IdleFacts, Zenon DEF Init, ContextInv, Cur, Worker, IdleThreads
<1>10. NoThreadLost
  BY <1>1, <1>3, SchedConstants, IdleFacts, Zenon DEF Init, NoThreadLost, Worker
<1>. QED BY <1>2, <1>4, <1>5, <1>6, <1>7, <1>8, <1>9, <1>10, Zenon DEF SchedInv

(* The thread a started CPU runs is alive and on that CPU. *)
LEMMA CurFacts ==
  ASSUME SchedInv, NEW c \in CPU, cpu[c] # "off"
  PROVE  /\ Cur(c) \in Thread /\ Cur(c) = cpu_current[c] /\ Cur(c) # None
         /\ on_cpu[Cur(c)] /\ state[Cur(c)] # "READY" /\ mem[Cur(c)] = "live"
         /\ cpu[c] = "run" /\ pc[Cur(c)] # "window" => state[Cur(c)] = "RUNNING"
         /\ cpu[c] = "run" => stack[c] = Cur(c)
<1>1. TypeOK /\ CurrentInv
  BY Zenon DEF SchedInv
<1>2. Cur(c) \in Thread /\ Cur(c) = cpu_current[c] /\ Cur(c) # None
  BY <1>1, CurIsThread, Zenon
<1>. QED BY <1>1, <1>2, Zenon DEF CurrentInv

(* The thread an entry point of the scheduler runs in. *)
LEMMA AtFacts ==
  ASSUME SchedInv, NEW c \in CPU, NEW label, At(c, label)
  PROVE  /\ Cur(c) \in Worker /\ Cur(c) \in Thread /\ pc[Cur(c)] = label
         /\ cpu[c] = "run" /\ cpu_current[c] = Cur(c)
         /\ on_cpu[Cur(c)] /\ mem[Cur(c)] = "live" /\ stack[c] = Cur(c)
         /\ label # "window" => state[Cur(c)] = "RUNNING"
<1>1. cpu[c] = "run" /\ Cur(c) \in Worker /\ pc[Cur(c)] = label
  BY Zenon DEF At
<1>. QED BY <1>1, CurFacts, Zenon

(* The run queue is left alone and no READY thread changes. *)
LEMMA QueueFrame ==
  ASSUME QueueInv, UNCHANGED rq,
         \A t \in Worker : state[t] = "READY" /\ mem[t] = "live" =>
                             state'[t] = "READY" /\ mem'[t] = "live"
  PROVE  QueueInv' /\ \A t \in Thread : InRq(t)' <=> InRq(t)
<1>1. \A t \in Thread : InRq(t)' <=> InRq(t)
  BY Zenon DEF InRq
<1>2. RqNoDup'
  BY ZenonT(40) DEF QueueInv, RqNoDup
<1>. QED BY <1>1, <1>2, Zenon DEF QueueInv

(* No call of sched_add or sched_wake begins, no thread starts to wait, and what
   calls and waiters refer to stays parked. *)
LEMMA CallFrame ==
  ASSUME CallInv, waiting' \subseteq waiting,
         \A u \in Thread : InCall(u)' =>
           /\ InCall(u) /\ pc'[u] = pc[u] /\ arg'[u] = arg[u]
           /\ state'[arg[u]] = state[arg[u]] /\ mem'[arg[u]] = mem[arg[u]]
           /\ pc[u] = "add" => ~\E i \in 1..Len(rq') : rq'[i] = arg[u]
           /\ ~on_cpu[arg[u]] => ~on_cpu'[arg[u]],
         \A t \in waiting : state'[t] = state[t] /\ mem'[t] = mem[t]
  PROVE  CallInv'
<1>1. ASSUME NEW u \in Thread, pc'[u] = "add"
      PROVE  /\ arg'[u] \in Worker /\ state'[arg'[u]] = "READY" /\ mem'[arg'[u]] = "live"
             /\ ~InRq(arg[u])'
  <2>1. InCall(u)'
    BY <1>1, Zenon DEF InCall
  <2>. QED BY <1>1, <2>1 DEF CallInv, InRq
<1>2. ASSUME NEW u \in Thread, pc'[u] \in {"wake", "ready"}
      PROVE  /\ arg'[u] \in Worker /\ state'[arg'[u]] = "BLOCKED" /\ mem'[arg'[u]] = "live"
             /\ arg'[u] \notin waiting'
             /\ pc'[u] = "ready" => ~on_cpu'[arg'[u]]
  <2>1. InCall(u)'
    BY <1>2, Zenon DEF InCall
  <2>. QED BY <1>2, <2>1 DEF CallInv
<1>3. \A u, v \in Thread : InCall(u)' /\ InCall(v)' /\ arg'[u] = arg'[v] => u = v
  BY DEF CallInv
<1>4. \A t \in waiting' : t \in Worker /\ state'[t] = "BLOCKED" /\ mem'[t] = "live"
  BY SMTT(40) DEF CallInv
<1>. QED BY <1>1, <1>2, <1>3, <1>4, Zenon DEF CallInv

(* Every live thread is held by what held it before, except perhaps x. *)
LEMMA LostFrame ==
  ASSUME NoThreadLost, NoSleepers, NEW x,
         \A t \in Worker \ {x} : mem'[t] = "live" =>
           /\ mem[t] = "live" /\ state'[t] = state[t]
           /\ InRq(t) => InRq(t)'
           /\ on_cpu[t] => on_cpu'[t]
           /\ t \in waiting => t \in waiting'
           /\ \A d \in CPU : reap_pending[d] = t => reap_pending'[d] = t,
         \A u \in Thread : InCall(u) => arg[u] = x \/ (pc'[u] = pc[u] /\ arg'[u] = arg[u]),
         x \in Worker /\ mem'[x] = "live" =>
           /\ state'[x] = "READY" => InRq(x)' \/ Adding(x)'
           /\ state'[x] = "RUNNING" => on_cpu'[x]
           /\ state'[x] = "BLOCKED" => x \in waiting' \/ Waking(x)' \/ Sleeping(x)'
           /\ state'[x] = "DEAD" => on_cpu'[x] \/ \E d \in CPU : reap_pending'[d] = x
  PROVE  NoThreadLost'
<1>1. \A t \in Worker \ {x} : (Adding(t) => Adding(t)') /\ (Waking(t) => Waking(t)') /\ ~Sleeping(t)
  BY SMTT(40) DEF Adding, Waking, Sleeping, InCall, NoSleepers
<1>2. ASSUME NEW t \in Worker \ {x}, mem'[t] = "live"
      PROVE  /\ state'[t] = "READY" => InRq(t)' \/ Adding(t)'
             /\ state'[t] = "RUNNING" => on_cpu'[t]
             /\ state'[t] = "BLOCKED" => t \in waiting' \/ Waking(t)' \/ Sleeping(t)'
             /\ state'[t] = "DEAD" => on_cpu'[t] \/ \E d \in CPU : reap_pending'[d] = t
  <2>1. /\ state[t] = "READY" => InRq(t) \/ Adding(t)
        /\ state[t] = "RUNNING" => on_cpu[t]
        /\ state[t] = "BLOCKED" => t \in waiting \/ Waking(t) \/ Sleeping(t)
        /\ state[t] = "DEAD" => on_cpu[t] \/ \E d \in CPU : reap_pending[d] = t
    BY <1>2, Zenon DEF NoThreadLost
  <2>. QED BY <1>1, <1>2, <2>1, Zenon
<1>. QED BY <1>2, ZenonT(40) DEF NoThreadLost

(* No CPU changes thread; the current threads stay alive and, unless in a
   blocking sequence, RUNNING. *)
LEMMA CurrentFrame ==
  ASSUME CurrentInv, UNCHANGED <<on_cpu, cpu_current, cpu, stack>>,
         \A c \in CPU : cpu[c] # "off" =>
           /\ state'[Cur(c)] # "READY" /\ mem'[Cur(c)] = "live"
           /\ pc'[Cur(c)] # "window" => pc[Cur(c)] # "window" /\ state'[Cur(c)] = state[Cur(c)],
         \A c \in CPU : state'[Idle[c]] = "RUNNING" /\ mem'[Idle[c]] = "live"
  PROVE  CurrentInv'
<1>1. OneCpuPerThread'
  BY Zenon DEF CurrentInv, OneCpuPerThread
<1>. QED BY <1>1, SMTT(40) DEF CurrentInv, Cur

(* No CPU changes thread, nothing dies and nothing is freed. *)
LEMMA ReapFrame ==
  ASSUME ReapInv, UNCHANGED <<reap_pending, on_cpu, cpu>>,
         \A t \in Thread :
           /\ mem'[t] = "none" => mem[t] = "none" /\ state'[t] = state[t]
           /\ mem'[t] = "freed" => mem[t] = "freed"
           /\ mem[t] = "live" => mem'[t] = "live"
           /\ state[t] = "DEAD" => state'[t] = "DEAD",
         Worker \subseteq Thread
  PROVE  ReapInv'
BY DEF ReapInv

(* No CPU changes thread, no context is lost and a new thread has one. *)
LEMMA ContextFrame ==
  ASSUME ContextInv, UNCHANGED <<on_cpu, cpu, cpu_current>>,
         \A t \in Thread : saved[t] => saved'[t],
         \A t \in Worker : mem'[t] = "live" => mem[t] = "live" \/ saved'[t],
         Worker \subseteq Thread, Idle \in [CPU -> Thread], Bsp \in CPU,
         \A c \in CPU : cpu[c] # "off" => Cur(c) \in Thread
  PROVE  ContextInv'
BY Zenon DEF ContextInv, Cur

(* spinlock_acquire(&rq_lock), and steps that change nothing. *)
LEMMA LockInv ==
  ASSUME SchedInv, rq_lock' \in Thread \cup {None}, UNCHANGED left,
         UNCHANGED <<threadVars, rq, sleepq, cpuVars, callVars>>
  PROVE  SchedInv'
<1>0. TypeOK /\ NoSleepers /\ QueueInv /\ CurrentInv /\ CallInv /\ ReapInv /\ ContextInv /\ NoThreadLost
  BY Zenon DEF SchedInv
<1>u. UNCHANGED <<state, on_cpu, saved, mem, rq, sleepq, cpu_current, reap_pending, cpu, stack,
                  pc, arg, waiting>>
  BY Zenon DEF threadVars, cpuVars, callVars
<1>t. Worker \subseteq Thread /\ None \notin Worker
  BY SchedConstants, Zenon DEF Worker
<1>1. TypeOK'
  BY <1>0, <1>u, Zenon DEF TypeOK
<1>2. NoSleepers'
  BY <1>0, <1>u, Zenon DEF NoSleepers
<1>3. QueueInv' /\ \A t \in Thread : InRq(t)' <=> InRq(t)
  BY <1>0, <1>u, QueueFrame, Zenon
<1>4. CurrentInv'
  BY <1>0, <1>u, CurrentFrame, Zenon DEF CurrentInv
<1>5. CallInv'
  BY <1>0, <1>u, CallFrame, SMTT(40) DEF CallInv, InCall, InRq
<1>6. ReapInv'
  BY <1>0, <1>u, ReapFrame, SchedConstants, Zenon DEF Worker
<1>7. ContextInv'
  BY <1>0, <1>u, ContextFrame, SchedConstants, CurIsThread, Zenon DEF Worker
<1>8. NoThreadLost'
  BY <1>0, <1>u, <1>3, <1>t, LostFrame, Zenon
<1>. QED BY <1>1, <1>2, <1>3, <1>4, <1>5, <1>6, <1>7, <1>8, Zenon DEF SchedInv

(* An AP enters the scheduler. *)
LEMMA ApEnterInv ==
  ASSUME SchedInv, NEW c \in CPU, SchedApEnter(c)
  PROVE  SchedInv'
<1>0. TypeOK /\ NoSleepers /\ QueueInv /\ CurrentInv /\ CallInv /\ ReapInv /\ ContextInv /\ NoThreadLost
  BY Zenon DEF SchedInv
<1>u. /\ UNCHANGED <<state, saved, mem, rq, rq_lock, sleepq, left, reap_pending, pc, arg, waiting>>
      /\ cpu[c] = "off"
  BY Zenon DEF SchedApEnter, queueVars, callVars
<1>t. /\ Worker \subseteq Thread /\ None \notin Thread /\ Bsp \in CPU /\ Idle \in [CPU -> Thread]
      /\ \A d \in CPU : Idle[d] \in Thread /\ Idle[d] \notin Worker /\ Idle[d] # None
      /\ \A d, e \in CPU : Idle[d] = Idle[e] => d = e
  BY SchedConstants, SMTT(40) DEF Worker, IdleThreads
<1>1. TypeOK'
  BY <1>0, <1>u, <1>t, Zenon DEF SchedApEnter, TypeOK, Phases
<1>f. /\ cpu_current'[c] = Idle[c] /\ cpu'[c] = "run" /\ stack'[c] = Idle[c]
      /\ \A d \in CPU \ {c} : /\ cpu_current'[d] = cpu_current[d] /\ cpu'[d] = cpu[d]
                              /\ stack'[d] = stack[d]
      /\ on_cpu'[Idle[c]] = TRUE
      /\ \A t \in Thread \ {Idle[c]} : on_cpu'[t] = on_cpu[t]
      /\ cpu_current[c] = None
  BY <1>0, <1>u, <1>t, ZenonT(40) DEF SchedApEnter, TypeOK
<1>2. NoSleepers'
  BY <1>0, <1>u, Zenon DEF NoSleepers
<1>3. QueueInv' /\ \A t \in Thread : InRq(t)' <=> InRq(t)
  BY <1>0, <1>u, QueueFrame, Zenon
<1>4. CurrentInv'
  <2>1. \A d \in CPU : cpu_current[d] # Idle[c]
    BY <1>0, <1>f, <1>t, SMTT(40) DEF CurrentInv
  <2>2. OneCpuPerThread'
    BY <1>0, <1>f, <2>1, SMTT(40) DEF CurrentInv, OneCpuPerThread
  <2>3. \A t \in Thread : on_cpu'[t] <=> \E d \in CPU : cpu_current'[d] = t
    BY <1>0, <1>f, <1>t, SMTT(40) DEF CurrentInv
  <2>4. \A d, e \in CPU : cpu_current'[d] = Idle[e] => d = e
    BY <1>0, <1>f, <1>t, SMTT(40) DEF CurrentInv
  <2>5. \A d \in CPU : cpu'[d] # "off" =>
          /\ state'[Cur(d)'] # "READY" /\ mem'[Cur(d)'] = "live"
          /\ cpu'[d] \in {"run", "switch"} /\ pc'[Cur(d)'] # "window" => state'[Cur(d)'] = "RUNNING"
          /\ cpu'[d] \in {"run", "isr"} => stack'[d] = Cur(d)'
    BY <1>0, <1>u, <1>f, SMTT(40) DEF CurrentInv, Cur
  <2>6. /\ \A d \in CPU : cpu'[d] = "off" => stack'[d] = None
        /\ \A d \in CPU : state'[Idle[d]] = "RUNNING" /\ mem'[Idle[d]] = "live"
    BY <1>0, <1>u, <1>f, SMTT(40) DEF CurrentInv
  <2>. QED BY <2>2, <2>3, <2>4, <2>5, <2>6, Zenon DEF CurrentInv, Cur
<1>5. CallInv'
  <2>1. \A u \in Thread : InCall(u) => arg[u] \in Worker
    BY <1>0, Zenon DEF CallInv, InCall
  <2>. QED BY <1>0, <1>u, <1>f, <1>t, <2>1, CallFrame, SMTT(40) DEF CallInv, InCall, InRq
<1>6. ReapInv'
  BY <1>0, <1>u, <1>f, <1>t, SMTT(40) DEF ReapInv
<1>7. ContextInv'
  BY <1>0, <1>u, <1>f, <1>t, SMTT(40) DEF ContextInv, Cur
<1>8. NoThreadLost'
  BY <1>0, <1>u, <1>3, <1>f, <1>t, LostFrame, SMTT(40)
<1>. QED BY <1>1, <1>2, <1>3, <1>4, <1>5, <1>6, <1>7, <1>8, Zenon DEF SchedInv

----------------------------------------------------------------------------
(* thread_create up to its call of sched_add. *)
LEMMA CreateInv ==
  ASSUME SchedInv, NEW c \in CPU, NEW n \in Worker, ThreadCreate(c, n)
  PROVE  SchedInv'
<1>0. TypeOK /\ NoSleepers /\ QueueInv /\ CurrentInv /\ CallInv /\ ReapInv /\ ContextInv /\ NoThreadLost
  BY Zenon DEF SchedInv
<1>u. /\ UNCHANGED <<state, on_cpu, rq, rq_lock, sleepq, left, cpu_current, reap_pending, cpu, stack,
                     waiting>>
      /\ mem[n] = "none" /\ At(c, "run")
  BY Zenon DEF ThreadCreate, queueVars, cpuVars
<1>t. /\ Worker \subseteq Thread /\ None \notin Thread /\ Bsp \in CPU /\ Idle \in [CPU -> Thread]
      /\ \A d \in CPU : Idle[d] \in Thread /\ Idle[d] \notin Worker
  BY SchedConstants, Zenon DEF Worker, IdleThreads
<1>c. Cur(c) \in Thread /\ pc[Cur(c)] = "run"
  BY <1>u, AtFacts, Zenon
<1>1. TypeOK'
  BY <1>0, <1>u, <1>t, <1>c, Zenon DEF ThreadCreate, TypeOK, PcValues
<1>f. /\ mem'[n] = "live" /\ saved'[n] = TRUE /\ pc'[Cur(c)] = "add" /\ arg'[Cur(c)] = n
      /\ \A t \in Thread \ {n} : mem'[t] = mem[t] /\ saved'[t] = saved[t]
      /\ \A u \in Thread \ {Cur(c)} : pc'[u] = pc[u] /\ arg'[u] = arg[u]
  BY <1>0, <1>t, <1>c, Zenon DEF ThreadCreate, TypeOK
<1>n. state[n] = "READY" /\ ~InRq(n) /\ \A u \in Thread : InCall(u) => arg[u] # n
  BY <1>0, <1>t, <1>u, ZenonT(40) DEF ReapInv, QueueInv, CallInv, InCall
<1>2. NoSleepers'
  BY <1>0, <1>u, <1>f, Zenon DEF NoSleepers
<1>3. QueueInv' /\ \A t \in Thread : InRq(t)' <=> InRq(t)
  BY <1>0, <1>u, <1>f, <1>t, QueueFrame, Zenon
<1>4. CurrentInv'
  <2>1. ASSUME NEW d \in CPU, cpu[d] # "off"
        PROVE  /\ state'[Cur(d)] # "READY" /\ mem'[Cur(d)] = "live" /\ state'[Cur(d)] = state[Cur(d)]
               /\ pc'[Cur(d)] # "window" => pc[Cur(d)] # "window"
    BY <1>u, <1>f, <1>c, <1>n, <2>1, CurFacts, SMTT(40)
  <2>2. \A d \in CPU : state'[Idle[d]] = "RUNNING" /\ mem'[Idle[d]] = "live"
    BY <1>0, <1>u, <1>f, <1>t, SMTT(40) DEF CurrentInv
  <2>. QED BY <1>0, <1>u, <2>1, <2>2, CurrentFrame, Zenon
<1>5. CallInv'
  <2>1. ASSUME NEW u \in Thread, pc'[u] = "add"
        PROVE  /\ arg'[u] \in Worker /\ state'[arg'[u]] = "READY" /\ mem'[arg'[u]] = "live"
               /\ ~InRq(arg[u])'
    BY <1>0, <1>u, <1>f, <1>t, <1>n, <2>1, SMTT(40) DEF CallInv, InRq
  <2>2. ASSUME NEW u \in Thread, pc'[u] \in {"wake", "ready"}
        PROVE  /\ arg'[u] \in Worker /\ state'[arg'[u]] = "BLOCKED" /\ mem'[arg'[u]] = "live"
               /\ arg'[u] \notin waiting'
               /\ pc'[u] = "ready" => ~on_cpu'[arg'[u]]
    BY <1>0, <1>u, <1>f, <1>t, <2>2, SMTT(40) DEF CallInv
  <2>3. \A u, v \in Thread : InCall(u)' /\ InCall(v)' /\ arg'[u] = arg'[v] => u = v
    BY <1>0, <1>f, <1>c, <1>n, SMTT(40) DEF CallInv, InCall
  <2>4. \A t \in waiting' : t \in Worker /\ state'[t] = "BLOCKED" /\ mem'[t] = "live"
    BY <1>0, <1>u, <1>f, <1>t, SMTT(40) DEF CallInv
  <2>. QED BY <2>1, <2>2, <2>3, <2>4, Zenon DEF CallInv
<1>6. ReapInv'
  BY <1>0, <1>u, <1>f, <1>t, ReapFrame, Zenon
<1>7. ContextInv'
  BY <1>0, <1>u, <1>f, <1>t, ContextFrame, CurIsThread, Zenon
<1>8. NoThreadLost'
  <2>1. Adding(n)'
    BY <1>f, <1>c, <1>u, Zenon DEF Adding
  <2>2. \A u \in Thread : InCall(u) => pc'[u] = pc[u] /\ arg'[u] = arg[u]
    BY <1>f, <1>c, Zenon DEF InCall
  <2>. QED BY <1>0, <1>u, <1>n, <1>3, <1>f, <1>t, <2>1, <2>2, LostFrame, SMTT(40)
<1>. QED BY <1>1, <1>2, <1>3, <1>4, <1>5, <1>6, <1>7, <1>8, Zenon DEF SchedInv

(* A thread begins to wait on a caller's list. *)
LEMMA BlockInv ==
  ASSUME SchedInv, NEW c \in CPU, Block(c)
  PROVE  SchedInv'
<1>0. TypeOK /\ NoSleepers /\ QueueInv /\ CurrentInv /\ CallInv /\ ReapInv /\ ContextInv /\ NoThreadLost
  BY Zenon DEF SchedInv
<1>u. /\ UNCHANGED <<on_cpu, saved, mem, rq, rq_lock, sleepq, left, cpu_current, reap_pending, cpu,
                     stack, arg>>
      /\ waiting' = waiting \cup {Cur(c)} /\ At(c, "run")
  BY Zenon DEF Block, queueVars, cpuVars
<1>t. /\ Worker \subseteq Thread /\ None \notin Thread /\ Bsp \in CPU /\ Idle \in [CPU -> Thread]
      /\ \A d \in CPU : Idle[d] \in Thread /\ Idle[d] \notin Worker
  BY SchedConstants, Zenon DEF Worker, IdleThreads
<1>c. /\ Cur(c) \in Thread /\ Cur(c) \in Worker /\ pc[Cur(c)] = "run" /\ on_cpu[Cur(c)]
      /\ state[Cur(c)] = "RUNNING" /\ mem[Cur(c)] = "live"
  BY <1>u, AtFacts, SMTT(40)
<1>1. TypeOK'
  BY <1>0, <1>u, <1>c, Zenon DEF Block, TypeOK, PcValues, ThreadStates
<1>f. /\ state'[Cur(c)] = "BLOCKED" /\ pc'[Cur(c)] = "window"
      /\ \A t \in Thread \ {Cur(c)} : state'[t] = state[t] /\ pc'[t] = pc[t]
  BY <1>0, <1>c, Zenon DEF Block, TypeOK
<1>a. \A u \in Thread : /\ InCall(u)' <=> InCall(u)
                        /\ InCall(u) => arg[u] # Cur(c) /\ pc'[u] = pc[u]
  BY <1>0, <1>c, <1>f, Zenon DEF CallInv, InCall
<1>2. NoSleepers'
  BY <1>0, <1>u, <1>f, Zenon DEF NoSleepers
<1>3. QueueInv' /\ \A t \in Thread : InRq(t)' <=> InRq(t)
  BY <1>0, <1>u, <1>c, <1>f, <1>t, QueueFrame, Zenon
<1>4. CurrentInv'
  <2>1. ASSUME NEW d \in CPU, cpu[d] # "off"
        PROVE  /\ state'[Cur(d)] # "READY" /\ mem'[Cur(d)] = "live"
               /\ pc'[Cur(d)] # "window" => pc[Cur(d)] # "window" /\ state'[Cur(d)] = state[Cur(d)]
    BY <1>u, <1>f, <1>c, <2>1, CurFacts, Zenon
  <2>2. \A d \in CPU : state'[Idle[d]] = "RUNNING" /\ mem'[Idle[d]] = "live"
    BY <1>0, <1>u, <1>f, <1>t, <1>c, SMTT(40) DEF CurrentInv
  <2>. QED BY <1>0, <1>u, <2>1, <2>2, CurrentFrame, ZenonT(40)
<1>5. CallInv'
  <2>1. ASSUME NEW u \in Thread, pc'[u] = "add"
        PROVE  /\ arg'[u] \in Worker /\ state'[arg'[u]] = "READY" /\ mem'[arg'[u]] = "live"
               /\ ~InRq(arg[u])'
    BY <1>0, <1>u, <1>f, <1>t, <1>a, <2>1, SMTT(40) DEF CallInv, InRq, InCall
  <2>2. ASSUME NEW u \in Thread, pc'[u] \in {"wake", "ready"}
        PROVE  /\ arg'[u] \in Worker /\ state'[arg'[u]] = "BLOCKED" /\ mem'[arg'[u]] = "live"
               /\ arg'[u] \notin waiting'
               /\ pc'[u] = "ready" => ~on_cpu'[arg'[u]]
    BY <1>0, <1>u, <1>f, <1>t, <1>a, <2>2, SMTT(40) DEF CallInv, InCall
  <2>3. \A u, v \in Thread : InCall(u)' /\ InCall(v)' /\ arg'[u] = arg'[v] => u = v
    BY <1>0, <1>a, <1>u, Zenon DEF CallInv
  <2>4. \A t \in waiting' : t \in Worker /\ state'[t] = "BLOCKED" /\ mem'[t] = "live"
    BY <1>0, <1>u, <1>f, <1>t, <1>c, SMTT(40) DEF CallInv
  <2>. QED BY <2>1, <2>2, <2>3, <2>4, Zenon DEF CallInv
<1>6. ReapInv'
  BY <1>0, <1>u, <1>f, <1>t, <1>c, ReapFrame, Zenon
<1>7. ContextInv'
  BY <1>0, <1>u, <1>t, ContextFrame, CurIsThread, Zenon
<1>8. NoThreadLost'
  BY <1>0, <1>u, <1>3, <1>a, <1>f, <1>t, LostFrame, ZenonT(40)
<1>. QED BY <1>1, <1>2, <1>3, <1>4, <1>5, <1>6, <1>7, <1>8, Zenon DEF SchedInv

(* A waker takes a thread off its list, and the end of its spin on on_cpu: the
   caller's label and argument change, and at most the woken thread leaves the list. *)
LEMMA WakerInv ==
  ASSUME SchedInv, NEW c \in CPU, NEW w \in Worker, NEW label \in {"wake", "ready"},
         cpu[c] = "run", Cur(c) \in Worker, pc[Cur(c)] \in {"run", "wake"},
         \/ pc[Cur(c)] = "run" /\ label = "wake" /\ w \in waiting
         \/ pc[Cur(c)] = "wake" /\ label = "ready" /\ arg[Cur(c)] = w /\ ~on_cpu[w],
         waiting' = waiting \ {w},
         pc' = [pc EXCEPT ![Cur(c)] = label], arg' = [arg EXCEPT ![Cur(c)] = w],
         UNCHANGED <<threadVars, queueVars, cpuVars>>
  PROVE  SchedInv'
<1>0. TypeOK /\ NoSleepers /\ QueueInv /\ CurrentInv /\ CallInv /\ ReapInv /\ ContextInv /\ NoThreadLost
  BY Zenon DEF SchedInv
<1>u. UNCHANGED <<state, on_cpu, saved, mem, rq, rq_lock, sleepq, left, cpu_current, reap_pending,
                  cpu, stack>>
  BY Zenon DEF threadVars, queueVars, cpuVars
<1>t. Worker \subseteq Thread /\ Bsp \in CPU /\ Idle \in [CPU -> Thread]
  BY SchedConstants, Zenon DEF Worker, IdleThreads
<1>c. Cur(c) \in Thread
  BY <1>t, Zenon
<1>1. TypeOK'
  BY <1>0, <1>u, <1>c, <1>t, Zenon DEF TypeOK, PcValues
<1>f. /\ pc'[Cur(c)] = label /\ arg'[Cur(c)] = w
      /\ \A u \in Thread \ {Cur(c)} : pc'[u] = pc[u] /\ arg'[u] = arg[u]
  BY <1>0, <1>c, Zenon DEF TypeOK
<1>w. /\ state[w] = "BLOCKED" /\ mem[w] = "live"
      /\ \A u \in Thread \ {Cur(c)} : InCall(u) => arg[u] # w
  BY <1>0, <1>t, <1>c, SMTT(40) DEF CallInv, InCall
<1>2. NoSleepers'
  BY <1>0, <1>u, <1>f, <1>c, Zenon DEF NoSleepers
<1>3. QueueInv' /\ \A t \in Thread : InRq(t)' <=> InRq(t)
  BY <1>0, <1>u, QueueFrame, Zenon
<1>4. CurrentInv'
  <2>1. ASSUME NEW d \in CPU, cpu[d] # "off"
        PROVE  pc'[Cur(d)] # "window" => pc[Cur(d)] # "window"
    BY <1>f, <1>c, <2>1, CurFacts, Zenon
  <2>. QED BY <1>0, <1>u, <2>1, CurrentFrame, Zenon DEF CurrentInv
<1>5. CallInv'
  <2>1. ASSUME NEW u \in Thread, pc'[u] = "add"
        PROVE  /\ arg'[u] \in Worker /\ state'[arg'[u]] = "READY" /\ mem'[arg'[u]] = "live"
               /\ ~InRq(arg[u])'
    BY <1>0, <1>u, <1>f, <1>t, <2>1, SMTT(40) DEF CallInv, InRq
  <2>2. ASSUME NEW u \in Thread, pc'[u] \in {"wake", "ready"}
        PROVE  /\ arg'[u] \in Worker /\ state'[arg'[u]] = "BLOCKED" /\ mem'[arg'[u]] = "live"
               /\ arg'[u] \notin waiting'
               /\ pc'[u] = "ready" => ~on_cpu'[arg'[u]]
    <3>1. CASE u = Cur(c)
      BY <1>u, <1>f, <1>w, <3>1, SMTT(40)
    <3>2. CASE u # Cur(c)
      BY <1>0, <1>u, <1>f, <2>2, <3>2, SMTT(40) DEF CallInv
    <3>. QED BY <3>1, <3>2, Zenon
  <2>3. \A u, v \in Thread : InCall(u)' /\ InCall(v)' /\ arg'[u] = arg'[v] => u = v
    BY <1>0, <1>f, <1>c, <1>w, SMTT(40) DEF CallInv, InCall
  <2>4. \A t \in waiting' : t \in Worker /\ state'[t] = "BLOCKED" /\ mem'[t] = "live"
    BY <1>0, <1>u, Zenon DEF CallInv
  <2>. QED BY <2>1, <2>2, <2>3, <2>4, Zenon DEF CallInv
<1>6. ReapInv'
  BY <1>0, <1>u, <1>t, ReapFrame, Zenon
<1>7. ContextInv'
  BY <1>0, <1>u, <1>t, ContextFrame, CurIsThread, Zenon
<1>8. NoThreadLost'
  <2>1. Waking(w)'
    BY <1>f, <1>c, Zenon DEF Waking
  <2>2. \A u \in Thread : InCall(u) => arg[u] = w \/ (pc'[u] = pc[u] /\ arg'[u] = arg[u])
    BY <1>f, Zenon DEF InCall
  <2>. QED BY <1>0, <1>u, <1>w, <1>t, <1>3, <2>1, <2>2, LostFrame, Zenon
<1>. QED BY <1>1, <1>2, <1>3, <1>4, <1>5, <1>6, <1>7, <1>8, Zenon DEF SchedInv

(* A waker takes a thread off its wait list. *)
LEMMA WakeCallInv ==
  ASSUME SchedInv, NEW c \in CPU, NEW w \in Worker, WakeCall(c, w)
  PROVE  SchedInv'
BY WakerInv, Zenon DEF WakeCall, At

(* sched_wake sees on_cpu clear. *)
LEMMA WakeSpinInv ==
  ASSUME SchedInv, NEW c \in CPU, WakeSpin(c)
  PROVE  SchedInv'
<1>1. /\ cpu[c] = "run" /\ Cur(c) \in Worker /\ pc[Cur(c)] = "wake" /\ ~on_cpu[arg[Cur(c)]]
      /\ pc' = [pc EXCEPT ![Cur(c)] = "ready"]
      /\ UNCHANGED <<threadVars, queueVars, cpuVars, arg, waiting>>
  BY Zenon DEF WakeSpin, At, SpinDone
<1>2. /\ TypeOK /\ CallInv /\ Cur(c) \in Thread
      /\ arg[Cur(c)] \in Worker /\ arg[Cur(c)] \notin waiting
  BY <1>1, SchedConstants, Zenon DEF SchedInv, CallInv, Worker
<1>3. arg' = [arg EXCEPT ![Cur(c)] = arg[Cur(c)]] /\ waiting' = waiting \ {arg[Cur(c)]}
  BY <1>1, <1>2, Zenon DEF TypeOK
<1>. QED BY <1>1, <1>2, <1>3, WakerInv, ZenonT(20)

(* The entry of vector 0x20, whatever brought the thread there: it may have died
   (thread_exit) or reached the end of a blocking sequence (Yield). *)
LEMMA IsrInv ==
  ASSUME SchedInv, NEW c \in CPU, cpu[c] = "run", EnterIsr(c),
         state' \in [Thread -> ThreadStates], pc' \in [Thread -> PcValues],
         \A t \in Thread : \/ state'[t] = state[t]
                           \/ /\ t = Cur(c) /\ t \in Worker
                              /\ state[t] = "RUNNING" /\ state'[t] = "DEAD",
         \A u \in Thread : pc'[u] = pc[u] \/ (u = Cur(c) /\ pc[u] = "window" /\ pc'[u] = "run")
  PROVE  SchedInv'
<1>0. TypeOK /\ NoSleepers /\ QueueInv /\ CurrentInv /\ CallInv /\ ReapInv /\ ContextInv /\ NoThreadLost
  BY Zenon DEF SchedInv
<1>u. UNCHANGED <<on_cpu, rq, rq_lock, sleepq, left, cpu_current, stack, arg, waiting>>
  BY Zenon DEF EnterIsr, queueVars
<1>t. /\ Worker \subseteq Thread /\ None \notin Thread /\ Bsp \in CPU /\ Idle \in [CPU -> Thread]
      /\ \A d \in CPU : Idle[d] \in Thread /\ Idle[d] \notin Worker
  BY SchedConstants, Zenon DEF Worker, IdleThreads
<1>c. Cur(c) \in Thread /\ cpu_current[c] = Cur(c) /\ on_cpu[Cur(c)] /\ stack[c] = Cur(c)
  BY CurFacts, Zenon
<1>1. TypeOK'
  BY <1>0, <1>u, <1>c, SMTT(40) DEF EnterIsr, TypeOK, Phases
<1>f. /\ cpu'[c] = "isr" /\ reap_pending'[c] = None
      /\ \A d \in CPU : d # c => cpu'[d] = cpu[d] /\ reap_pending'[d] = reap_pending[d]
  <2>1. cpu'[c] = "isr" /\ \A d \in CPU : d # c => cpu'[d] = cpu[d]
    BY <1>0, Zenon DEF EnterIsr, TypeOK
  <2>2. reap_pending'[c] = None /\ \A d \in CPU : d # c => reap_pending'[d] = reap_pending[d]
    BY <1>0, Zenon DEF EnterIsr, TypeOK
  <2>. QED BY <2>1, <2>2, Zenon
<1>s. saved'[Cur(c)] /\ \A t \in Thread : t # Cur(c) => saved'[t] = saved[t]
  BY <1>0, <1>c, Zenon DEF EnterIsr, TypeOK
<1>g. \A t \in Thread : /\ t = reap_pending[c] => mem'[t] = "freed"
                        /\ t # reap_pending[c] => mem'[t] = mem[t]
  BY <1>0, Zenon DEF EnterIsr, Doomed, TypeOK
<1>w. \A t \in Thread : t = reap_pending[c] => t \in Worker /\ state[t] = "DEAD" /\ ~on_cpu[t]
  <2>1. reap_pending[c] = None \/ (/\ reap_pending[c] \in Worker /\ state[reap_pending[c]] = "DEAD"
                                  /\ ~on_cpu[reap_pending[c]])
    BY <1>0, Zenon DEF ReapInv
  <2>2. None \notin Thread
    BY SchedConstants
  <2>. QED BY <2>1, <2>2, Zenon
<1>m. \A t \in Thread : /\ state[t] # "DEAD" => mem'[t] = mem[t]
                        /\ on_cpu[t] => mem'[t] = mem[t]
  BY <1>g, <1>w, Zenon
<1>2. NoSleepers'
  <2>1. sleepq' = <<>> /\ \A t \in Thread : pc[t] # "sleep"
    BY <1>0, <1>u, Zenon DEF NoSleepers
  <2>2. "run" # "sleep"
    OBVIOUS
  <2>3. \A t \in Thread : pc'[t] # "sleep"
    BY <2>1, <2>2, Zenon
  <2>. QED BY <2>1, <2>3, Zenon DEF NoSleepers
<1>3. QueueInv' /\ \A t \in Thread : InRq(t)' <=> InRq(t)
  BY <1>0, <1>u, <1>m, <1>t, QueueFrame, Zenon
<1>4. CurrentInv'
  <2>1. OneCpuPerThread'
    BY <1>0, <1>u, Zenon DEF CurrentInv, OneCpuPerThread
  <2>2. /\ \A t \in Thread : on_cpu'[t] <=> \E d \in CPU : cpu_current'[d] = t
        /\ \A d, e \in CPU : cpu_current'[d] = Idle[e] => d = e
    BY <1>0, <1>u, SMTT(40) DEF CurrentInv
  <2>3. ASSUME NEW d \in CPU, cpu'[d] # "off"
        PROVE  /\ state'[Cur(d)] # "READY" /\ mem'[Cur(d)] = "live"
               /\ cpu'[d] \in {"run", "switch"} /\ pc'[Cur(d)] # "window" => state'[Cur(d)] = "RUNNING"
               /\ cpu'[d] \in {"run", "isr"} => stack'[d] = Cur(d)
    <3>1. cpu[d] # "off" /\ Cur(d) \in Thread /\ on_cpu[Cur(d)] /\ state[Cur(d)] # "READY"
          /\ mem[Cur(d)] = "live"
      BY <1>f, <2>3, CurFacts, ZenonT(40)
    <3>2. CASE d = c
      BY <1>u, <1>f, <1>c, <1>m, <3>1, <3>2, Zenon
    <3>3. CASE d # c
      <4>1. Cur(d) # Cur(c)
        <5>1. OneCpuPerThread /\ cpu_current[d] = Cur(d)
          BY <1>0, Zenon DEF CurrentInv, Cur
        <5>2. cpu_current[d] # None /\ d # c
          BY <1>t, <3>1, <3>3, <5>1, ZenonT(40)
        <5>. QED BY <1>c, <5>1, <5>2, Zenon DEF OneCpuPerThread
      <4>2. state'[Cur(d)] = state[Cur(d)] /\ pc'[Cur(d)] = pc[Cur(d)] /\ mem'[Cur(d)] = "live"
        BY <1>m, <3>1, <4>1, Zenon
      <4>3. cpu'[d] = cpu[d] /\ stack'[d] = stack[d]
        BY <1>u, <1>f, <3>3, Zenon
      <4>4. /\ cpu[d] \in {"run", "switch"} /\ pc[Cur(d)] # "window" => state[Cur(d)] = "RUNNING"
            /\ cpu[d] \in {"run", "isr"} => stack[d] = Cur(d)
        BY <1>0, <3>1, Zenon DEF CurrentInv
      <4>. QED BY <3>1, <4>2, <4>3, <4>4, Zenon
    <3>. QED BY <3>2, <3>3, Zenon
  <2>4. /\ \A d \in CPU : cpu'[d] = "off" => stack'[d] = None
        /\ \A d \in CPU : state'[Idle[d]] = "RUNNING" /\ mem'[Idle[d]] = "live"
    <3>1. /\ \A d \in CPU : cpu[d] = "off" => stack[d] = None
          /\ \A d \in CPU : state[Idle[d]] = "RUNNING" /\ mem[Idle[d]] = "live"
      BY <1>0, ZenonT(40) DEF CurrentInv
    <3>2. ASSUME NEW d \in CPU, cpu'[d] = "off" PROVE stack'[d] = None
      <4>1. cpu'[d] = cpu[d]
        BY <1>f, <3>2, Zenon
      <4>. QED BY <1>u, <3>1, <3>2, <4>1, Zenon
    <3>3. \A d \in CPU : state'[Idle[d]] = "RUNNING" /\ mem'[Idle[d]] = "live"
      BY <1>m, <1>t, <3>1
    <3>. QED BY <3>2, <3>3, Zenon
  <2>. QED BY <1>u, <2>1, <2>2, <2>3, <2>4, ZenonT(40) DEF CurrentInv, Cur
<1>5. CallInv'
  <2>1. \A t \in Thread : state[t] \in {"READY", "BLOCKED"} => state'[t] = state[t] /\ mem'[t] = mem[t]
    BY <1>m, Zenon
  <2>2. \A u \in Thread : InCall(u)' => InCall(u) /\ pc'[u] = pc[u]
    BY Zenon DEF InCall
  <2>3. ASSUME NEW u \in Thread, InCall(u)
        PROVE  /\ arg[u] \in Thread /\ state[arg[u]] \in {"READY", "BLOCKED"}
               /\ pc[u] = "add" => ~InRq(arg[u])
    <3>1. CASE pc[u] = "add"
      BY <1>0, <1>t, <3>1, Zenon DEF CallInv
    <3>2. CASE pc[u] \in {"wake", "ready"}
      BY <1>0, <1>t, <3>2, Zenon DEF CallInv
    <3>. QED BY <2>3, <3>1, <3>2, Zenon DEF InCall
  <2>4. \A t \in waiting : t \in Thread /\ state[t] = "BLOCKED"
    BY <1>0, <1>t, Zenon DEF CallInv
  <2>5. \A u \in Thread : InCall(u) /\ pc[u] = "add" => ~\E i \in 1..Len(rq') : rq'[i] = arg[u]
    BY <1>u, <2>3, ZenonT(40) DEF InRq
  <2>. QED BY <1>0, <1>u, <2>1, <2>2, <2>3, <2>4, <2>5, CallFrame, ZenonT(40)
<1>6. ReapInv'
  <2>1. \A t \in Thread : mem'[t] = "none" => t \in Worker /\ state'[t] = "READY"
    <3>1. \A t \in Thread : mem'[t] = "none" => mem[t] = "none"
      BY <1>g, Zenon
    <3>2. \A t \in Thread : mem[t] = "none" => t \in Worker /\ state[t] = "READY"
      BY <1>0, Zenon DEF ReapInv
    <3>. QED BY <3>1, <3>2, Zenon
  <2>2. \A t \in Thread : mem'[t] = "freed" => t \in Worker /\ state'[t] = "DEAD"
    <3>1. \A t \in Thread : mem[t] = "freed" => t \in Worker /\ state[t] = "DEAD"
      BY <1>0, Zenon DEF ReapInv
    <3>2. \A t \in Thread : mem'[t] = "freed" => t \in Worker /\ state[t] = "DEAD"
      BY <1>g, <1>w, <3>1, ZenonT(40)
    <3>. QED BY <3>2, Zenon
  <2>3. ASSUME NEW d \in CPU, reap_pending'[d] # None
        PROVE  /\ reap_pending'[d] \in Worker /\ state'[reap_pending'[d]] = "DEAD"
               /\ mem'[reap_pending'[d]] = "live" /\ ~on_cpu'[reap_pending'[d]]
    <3>1. d # c /\ reap_pending'[d] = reap_pending[d] /\ reap_pending[d] # reap_pending[c]
      <4>1. d # c /\ reap_pending'[d] = reap_pending[d]
        BY <1>f, <2>3, Zenon
      <4>. QED BY <1>0, <2>3, <4>1, Zenon DEF ReapInv
    <3>2. /\ reap_pending[d] \in Worker /\ state[reap_pending[d]] = "DEAD"
          /\ mem[reap_pending[d]] = "live" /\ ~on_cpu[reap_pending[d]]
      BY <1>0, <2>3, <3>1, Zenon DEF ReapInv
    <3>3. reap_pending[d] \in Thread /\ mem'[reap_pending[d]] = "live"
      BY <1>g, <1>t, <3>1, <3>2, Zenon
    <3>4. state'[reap_pending[d]] = "DEAD"
      BY <3>2, <3>3, Zenon
    <3>. QED BY <1>u, <3>1, <3>2, <3>3, <3>4, Zenon
  <2>4. \A d, e \in CPU : reap_pending'[d] # None /\ reap_pending'[d] = reap_pending'[e] => d = e
    <3>1. \A d, e \in CPU : reap_pending[d] # None /\ reap_pending[d] = reap_pending[e] => d = e
      BY <1>0, Zenon DEF ReapInv
    <3>2. \A d \in CPU : reap_pending'[d] # None => d # c /\ reap_pending'[d] = reap_pending[d]
      BY <1>f, Zenon
    <3>. TAKE d, e \in CPU
    <3>. HAVE reap_pending'[d] # None /\ reap_pending'[d] = reap_pending'[e]
    <3>3. reap_pending'[d] = reap_pending[d] /\ reap_pending'[e] = reap_pending[e]
      BY <3>2, Zenon
    <3>. QED BY <3>1, <3>3, Zenon
  <2>5. \A d \in CPU : cpu'[d] = "isr" => reap_pending'[d] = None
    BY <1>0, <1>f, SMTT(40) DEF ReapInv
  <2>. QED BY <2>1, <2>2, <2>3, <2>4, <2>5, Zenon DEF ReapInv
<1>7. ContextInv'
  <2>1. ASSUME NEW t \in Worker, mem'[t] = "live", ~on_cpu'[t]
        PROVE  saved'[t]
    <3>1. t \in Thread /\ mem[t] = "live"
      BY <1>g, <1>t, <2>1, Zenon
    <3>2. ~on_cpu[t]
      BY <1>u, <2>1, Zenon
    <3>3. saved[t]
      BY <1>0, <3>1, <3>2, Zenon DEF ContextInv
    <3>. QED BY <1>s, <3>1, <3>3, ZenonT(40)
  <2>2. saved'[Cur(c)] /\ \A t \in Thread : saved[t] => saved'[t]
    BY <1>s, ZenonT(40)
  <2>3. \A d \in CPU : /\ Cur(d)' = Cur(d) /\ Idle[d] \in Thread
                       /\ cpu[d] # "off" => Cur(d) \in Thread
    BY <1>u, <1>t, CurFacts, Zenon DEF Cur
  <2>4. \A d \in CPU : /\ cpu'[d] = "isr" => d = c \/ cpu[d] = "isr"
                       /\ cpu'[d] = "switch" => cpu[d] = "switch"
                       /\ cpu'[d] # "off" => cpu[d] # "off"
    <3>1. "isr" # "switch"
      OBVIOUS
    <3>. QED BY <1>f, <3>1, Zenon
  <2>5. ASSUME NEW d \in CPU, cpu'[d] = "isr" PROVE saved'[Cur(d)']
    <3>1. Cur(d)' = Cur(d)
      BY <2>3, Zenon
    <3>2. CASE d = c
      BY <2>2, <3>1, <3>2, Zenon
    <3>3. CASE cpu[d] = "isr"
      <4>1. saved[Cur(d)] /\ "isr" # "off"
        BY <1>0, <3>3, Zenon DEF ContextInv
      <4>2. Cur(d) \in Thread
        BY <2>3, <3>3, <4>1, Zenon
      <4>. QED BY <2>2, <3>1, <4>1, <4>2, Zenon
    <3>. QED BY <2>4, <2>5, <3>2, <3>3, Zenon
  <2>6. ASSUME NEW d \in CPU, cpu'[d] = "switch" PROVE saved'[Cur(d)'] \/ (d = Bsp /\ Cur(d)' = Idle[Bsp])
    <3>1. Cur(d)' = Cur(d) /\ cpu[d] = "switch" /\ "switch" # "off"
      BY <2>3, <2>4, <2>6, Zenon
    <3>2. saved[Cur(d)] \/ (d = Bsp /\ Cur(d) = Idle[Bsp])
      BY <1>0, <3>1, Zenon DEF ContextInv
    <3>3. Cur(d) \in Thread
      BY <2>3, <3>1, Zenon
    <3>. QED BY <2>2, <3>1, <3>2, <3>3, Zenon
  <2>7. ASSUME NEW d \in CPU, d # Bsp, cpu'[d] # "off", Cur(d)' # Idle[d] PROVE saved'[Idle[d]]
    <3>1. Cur(d)' = Cur(d) /\ cpu[d] # "off" /\ Idle[d] \in Thread
      BY <2>3, <2>4, <2>7, Zenon
    <3>2. saved[Idle[d]]
      BY <1>0, <2>7, <3>1, Zenon DEF ContextInv
    <3>. QED BY <2>2, <3>1, <3>2, Zenon
  <2>. QED BY ONLY <2>1, <2>5, <2>6, <2>7, Zenon DEF ContextInv
<1>8. NoThreadLost'
  <2>1. \A t \in Worker \ {Cur(c)} : mem'[t] = "live" =>
          /\ mem[t] = "live" /\ state'[t] = state[t] /\ t # reap_pending[c]
          /\ \A d \in CPU : reap_pending[d] = t => reap_pending'[d] = t
    <3>. SUFFICES ASSUME NEW t \in Worker \ {Cur(c)}, mem'[t] = "live"
                  PROVE  /\ mem[t] = "live" /\ state'[t] = state[t] /\ t # reap_pending[c]
                         /\ \A d \in CPU : reap_pending[d] = t => reap_pending'[d] = t
      BY Zenon
    <3>1. t \in Thread /\ t # Cur(c) /\ "live" # "freed"
      BY <1>t
    <3>2. t # reap_pending[c] /\ mem[t] = "live"
      BY <1>g, <3>1, Zenon
    <3>3. state'[t] = state[t]
      BY <3>1, Zenon
    <3>. QED BY <1>f, <3>2, <3>3, Zenon
  <2>2. \A u \in Thread : InCall(u) => pc'[u] = pc[u] /\ arg'[u] = arg[u]
    BY <1>u, ZenonT(40) DEF InCall
  <2>3. PICK x \in Thread : x = Cur(c)
    BY <1>c, Zenon
  <2>4. state[x] # "READY" /\ mem[x] = "live" /\ state'[x] # "READY" /\ on_cpu'[x]
    BY <1>c, <1>u, <2>3, CurFacts, ZenonT(40)
  <2>5. ASSUME x \in Worker, state'[x] = "BLOCKED" PROVE x \in waiting \/ Waking(x)
    <3>1. state[x] = "BLOCKED"
      BY <2>5, Zenon
    <3>2. x \in waiting \/ Waking(x) \/ Sleeping(x)
      BY <1>0, <2>4, <2>5, <3>1, Zenon DEF NoThreadLost
    <3>3. ~Sleeping(x)
      <4>1. Len(sleepq) = 0
        BY <1>0, Zenon DEF NoSleepers
      <4>. QED BY <4>1, SMTT(40) DEF Sleeping
    <3>. QED BY <3>2, <3>3, Zenon
  <2>6. Waking(x) => Waking(x)'
    BY <2>2, Zenon DEF Waking, InCall
  <2>7. \A t \in Worker \ {x} : mem'[t] = "live" =>
          /\ mem[t] = "live" /\ state'[t] = state[t]
          /\ InRq(t) => InRq(t)'
          /\ on_cpu[t] => on_cpu'[t]
          /\ t \in waiting => t \in waiting'
          /\ \A d \in CPU : reap_pending[d] = t => reap_pending'[d] = t
    BY <1>u, <1>t, <1>3, <2>1, <2>3, ZenonT(40)
  <2>8. /\ x \in Worker /\ state'[x] = "BLOCKED" => x \in waiting' \/ Waking(x)'
        /\ state'[x] # "READY" /\ on_cpu'[x]
    BY <1>u, <2>4, <2>5, <2>6, Zenon
  <2>9. \A u \in Thread : InCall(u) => arg[u] = x \/ (pc'[u] = pc[u] /\ arg'[u] = arg[u])
    BY <2>2, Zenon
  <2>10. x \in Worker /\ mem'[x] = "live" =>
           /\ state'[x] = "READY" => InRq(x)' \/ Adding(x)'
           /\ state'[x] = "RUNNING" => on_cpu'[x]
           /\ state'[x] = "BLOCKED" => x \in waiting' \/ Waking(x)' \/ Sleeping(x)'
           /\ state'[x] = "DEAD" => on_cpu'[x] \/ \E d \in CPU : reap_pending'[d] = x
    BY <2>8, Zenon
  <2>11. NoThreadLost /\ NoSleepers
    BY <1>0, Zenon
  <2>. QED BY ONLY <2>7, <2>9, <2>10, <2>11, LostFrame, Zenon
<1>. QED BY <1>1, <1>2, <1>3, <1>4, <1>5, <1>6, <1>7, <1>8, Zenon DEF SchedInv

(* The timer strikes. *)
LEMMA TimerInv ==
  ASSUME SchedInv, NEW c \in CPU, Timer(c)
  PROVE  SchedInv'
<1>1. state \in [Thread -> ThreadStates] /\ pc \in [Thread -> PcValues]
  BY Zenon DEF SchedInv, TypeOK
<1>. QED BY <1>1, IsrInv, Zenon DEF Timer

(* A blocking sequence ends in its int $0x20. *)
LEMMA YieldInv ==
  ASSUME SchedInv, NEW c \in CPU, Yield(c)
  PROVE  SchedInv'
<1>1. TypeOK /\ At(c, "window") /\ cpu[c] = "run" /\ pc' = [pc EXCEPT ![Cur(c)] = "run"]
      /\ state' = state /\ EnterIsr(c)
  BY Zenon DEF SchedInv, Yield, At
<1>2. Cur(c) \in Thread /\ pc[Cur(c)] = "window"
  BY <1>1, AtFacts, Zenon
<1>3. /\ state' \in [Thread -> ThreadStates] /\ pc' \in [Thread -> PcValues]
      /\ \A u \in Thread : pc'[u] = pc[u] \/ (u = Cur(c) /\ pc[u] = "window" /\ pc'[u] = "run")
  BY <1>1, <1>2, Zenon DEF TypeOK, PcValues
<1>. QED BY <1>1, <1>3, IsrInv, Zenon

(* thread_exit. *)
LEMMA ExitInv ==
  ASSUME SchedInv, NEW c \in CPU, ThreadExit(c)
  PROVE  SchedInv'
<1>1. TypeOK /\ At(c, "run") /\ cpu[c] = "run" /\ state' = [state EXCEPT ![Cur(c)] = "DEAD"]
      /\ pc' = pc /\ EnterIsr(c)
  BY Zenon DEF SchedInv, ThreadExit, At
<1>2. Cur(c) \in Thread /\ Cur(c) \in Worker /\ state[Cur(c)] = "RUNNING"
  BY <1>1, AtFacts, Zenon
<1>3. /\ state' \in [Thread -> ThreadStates] /\ pc' \in [Thread -> PcValues]
      /\ \A t \in Thread : \/ state'[t] = state[t]
                           \/ /\ t = Cur(c) /\ t \in Worker
                              /\ state[t] = "RUNNING" /\ state'[t] = "DEAD"
  BY <1>1, <1>2, Zenon DEF TypeOK, ThreadStates
<1>. QED BY <1>1, <1>3, IsrInv, Zenon

(* A CPU leaves the old stack. *)
LEMMA SwitchInv ==
  ASSUME SchedInv, NEW c \in CPU, SwitchStack(c)
  PROVE  SchedInv'
<1>0. TypeOK /\ NoSleepers /\ QueueInv /\ CurrentInv /\ CallInv /\ ReapInv /\ ContextInv /\ NoThreadLost
  BY Zenon DEF SchedInv
<1>u. UNCHANGED <<state, on_cpu, mem, rq, rq_lock, sleepq, left, cpu_current, reap_pending, pc, arg,
                  waiting>>
  BY Zenon DEF SwitchStack, queueVars, callVars
<1>t. /\ Worker \subseteq Thread /\ None \notin Thread /\ Bsp \in CPU /\ Idle \in [CPU -> Thread]
      /\ \A d \in CPU : Idle[d] \in Thread /\ Idle[d] \notin Worker
  BY SchedConstants, Zenon DEF Worker, IdleThreads
<1>c. /\ cpu[c] = "switch" /\ Cur(c) \in Thread /\ cpu_current[c] = Cur(c) /\ Cur(c) # None
      /\ on_cpu[Cur(c)]
  BY CurFacts, Zenon DEF SwitchStack
<1>f. /\ stack'[c] = Cur(c) /\ saved'[Cur(c)] = FALSE
      /\ \A d \in CPU \ {c} : stack'[d] = stack[d]
      /\ \A t \in Thread \ {Cur(c)} : saved'[t] = saved[t]
      /\ stack' \in [CPU -> Thread \cup {None}] /\ saved' \in [Thread -> BOOLEAN]
  BY <1>0, <1>c, Zenon DEF SwitchStack, TypeOK
<1>p. /\ cpu' \in [CPU -> Phases] /\ cpu'[c] \in {"run", "wild"}
      /\ \A d \in CPU \ {c} : cpu'[d] = cpu[d] \/ (cpu'[d] = "wild" /\ cpu[d] # "off")
  <2>1. \A d \in Clobbered(c) : d = c \/ (d \in CPU /\ stack[d] = Cur(c))
    BY Zenon DEF Clobbered
  <2>2. \A d \in CPU : stack[d] = Cur(c) => cpu[d] # "off"
    BY <1>0, <1>c, Zenon DEF CurrentInv
  <2>3. PICK lost \in SUBSET Clobbered(c) :
          cpu' = [d \in CPU |-> IF d \in lost \/ (d = c /\ ~saved[Cur(c)]) THEN "wild"
                                ELSE IF d = c THEN "run" ELSE cpu[d]]
    BY Zenon DEF SwitchStack
  <2>. QED BY <1>0, <2>1, <2>2, <2>3, Zenon DEF TypeOK, Phases
<1>1. TypeOK'
  <2>1. \A d \in CPU : cpu_current'[d] = None <=> cpu'[d] = "off"
    BY <1>0, <1>u, <1>c, <1>p, ZenonT(40) DEF TypeOK
  <2>. QED BY <1>0, <1>u, <1>f, <1>p, <2>1, Zenon DEF TypeOK
<1>2. NoSleepers'
  BY <1>0, <1>u, Zenon DEF NoSleepers
<1>3. QueueInv' /\ \A t \in Thread : InRq(t)' <=> InRq(t)
  BY <1>0, <1>u, QueueFrame, Zenon
<1>4. CurrentInv'
  <2>1. OneCpuPerThread'
    BY <1>0, <1>u, Zenon DEF CurrentInv, OneCpuPerThread
  <2>2. /\ \A t \in Thread : on_cpu'[t] <=> \E d \in CPU : cpu_current'[d] = t
        /\ \A d, e \in CPU : cpu_current'[d] = Idle[e] => d = e
    BY <1>0, <1>u, ZenonT(40) DEF CurrentInv
  <2>3. ASSUME NEW d \in CPU, cpu'[d] # "off"
        PROVE  /\ state[Cur(d)] # "READY" /\ mem[Cur(d)] = "live"
               /\ cpu'[d] \in {"run", "switch"} /\ pc[Cur(d)] # "window" => state[Cur(d)] = "RUNNING"
               /\ cpu'[d] \in {"run", "isr"} => stack'[d] = Cur(d)
    <3>1. cpu[d] # "off"
      BY <1>c, <1>p, <2>3, Zenon
    <3>2. CASE d = c
      BY <1>0, <1>c, <1>f, <3>2, Zenon DEF CurrentInv
    <3>3. CASE d # c
      BY <1>0, <1>f, <1>p, <2>3, <3>1, <3>3, SMTT(40) DEF CurrentInv
    <3>. QED BY <3>2, <3>3, Zenon
  <2>4. /\ \A d \in CPU : cpu'[d] = "off" => stack'[d] = None
        /\ \A d \in CPU : state'[Idle[d]] = "RUNNING" /\ mem'[Idle[d]] = "live"
    BY <1>0, <1>u, <1>f, <1>p, SMTT(40) DEF CurrentInv
  <2>. QED BY <1>u, <2>1, <2>2, <2>3, <2>4, ZenonT(40) DEF CurrentInv, Cur
<1>5. CallInv'
  <2>1. \A u \in Thread : pc[u] = "add" => ~\E i \in 1..Len(rq') : rq'[i] = arg[u]
    BY <1>0, <1>u, Zenon DEF CallInv, InRq
  <2>. QED BY <1>0, <1>u, <2>1, CallFrame, Zenon DEF InCall
<1>6. ReapInv'
  <2>1. \A d \in CPU : cpu'[d] = "isr" => reap_pending'[d] = None
    BY <1>0, <1>u, <1>p, Zenon DEF ReapInv
  <2>. QED BY <1>0, <1>u, <2>1, Zenon DEF ReapInv
<1>7. ContextInv'
  <2>1. \A d \in CPU \ {c} : Cur(d) # Cur(c) /\ Idle[d] # Cur(c)
    BY <1>0, <1>c, Zenon DEF CurrentInv, OneCpuPerThread, Cur
  <2>2. \A t \in Worker : mem'[t] = "live" /\ ~on_cpu'[t] => saved'[t]
    BY <1>0, <1>u, <1>c, <1>f, <1>t, Zenon DEF ContextInv
  <2>3. \A d \in CPU : Cur(d)' = Cur(d) /\ (cpu[d] # "off" => Cur(d) \in Thread)
    BY <1>u, CurFacts, Zenon DEF Cur
  <2>4. \A d \in CPU : /\ cpu'[d] = "isr" => saved'[Cur(d)]
                       /\ cpu'[d] = "switch" => saved'[Cur(d)] \/ (d = Bsp /\ Cur(d) = Idle[Bsp])
    BY <1>0, <1>f, <1>p, <2>1, <2>3, ZenonT(40) DEF ContextInv
  <2>5. \A d \in CPU : d # Bsp /\ cpu'[d] # "off" /\ Cur(d) # Idle[d] => saved'[Idle[d]]
    <3>. SUFFICES ASSUME NEW d \in CPU, d # Bsp, cpu'[d] # "off", Cur(d) # Idle[d]
         PROVE  saved'[Idle[d]]
      BY Zenon
    <3>1. cpu[d] # "off" /\ Idle[d] # Cur(c)
      BY <1>c, <1>p, <2>1, Zenon
    <3>. QED BY <1>0, <1>f, <1>t, <3>1, Zenon DEF ContextInv
  <2>. QED BY <2>2, <2>3, <2>4, <2>5, Zenon DEF ContextInv
<1>8. NoThreadLost'
  BY <1>0, <1>u, <1>3, <1>t, LostFrame, Zenon
<1>. QED BY <1>1, <1>2, <1>3, <1>4, <1>5, <1>6, <1>7, <1>8, Zenon DEF SchedInv

(* rq_add puts one thread at the tail. *)
LEMMA AppendFacts ==
  ASSUME NEW s \in Seq(Thread), NEW x \in Thread
  PROVE  /\ Append(s, x) \in Seq(Thread) /\ Len(Append(s, x)) = Len(s) + 1
         /\ Append(s, x)[Len(s) + 1] = x
         /\ \A i \in 1..Len(s) : Append(s, x)[i] = s[i]
BY SMTT(40)

LEMMA UpToNext ==
  ASSUME NEW n \in Nat, NEW i \in 1..n + 1
  PROVE  i \in 1..n \/ i = n + 1
BY SMTT(40)

LEMMA AppendRq ==
  ASSUME rq \in Seq(Thread), NEW x \in Thread, rq' = Append(rq, x)
  PROVE  /\ rq' \in Seq(Thread)
         /\ \A t \in Thread : InRq(t)' <=> InRq(t) \/ t = x
         /\ RqNoDup /\ ~InRq(x) => RqNoDup'
<1>1. /\ Len(rq) \in Nat /\ Len(rq') = Len(rq) + 1
      /\ \A i \in 1..Len(rq) : rq'[i] = rq[i] /\ rq[i] \in Thread
      /\ rq'[Len(rq) + 1] = x
  OBVIOUS
<1>2. ASSUME NEW t \in Thread PROVE InRq(t)' <=> InRq(t) \/ t = x
  <2>1. ASSUME InRq(t)' PROVE InRq(t) \/ t = x
    BY <1>1, <2>1 DEF InRq
  <2>2. ASSUME InRq(t) PROVE InRq(t)'
    BY <1>1, <2>2 DEF InRq
  <2>3. ASSUME t = x PROVE InRq(t)'
    BY <1>1, <2>3 DEF InRq
  <2>. QED BY <2>1, <2>2, <2>3, Zenon
<1>3. ASSUME RqNoDup, ~InRq(x) PROVE RqNoDup'
  BY <1>1, <1>3 DEF RqNoDup, InRq
<1>. QED BY <1>2, <1>3, SMTT(40)

(* The locked bodies of sched_add and sched_wake: the caller's argument becomes
   READY at the tail of the queue. *)
LEMMA EnqueueInv ==
  ASSUME SchedInv, NEW c \in CPU, At(c, "add") \/ At(c, "ready"),
         rq' = Append(rq, arg[Cur(c)]), rq_lock' = None,
         state' = [state EXCEPT ![arg[Cur(c)]] = "READY"],
         pc' = [pc EXCEPT ![Cur(c)] = "run"], arg' = [arg EXCEPT ![Cur(c)] = None],
         UNCHANGED <<on_cpu, saved, mem, sleepq, left, cpuVars, waiting>>
  PROVE  SchedInv'
<1>0. TypeOK /\ NoSleepers /\ QueueInv /\ CurrentInv /\ CallInv /\ ReapInv /\ ContextInv /\ NoThreadLost
  BY Zenon DEF SchedInv
<1>u. UNCHANGED <<on_cpu, saved, mem, sleepq, left, cpu_current, reap_pending, cpu, stack, waiting>>
  BY Zenon DEF cpuVars
<1>t. /\ Worker \subseteq Thread /\ None \notin Thread /\ Bsp \in CPU /\ Idle \in [CPU -> Thread]
      /\ \A d \in CPU : Idle[d] \in Thread /\ Idle[d] \notin Worker
  BY SchedConstants, Zenon DEF Worker, IdleThreads
<1>c. Cur(c) \in Thread /\ pc[Cur(c)] \in {"add", "ready"}
  BY AtFacts, SMTT(40)
<1>a. PICK a \in Thread : a = arg[Cur(c)]
  BY <1>0, <1>c, <1>t, Zenon DEF CallInv
<1>w. /\ a \in Worker /\ mem[a] = "live" /\ ~InRq(a) /\ a \notin waiting
      /\ state[a] \in {"READY", "BLOCKED"} /\ ~on_cpu[a]
  <2>1. CASE pc[Cur(c)] = "add"
    <3>1. a \in Worker /\ mem[a] = "live" /\ ~InRq(a) /\ state[a] = "READY" /\ a \notin waiting
      BY <1>0, <1>a, <1>c, <2>1, Zenon DEF CallInv
    <3>2. ASSUME NEW d \in CPU, cpu_current[d] = a PROVE FALSE
      <4>1. cpu[d] # "off"
        BY <1>0, <1>t, <3>2, Zenon DEF TypeOK
      <4>2. state[Cur(d)] # "READY" /\ Cur(d) = cpu_current[d]
        BY <4>1, CurFacts, Zenon
      <4>. QED BY <3>1, <3>2, <4>2, Zenon
    <3>. QED BY <1>0, <3>1, <3>2, ZenonT(40) DEF CurrentInv
  <2>2. CASE pc[Cur(c)] = "ready"
    <3>1. a \in Worker /\ mem[a] = "live" /\ state[a] = "BLOCKED" /\ a \notin waiting /\ ~on_cpu[a]
      BY <1>0, <1>a, <1>c, <2>2, Zenon DEF CallInv
    <3>. QED BY <1>0, <3>1, Zenon DEF QueueInv
  <2>. QED BY <1>c, <2>1, <2>2, Zenon
<1>q. /\ rq' \in Seq(Thread) /\ RqNoDup'
      /\ \A t \in Thread : InRq(t)' <=> InRq(t) \/ t = a
  BY <1>0, <1>a, <1>w, AppendRq, Zenon DEF QueueInv, TypeOK
<1>1. TypeOK'
  BY <1>0, <1>u, <1>a, <1>c, <1>q, ZenonT(40) DEF TypeOK, PcValues, ThreadStates
<1>f. /\ state'[a] = "READY" /\ pc'[Cur(c)] = "run"
      /\ \A t \in Thread \ {a} : state'[t] = state[t]
      /\ \A u \in Thread \ {Cur(c)} : pc'[u] = pc[u] /\ arg'[u] = arg[u]
  BY <1>0, <1>a, <1>c, Zenon DEF TypeOK
<1>v. \A u \in Thread : /\ InCall(u)' => u # Cur(c) /\ InCall(u)
                        /\ InCall(u) /\ u # Cur(c) => arg[u] # a
  BY <1>0, <1>a, <1>c, <1>f, SMTT(40) DEF InCall, CallInv
<1>2. NoSleepers'
  BY <1>0, <1>u, <1>f, <1>c, Zenon DEF NoSleepers
<1>3. QueueInv'
  BY <1>0, <1>u, <1>w, <1>q, <1>f, <1>t, SMTT(40) DEF QueueInv
<1>4. CurrentInv'
  <2>1. ASSUME NEW d \in CPU, cpu[d] # "off"
        PROVE  /\ state'[Cur(d)] # "READY" /\ mem'[Cur(d)] = "live"
               /\ pc'[Cur(d)] # "window" => pc[Cur(d)] # "window" /\ state'[Cur(d)] = state[Cur(d)]
    <3>1. Cur(d) \in Thread /\ Cur(d) # a /\ state[Cur(d)] # "READY" /\ mem[Cur(d)] = "live"
      BY <1>w, <2>1, CurFacts, Zenon
    <3>2. pc'[Cur(d)] # "window" => pc[Cur(d)] # "window"
      BY <1>c, <1>f, <3>1, Zenon
    <3>. QED BY <1>u, <1>f, <3>1, <3>2, Zenon
  <2>2. \A d \in CPU : state'[Idle[d]] = "RUNNING" /\ mem'[Idle[d]] = "live"
    BY <1>0, <1>u, <1>w, <1>f, <1>t, SMTT(40) DEF CurrentInv
  <2>. QED BY <1>0, <1>u, <2>1, <2>2, CurrentFrame, Zenon
<1>5. CallInv'
  <2>1. ASSUME NEW u \in Thread, InCall(u)'
        PROVE  /\ InCall(u) /\ pc'[u] = pc[u] /\ arg'[u] = arg[u]
               /\ state'[arg[u]] = state[arg[u]]
               /\ pc[u] = "add" => ~\E i \in 1..Len(rq') : rq'[i] = arg[u]
    <3>1. InCall(u) /\ pc'[u] = pc[u] /\ arg'[u] = arg[u] /\ arg[u] # a
      BY <1>v, <1>f, <2>1, Zenon
    <3>2. arg[u] \in Thread /\ (pc[u] = "add" => ~InRq(arg[u]))
      BY <1>0, <1>t, <3>1, Zenon DEF CallInv, InCall
    <3>3. pc[u] = "add" => ~\E i \in 1..Len(rq') : rq'[i] = arg[u]
      BY <1>q, <3>1, <3>2, Zenon DEF InRq
    <3>. QED BY <1>f, <3>1, <3>2, <3>3, Zenon
  <2>2. \A t \in waiting : state'[t] = state[t]
    BY <1>0, <1>w, <1>f, <1>t, ZenonT(40) DEF CallInv
  <2>. QED BY <1>0, <1>u, <2>1, <2>2, CallFrame, ZenonT(40)
<1>6. ReapInv'
  <2>1. \A t \in Thread : /\ mem'[t] = "none" => mem[t] = "none" /\ state'[t] = state[t]
                          /\ state[t] = "DEAD" => state'[t] = "DEAD"
    BY <1>u, <1>w, <1>f, Zenon
  <2>. QED BY <1>0, <1>u, <1>t, <2>1, ReapFrame, Zenon
<1>7. ContextInv'
  BY <1>0, <1>u, <1>t, ContextFrame, CurIsThread, Zenon
<1>8. NoThreadLost'
  <2>1. \A u \in Thread : InCall(u) => arg[u] = a \/ (pc'[u] = pc[u] /\ arg'[u] = arg[u])
    BY <1>a, <1>f, Zenon
  <2>2. \A t \in Worker \ {a} : mem'[t] = "live" =>
          /\ mem[t] = "live" /\ state'[t] = state[t]
          /\ InRq(t) => InRq(t)'
          /\ on_cpu[t] => on_cpu'[t]
          /\ t \in waiting => t \in waiting'
          /\ \A d \in CPU : reap_pending[d] = t => reap_pending'[d] = t
    BY <1>u, <1>q, <1>f, <1>t, Zenon
  <2>3. state'[a] = "READY" /\ InRq(a)'
    BY <1>q, <1>f, Zenon
  <2>. QED BY <1>0, <2>1, <2>2, <2>3, LostFrame, Zenon
<1>. QED BY <1>1, <1>2, <1>3, <1>4, <1>5, <1>6, <1>7, <1>8, Zenon DEF SchedInv

(* sched_add: its argument is READY already. *)
LEMMA AddInv ==
  ASSUME SchedInv, NEW c \in CPU, SchedAdd(c)
  PROVE  SchedInv'
<1>1. At(c, "add") /\ TypeOK /\ CallInv
  BY Zenon DEF SchedInv, SchedAdd
<1>2. Cur(c) \in Thread /\ pc[Cur(c)] = "add"
  BY <1>1, AtFacts, ZenonT(40)
<1>3. state[arg[Cur(c)]] = "READY"
  BY <1>1, <1>2, Zenon DEF CallInv
<1>4. state' = state
  BY Zenon DEF SchedAdd, threadVars
<1>5. state' = [state EXCEPT ![arg[Cur(c)]] = "READY"]
  BY <1>1, <1>3, <1>4, ZenonT(40) DEF TypeOK
<1>. QED BY <1>1, <1>5, EnqueueInv, Zenon DEF SchedAdd, threadVars

(* sched_wake. *)
LEMMA WakeInv ==
  ASSUME SchedInv, NEW c \in CPU, SchedWake(c)
  PROVE  SchedInv'
BY EnqueueInv, ZenonT(40) DEF SchedWake

(* rq_take removes the head and nothing else. *)
LEMMA TakeHead ==
  ASSUME NEW q \in Seq(Thread), q # <<>>, \A i, j \in 1..Len(q) : q[i] = q[j] => i = j
  PROVE  /\ Head(q) \in Thread /\ \E i \in 1..Len(q) : q[i] = Head(q)
         /\ Tail(q) \in Seq(Thread)
         /\ \A i, j \in 1..Len(Tail(q)) : Tail(q)[i] = Tail(q)[j] => i = j
         /\ \A t \in Thread : (\E i \in 1..Len(Tail(q)) : Tail(q)[i] = t)
                                <=> (\E i \in 1..Len(q) : q[i] = t) /\ t # Head(q)
<1>1. /\ Len(q) \in Nat /\ Len(q) >= 1 /\ Head(q) = q[1] /\ Head(q) \in Thread
      /\ Tail(q) \in Seq(Thread) /\ Len(Tail(q)) = Len(q) - 1
      /\ \A i \in 1..Len(Tail(q)) : Tail(q)[i] = q[i + 1]
  BY SMTT(40)
<1>2. \A i, j \in 1..Len(Tail(q)) : Tail(q)[i] = Tail(q)[j] => i = j
  BY <1>1, SMTT(40)
<1>3. ASSUME NEW t \in Thread
      PROVE  (\E i \in 1..Len(Tail(q)) : Tail(q)[i] = t)
                <=> (\E i \in 1..Len(q) : q[i] = t) /\ t # Head(q)
  <2>1. ASSUME NEW i \in 1..Len(Tail(q)), Tail(q)[i] = t
        PROVE  i + 1 \in 1..Len(q) /\ q[i + 1] = t /\ t # Head(q)
    BY <1>1, <2>1
  <2>2. ASSUME NEW i \in 1..Len(q), q[i] = t, t # Head(q)
        PROVE  i - 1 \in 1..Len(Tail(q)) /\ Tail(q)[i - 1] = t
    BY <1>1, <2>2
  <2>3. (\E i \in 1..Len(Tail(q)) : Tail(q)[i] = t) => (\E i \in 1..Len(q) : q[i] = t) /\ t # Head(q)
    BY <2>1, Zenon
  <2>4. (\E i \in 1..Len(q) : q[i] = t) /\ t # Head(q) => \E i \in 1..Len(Tail(q)) : Tail(q)[i] = t
    BY <2>2, Zenon
  <2>. QED BY <2>3, <2>4, Zenon
<1>4. 1 \in 1..Len(q) /\ q[1] = Head(q)
  BY <1>1
<1>5. \E i \in 1..Len(q) : q[i] = Head(q)
  BY <1>4, Zenon
<1>. QED BY <1>1, <1>2, <1>3, <1>5, ZenonT(40)

(* What the queue part of sched_tick does when nobody sleeps. *)
LEMMA TickRq ==
  ASSUME SchedInv, NEW c \in CPU, SchedTick(c)
  PROVE  /\ rq' \in Seq(Thread) /\ RqNoDup' /\ sleepq' = <<>>
         /\ PickNext(c) \in Thread /\ Cur(c) \in Thread
         /\ \/ PickNext(c) = Idle[c] /\ ~Requeue(c)
            \/ InRq(PickNext(c)) /\ PickNext(c) # Cur(c)
            \/ PickNext(c) = Cur(c) /\ Requeue(c)
         /\ \A t \in Thread : InRq(t)' <=> (InRq(t) \/ (t = Cur(c) /\ Requeue(c))) /\ t # PickNext(c)
         /\ \A t \in Thread : state'[t] = IF t = PickNext(c) THEN "RUNNING"
                                          ELSE IF t = Cur(c) /\ Requeue(c) THEN "READY" ELSE state[t]
<1>0. TypeOK /\ NoSleepers /\ QueueInv /\ CurrentInv /\ cpu[c] = "isr"
  BY Zenon DEF SchedInv, SchedTick
<1>1. Cur(c) \in Thread /\ state[Cur(c)] # "READY"
  BY <1>0, CurIsThread, Zenon DEF CurrentInv
<1>2. ~InRq(Cur(c))
  BY <1>0, <1>1, Zenon DEF QueueInv
<1>3. Expired = <<>> /\ Asleep = <<>>
  BY <1>0, Zenon DEF NoSleepers, Expired, Asleep
<1>4. rq \o <<>> = rq
  BY <1>0, SMTT(40) DEF TypeOK
<1>5. Queued(c) = IF Requeue(c) THEN Append(rq, Cur(c)) ELSE rq
  BY <1>3, <1>4, Zenon DEF Queued
<1> DEFINE q == Queued(c)
<1>6. /\ q \in Seq(Thread) /\ (Requeue(c) => q # <<>>)
      /\ \A i, j \in 1..Len(q) : q[i] = q[j] => i = j
      /\ \A t \in Thread : (\E i \in 1..Len(q) : q[i] = t) <=> InRq(t) \/ (t = Cur(c) /\ Requeue(c))
  <2>1. rq \in Seq(Thread) /\ Len(rq) \in Nat /\ \A i, j \in 1..Len(rq) : rq[i] = rq[j] => i = j
    BY <1>0, SMTT(40) DEF QueueInv, RqNoDup, TypeOK
  <2>2. CASE ~Requeue(c)
    BY <1>5, <2>1, <2>2, Zenon DEF InRq
  <2>3. CASE Requeue(c)
    <3>1. q = Append(rq, Cur(c))
      BY <1>5, <2>3, Zenon
    <3>2. /\ q \in Seq(Thread) /\ Len(q) = Len(rq) + 1 /\ q[Len(rq) + 1] = Cur(c)
          /\ \A i \in 1..Len(rq) : q[i] = rq[i]
      <4>1. /\ Append(rq, Cur(c)) \in Seq(Thread) /\ Len(Append(rq, Cur(c))) = Len(rq) + 1
            /\ Append(rq, Cur(c))[Len(rq) + 1] = Cur(c)
            /\ \A i \in 1..Len(rq) : Append(rq, Cur(c))[i] = rq[i]
        BY <1>1, <2>1, AppendFacts, Zenon
      <4>. QED BY ONLY <3>1, <4>1, Zenon
    <3>3. \A i \in 1..Len(rq) : rq[i] # Cur(c)
      BY <1>2, Zenon DEF InRq
    <3> HIDE DEF q
    <3>4. \A i, j \in 1..Len(q) : q[i] = q[j] => i = j
      <4>. SUFFICES ASSUME NEW i \in 1..Len(q), NEW j \in 1..Len(q), q[i] = q[j] PROVE i = j
        BY Zenon
      <4>1. i \in 1..Len(rq) \/ i = Len(rq) + 1
        BY <2>1, <3>2, UpToNext, Zenon
      <4>2. j \in 1..Len(rq) \/ j = Len(rq) + 1
        BY <2>1, <3>2, UpToNext, Zenon
      <4>. QED BY <2>1, <3>2, <3>3, <4>1, <4>2, Zenon
    <3>5. q # <<>>
      BY <2>1, <3>2, SMTT(40)
    <3>6. \A t \in Thread : (\E i \in 1..Len(q) : q[i] = t) <=> InRq(t) \/ t = Cur(c)
      BY <2>1, <3>2, SMTT(40) DEF InRq
    <3>. QED BY <2>3, <3>2, <3>4, <3>5, <3>6, Zenon
  <2>. QED BY <2>2, <2>3, Zenon
<1>7. /\ PickNext(c) = IF q = <<>> THEN Idle[c] ELSE Head(q)
      /\ rq' = IF q = <<>> THEN <<>> ELSE Tail(q)
      /\ sleepq' = <<>>
  BY <1>3, Zenon DEF SchedTick, PickNext
<1>8. \A t \in Thread : state'[t] = IF t = PickNext(c) THEN "RUNNING"
                                    ELSE IF t = Cur(c) /\ Requeue(c) THEN "READY" ELSE state[t]
  <2>1. \A t \in Thread : ~\E i \in 1..Len(Expired) : Expired[i] = t
    BY <1>3, SMTT(40)
  <2>. QED BY <2>1, Zenon DEF SchedTick
<1> HIDE DEF q
<1>9. CASE q = <<>>
  <2>1. Idle[c] \in Thread /\ ~Requeue(c) /\ PickNext(c) = Idle[c] /\ rq' = <<>> /\ Len(rq') = 0
    BY <1>6, <1>7, <1>9, IdleFacts, Zenon
  <2>2. \A t \in Thread : ~InRq(t) /\ ~InRq(t)'
    <3>1. ~\E i \in 1..Len(q) : TRUE
      BY <1>9, SMTT(40)
    <3>. QED BY <1>6, <2>1, <3>1, SMTT(40) DEF InRq
  <2>3. RqNoDup'
    BY <2>1 DEF RqNoDup
  <2>4. rq' \in Seq(Thread)
    BY <2>1, SMTT(40)
  <2>. QED BY <1>1, <1>7, <1>8, <2>1, <2>2, <2>3, <2>4, Zenon
<1>10. CASE q # <<>>
  <2>1. /\ Head(q) \in Thread /\ \E i \in 1..Len(q) : q[i] = Head(q)
        /\ Tail(q) \in Seq(Thread)
        /\ \A i, j \in 1..Len(Tail(q)) : Tail(q)[i] = Tail(q)[j] => i = j
        /\ \A t \in Thread : (\E i \in 1..Len(Tail(q)) : Tail(q)[i] = t)
                               <=> (\E i \in 1..Len(q) : q[i] = t) /\ t # Head(q)
    BY <1>6, <1>10, TakeHead, Zenon
  <2>2. PickNext(c) = Head(q) /\ rq' = Tail(q)
    BY <1>7, <1>10, Zenon
  <2>3. RqNoDup'
    BY <2>1, <2>2, ZenonT(40) DEF RqNoDup
  <2>4. \A t \in Thread : InRq(t)' <=> (InRq(t) \/ (t = Cur(c) /\ Requeue(c))) /\ t # PickNext(c)
    <3>1. \A t \in Thread : InRq(t)' <=> \E i \in 1..Len(Tail(q)) : Tail(q)[i] = t
      BY <2>2, Zenon DEF InRq
    <3>. QED BY <1>6, <2>1, <2>2, <3>1, Zenon
  <2>5. InRq(PickNext(c)) \/ (PickNext(c) = Cur(c) /\ Requeue(c))
    BY <1>6, <2>1, <2>2, Zenon
  <2>. QED BY <1>1, <1>2, <1>7, <1>8, <2>1, <2>2, <2>3, <2>4, <2>5, ZenonT(40)
<1>. QED BY <1>9, <1>10, Zenon

----------------------------------------------------------------------------
(* The rq_lock section of sched_tick. *)
LEMMA TickInv ==
  ASSUME SchedInv, NEW c \in CPU, SchedTick(c)
  PROVE  SchedInv'
<1>0. TypeOK /\ NoSleepers /\ QueueInv /\ CurrentInv /\ CallInv /\ ReapInv /\ ContextInv /\ NoThreadLost
  BY Zenon DEF SchedInv
<1>t. /\ Worker \subseteq Thread /\ None \notin Thread /\ Bsp \in CPU /\ Idle \in [CPU -> Thread]
      /\ \A d \in CPU : Idle[d] \in Thread /\ Idle[d] \notin Worker
      /\ \A t \in Thread : t \in Worker \/ \E d \in CPU : t = Idle[d]
      /\ \A d, e \in CPU : Idle[d] = Idle[e] => d = e
  BY SchedConstants, Zenon DEF Worker, IdleThreads
<1>a. /\ rq' \in Seq(Thread) /\ RqNoDup' /\ sleepq' = <<>>
      /\ PickNext(c) \in Thread /\ Cur(c) \in Thread
      /\ \/ PickNext(c) = Idle[c] /\ ~Requeue(c)
         \/ InRq(PickNext(c)) /\ PickNext(c) # Cur(c)
         \/ PickNext(c) = Cur(c) /\ Requeue(c)
      /\ \A t \in Thread : InRq(t)' <=> (InRq(t) \/ (t = Cur(c) /\ Requeue(c))) /\ t # PickNext(c)
      /\ \A t \in Thread : state'[t] = IF t = PickNext(c) THEN "RUNNING"
                                       ELSE IF t = Cur(c) /\ Requeue(c) THEN "READY" ELSE state[t]
  BY TickRq, Zenon
<1>b. /\ cpu[c] = "isr" /\ cpu' = [cpu EXCEPT ![c] = "switch"]
      /\ reap_pending' = [reap_pending EXCEPT ![c] = IF state[Cur(c)] = "DEAD" THEN Cur(c) ELSE @]
      /\ cpu_current' = [cpu_current EXCEPT ![c] = PickNext(c)]
      /\ state' \in [Thread -> ThreadStates] /\ left' \in [Thread -> Nat]
  BY <1>0, SMTT(40) DEF SchedTick, TypeOK, ThreadStates
<1>u. UNCHANGED <<saved, mem, rq_lock, stack, pc, arg, waiting>>
  BY Zenon DEF SchedTick, callVars
<1>x. PICK cur \in Thread, next \in Thread : cur = Cur(c) /\ next = PickNext(c)
  BY <1>a, Zenon
<1>e. /\ \A t \in Thread : state'[t] = IF t = next THEN "RUNNING"
                                       ELSE IF t = cur /\ Requeue(c) THEN "READY" ELSE state[t]
      /\ \A t \in Thread : InRq(t)' <=> (InRq(t) \/ (t = cur /\ Requeue(c))) /\ t # next
  BY <1>a, <1>x, Zenon
<1>r. /\ cpu'[c] = "switch" /\ cpu_current'[c] = next /\ cpu_current[c] = cur
      /\ reap_pending'[c] = IF state[cur] = "DEAD" THEN cur ELSE reap_pending[c]
      /\ \A d \in CPU \ {c} : /\ cpu'[d] = cpu[d] /\ cpu_current'[d] = cpu_current[d]
                              /\ reap_pending'[d] = reap_pending[d]
  BY <1>0, <1>b, <1>x, Zenon DEF TypeOK, Cur
<1>s. /\ \A t \in Thread : on_cpu'[t] <=> t = next \/ (t # cur /\ on_cpu[t])
      /\ on_cpu' \in [Thread -> BOOLEAN]
  <2>1. on_cpu' = [t \in Thread |-> IF t = next THEN TRUE ELSE IF t = cur THEN FALSE ELSE on_cpu[t]]
    BY <1>x, Zenon DEF SchedTick
  <2>2. on_cpu \in [Thread -> BOOLEAN]
    BY <1>0, Zenon DEF TypeOK
  <2>. QED BY <2>1, <2>2, Zenon
<1>d. /\ on_cpu[cur] /\ state[cur] # "READY" /\ mem[cur] = "live"
      /\ reap_pending[c] = None /\ saved[cur]
  <2>1. on_cpu[cur] /\ state[cur] # "READY" /\ mem[cur] = "live"
    BY <1>b, <1>x, CurFacts, ZenonT(40)
  <2>2. reap_pending[c] = None /\ saved[cur]
    BY <1>0, <1>b, <1>x, Zenon DEF ReapInv, ContextInv
  <2>. QED BY <2>1, <2>2, ZenonT(40)
<1>g. Requeue(c) <=> cur \in Worker /\ state[cur] = "RUNNING"
  BY <1>x, Zenon DEF Requeue
<1>n. /\ mem[next] = "live"
      /\ \/ next = Idle[c] /\ ~Requeue(c) /\ state[next] = "RUNNING"
         \/ next \in Worker /\ state[next] = "READY" /\ InRq(next) /\ next # cur
         \/ next = cur /\ Requeue(c)
  <2>1. CASE next = Idle[c] /\ ~Requeue(c)
    BY <1>0, <2>1, Zenon DEF CurrentInv
  <2>2. CASE InRq(next) /\ next # cur
    BY <1>0, <2>2, Zenon DEF QueueInv
  <2>3. CASE next = cur /\ Requeue(c)
    BY <1>d, <2>3, Zenon
  <2>. QED BY <1>a, <1>x, <2>1, <2>2, <2>3, Zenon
<1>o. \A d \in CPU \ {c} : cpu_current[d] # next /\ cpu_current[d] # cur
  <2>1. \A d \in CPU \ {c} : cpu_current[d] # cur
    BY <1>0, <1>r, <1>t, SMTT(40) DEF CurrentInv, OneCpuPerThread
  <2>2. ASSUME NEW d \in CPU \ {c}, cpu_current[d] = next PROVE FALSE
    <3>1. cpu[d] # "off" /\ next # None
      BY <1>0, <1>t, <2>2, Zenon DEF TypeOK
    <3>2. state[next] # "READY"
      BY <2>2, <3>1, CurFacts, ZenonT(40)
    <3>3. next # Idle[c]
      BY <1>0, <2>2, ZenonT(60) DEF CurrentInv
    <3>. QED BY <1>n, <2>1, <2>2, <3>2, <3>3, Zenon
  <2>. QED BY <2>1, <2>2, Zenon
<1>1. TypeOK'
  <2>1. sleepq' \in Seq(Thread) /\ rq' \in Seq(Thread)
    BY <1>a, SMTT(40)
  <2>2. /\ cpu' \in [CPU -> Phases]
        /\ cpu_current' \in [CPU -> Thread \cup {None}] /\ reap_pending' \in [CPU -> Thread \cup {None}]
    BY <1>0, <1>b, <1>x, Zenon DEF TypeOK, Phases
  <2>3. \A d \in CPU : cpu_current'[d] = None <=> cpu'[d] = "off"
    <3>1. \A d \in CPU : cpu_current[d] = None <=> cpu[d] = "off"
      BY <1>0, Zenon DEF TypeOK
    <3>2. next # None
      BY <1>t, Zenon
    <3>. QED BY <1>r, <3>1, <3>2, Zenon
  <2>. QED BY <1>0, <1>b, <1>s, <1>u, <2>1, <2>2, <2>3, ZenonT(40) DEF TypeOK
<1>2. NoSleepers'
  BY <1>0, <1>a, <1>u, Zenon DEF NoSleepers
<1>3. QueueInv'
  <2>1. ASSUME NEW t \in Thread, InRq(t)'
        PROVE  t \in Worker /\ state'[t] = "READY" /\ mem'[t] = "live"
    <3>1. t # next /\ (InRq(t) \/ (t = cur /\ Requeue(c)))
      BY <1>e, <2>1, Zenon
    <3>2. CASE t = cur /\ Requeue(c)
      BY <1>d, <1>e, <1>g, <1>u, <3>1, <3>2, Zenon
    <3>3. CASE InRq(t) /\ t # cur
      BY <1>0, <1>e, <1>u, <3>1, <3>3, Zenon DEF QueueInv
    <3>. QED BY <3>1, <3>2, <3>3, <1>0, <1>d, Zenon DEF QueueInv
  <2>. QED BY <1>a, <2>1, Zenon DEF QueueInv
<1>4. CurrentInv'
  <2>1. OneCpuPerThread'
    BY <1>0, <1>r, <1>o, SMTT(40) DEF CurrentInv, OneCpuPerThread
  <2>2. ASSUME NEW t \in Thread PROVE on_cpu'[t] <=> \E d \in CPU : cpu_current'[d] = t
    <3>1. CASE t = next
      BY <1>r, <1>s, <3>1, Zenon
    <3>2. CASE t = cur /\ t # next
      BY <1>r, <1>s, <1>o, <3>2, SMTT(40)
    <3>3. CASE t # cur /\ t # next
      BY <1>0, <1>r, <1>s, <3>3, SMTT(40) DEF CurrentInv
    <3>. QED BY <3>1, <3>2, <3>3, Zenon
  <2>3. \A b, d \in CPU : cpu_current'[b] = Idle[d] => b = d
    <3>1. \A d \in CPU : next = Idle[d] => c = d
      BY <1>0, <1>g, <1>n, <1>t, SMTT(40)
    <3>. QED BY <1>0, <1>r, <3>1, SMTT(40) DEF CurrentInv
  <2>4. ASSUME NEW d \in CPU, cpu'[d] # "off"
        PROVE  /\ state'[cpu_current'[d]] # "READY" /\ mem'[cpu_current'[d]] = "live"
               /\ cpu'[d] \in {"run", "switch"} /\ pc'[cpu_current'[d]] # "window" =>
                    state'[cpu_current'[d]] = "RUNNING"
               /\ cpu'[d] \in {"run", "isr"} => stack'[d] = cpu_current'[d]
    <3>1. CASE d = c
      BY <1>e, <1>n, <1>r, <1>u, <3>1, Zenon
    <3>2. CASE d # c
      <4>1. cpu[d] # "off" /\ cpu_current'[d] = cpu_current[d] /\ cpu'[d] = cpu[d]
        BY <1>r, <2>4, <3>2, Zenon
      <4>2. cpu_current[d] \in Thread /\ cpu_current[d] # next /\ cpu_current[d] # cur
        BY <1>o, <3>2, <4>1, CurFacts, Zenon
      <4>3. state'[cpu_current[d]] = state[cpu_current[d]]
        BY <1>e, <4>2, Zenon
      <4>. QED BY <1>0, <1>u, <4>1, <4>3, SMTT(40) DEF CurrentInv, Cur
    <3>. QED BY <3>1, <3>2, ZenonT(40)
  <2>5. \A d \in CPU : cpu'[d] = "off" => stack'[d] = None
    BY <1>0, <1>r, <1>u, SMTT(40) DEF CurrentInv
  <2>6. \A d \in CPU : state'[Idle[d]] = "RUNNING" /\ mem'[Idle[d]] = "live"
    BY <1>0, <1>e, <1>g, <1>u, <1>t, SMTT(40) DEF CurrentInv
  <2>. QED BY <2>1, <2>2, <2>3, <2>4, <2>5, <2>6, Zenon DEF CurrentInv, Cur
<1>5. CallInv'
  <2>1. ASSUME NEW t \in Worker, state[t] = "BLOCKED"
        PROVE  state'[t] = "BLOCKED" /\ (~on_cpu[t] => ~on_cpu'[t])
    BY <1>e, <1>g, <1>n, <1>s, <1>t, <2>1, Zenon
  <2>2. ASSUME NEW t \in Worker, state[t] = "READY", ~InRq(t)
        PROVE  state'[t] = "READY" /\ ~InRq(t)' /\ (~on_cpu[t] => ~on_cpu'[t])
    BY <1>d, <1>e, <1>g, <1>n, <1>s, <1>t, <2>2, Zenon
  <2>3. ASSUME NEW u \in Thread, InCall(u)
        PROVE  /\ state'[arg[u]] = state[arg[u]]
               /\ ~on_cpu[arg[u]] => ~on_cpu'[arg[u]]
               /\ pc[u] = "add" => ~\E i \in 1..Len(rq') : rq'[i] = arg[u]
    <3>1. CASE pc[u] = "add"
      <4>1. arg[u] \in Worker /\ state[arg[u]] = "READY" /\ ~InRq(arg[u])
        BY <1>0, <3>1, Zenon DEF CallInv
      <4>. QED BY <4>1, <2>2, Zenon DEF InRq
    <3>2. CASE pc[u] \in {"wake", "ready"}
      <4>1. arg[u] \in Worker /\ state[arg[u]] = "BLOCKED"
        BY <1>0, <3>2, Zenon DEF CallInv
      <4>. QED BY <2>1, <3>2, <4>1, Zenon
    <3>. QED BY <2>3, <3>1, <3>2, Zenon DEF InCall
  <2>4. \A t \in waiting : state'[t] = state[t]
    BY <1>0, <2>1, Zenon DEF CallInv
  <2>5. \A u \in Thread : InCall(u)' <=> InCall(u)
    BY <1>u, Zenon DEF InCall
  <2>. QED BY <1>0, <1>u, <2>3, <2>4, <2>5, CallFrame, Zenon
<1>6. ReapInv'
  <2>1. \A t \in Thread : mem[t] = "none" => t \in Worker /\ state'[t] = "READY"
    BY <1>0, <1>d, <1>e, <1>n, Zenon DEF ReapInv
  <2>2. \A t \in Thread : mem[t] = "freed" => t \in Worker /\ state'[t] = "DEAD"
    BY <1>0, <1>d, <1>e, <1>n, SMTT(40) DEF ReapInv
  <2>3. ASSUME NEW d \in CPU, reap_pending[d] # None
        PROVE  /\ d # c /\ reap_pending[d] # cur /\ reap_pending[d] \in Worker
               /\ state'[reap_pending[d]] = "DEAD" /\ mem[reap_pending[d]] = "live"
               /\ ~on_cpu'[reap_pending[d]]
    <3>1. /\ reap_pending[d] \in Worker /\ state[reap_pending[d]] = "DEAD"
          /\ mem[reap_pending[d]] = "live" /\ ~on_cpu[reap_pending[d]]
      BY <1>0, <2>3, Zenon DEF ReapInv
    <3>2. d # c /\ reap_pending[d] # cur /\ reap_pending[d] # next /\ reap_pending[d] \in Thread
      BY <1>d, <1>n, <1>t, <2>3, <3>1, Zenon
    <3>. QED BY <1>e, <1>s, <3>1, <3>2, Zenon
  <2>4. state[cur] = "DEAD" => cur \in Worker /\ cur # next /\ state'[cur] = "DEAD" /\ ~on_cpu'[cur]
    <3>1. state[cur] = "DEAD" => cur \in Worker /\ cur # next
      BY <1>0, <1>g, <1>n, <1>t, ZenonT(40) DEF CurrentInv
    <3>. QED BY <1>e, <1>g, <1>s, <3>1, Zenon
  <2>5. \A d \in CPU : cpu'[d] = "isr" => reap_pending'[d] = None
    BY <1>0, <1>r, ZenonT(40) DEF ReapInv
  <2>6. ASSUME NEW d \in CPU, reap_pending'[d] # None
        PROVE  \/ d = c /\ reap_pending'[d] = cur /\ state[cur] = "DEAD"
               \/ d # c /\ reap_pending'[d] = reap_pending[d] /\ reap_pending[d] # None
    BY <1>d, <1>r, <2>6, Zenon
  <2>7. \A d \in CPU : reap_pending'[d] # None =>
          /\ reap_pending'[d] \in Worker /\ state'[reap_pending'[d]] = "DEAD"
          /\ mem'[reap_pending'[d]] = "live" /\ ~on_cpu'[reap_pending'[d]]
    BY <1>d, <1>u, <2>3, <2>4, <2>6, ZenonT(40)
  <2>8. \A d, e \in CPU : reap_pending'[d] # None /\ reap_pending'[d] = reap_pending'[e] => d = e
    <3>. SUFFICES ASSUME NEW d \in CPU, NEW e \in CPU, reap_pending'[d] # None,
                         reap_pending'[d] = reap_pending'[e]
                  PROVE  d = e
      BY Zenon
    <3>1. reap_pending'[e] # None
      OBVIOUS
    <3>2. CASE d = c /\ e = c
      BY <3>2
    <3>3. CASE d # c /\ e # c
      <4>1. reap_pending'[d] = reap_pending[d] /\ reap_pending'[e] = reap_pending[e] /\ reap_pending[d] # None
        BY <2>6, <3>1, <3>3, Zenon
      <4>. QED BY <1>0, <4>1, Zenon DEF ReapInv
    <3>4. CASE d # c /\ e = c
      BY <2>3, <2>6, <3>1, <3>4, Zenon
    <3>5. CASE d = c /\ e # c
      BY <2>3, <2>6, <3>1, <3>5, Zenon
    <3>. QED BY <3>2, <3>3, <3>4, <3>5, Zenon
  <2>. QED BY <1>u, <2>1, <2>2, <2>5, <2>7, <2>8, Zenon DEF ReapInv
<1>7. ContextInv'
  <2>1. \A t \in Worker : mem'[t] = "live" /\ ~on_cpu'[t] => saved'[t]
    BY <1>0, <1>d, <1>s, <1>u, <1>t, Zenon DEF ContextInv
  <2>2. next \in Worker /\ state[next] = "READY" => saved[next]
    <3>. SUFFICES ASSUME next \in Worker, state[next] = "READY" PROVE saved[next]
      BY Zenon
    <3>1. next # cur
      BY <1>d, Zenon
    <3>2. ~\E d \in CPU : cpu_current[d] = next
      BY <1>o, <1>r, <3>1, Zenon
    <3>. QED BY <1>0, <1>n, <3>2, Zenon DEF ContextInv, CurrentInv
  <2>3. saved[next] \/ (c = Bsp /\ next = Idle[Bsp])
    <3>1. CASE next = Idle[c] /\ next # cur /\ c # Bsp
      BY <1>0, <1>b, <1>x, <3>1, Zenon DEF ContextInv
    <3>. QED BY <1>d, <1>n, <2>2, <3>1, Zenon
  <2>4. c # Bsp /\ next # Idle[c] => saved[Idle[c]]
    BY <1>0, <1>b, <1>d, <1>x, Zenon DEF ContextInv
  <2>. QED BY <1>0, <1>r, <1>u, <2>1, <2>3, <2>4, SMTT(40) DEF ContextInv, Cur
<1>8. NoThreadLost'
  <2>1. \A t \in Worker : (Adding(t) => Adding(t)') /\ (Waking(t) => Waking(t)') /\ ~Sleeping(t)
    BY <1>0, <1>u, SMTT(40) DEF Adding, Waking, Sleeping, NoSleepers
  <2>. SUFFICES ASSUME NEW t \in Worker, mem'[t] = "live"
       PROVE  /\ state'[t] = "READY" => InRq(t)' \/ Adding(t)'
              /\ state'[t] = "RUNNING" => on_cpu'[t]
              /\ state'[t] = "BLOCKED" => t \in waiting' \/ Waking(t)' \/ Sleeping(t)'
              /\ state'[t] = "DEAD" => on_cpu'[t] \/ \E d \in CPU : reap_pending'[d] = t
    BY ZenonT(40) DEF NoThreadLost
  <2>2. /\ t \in Thread
        /\ state[t] = "READY" => InRq(t) \/ Adding(t)
        /\ state[t] = "RUNNING" => on_cpu[t]
        /\ state[t] = "BLOCKED" => t \in waiting \/ Waking(t)
        /\ state[t] = "DEAD" => on_cpu[t] \/ \E d \in CPU : reap_pending[d] = t
    BY <1>0, <1>u, <1>t, <2>1, ZenonT(40) DEF NoThreadLost
  <2>3. CASE t = next
    BY <1>e, <1>s, <2>3, ZenonT(40)
  <2>4. CASE t = cur /\ t # next
    <3>1. CASE Requeue(c)
      BY <1>e, <2>4, <3>1, Zenon
    <3>2. CASE ~Requeue(c)
      BY <1>d, <1>e, <1>g, <1>r, <1>s, <1>u, <2>1, <2>2, <2>4, <3>2, ZenonT(40)
    <3>. QED BY <3>1, <3>2, ZenonT(40)
  <2>5. CASE t # cur /\ t # next
    <3>1. state'[t] = state[t] /\ (on_cpu'[t] <=> on_cpu[t]) /\ (InRq(t)' <=> InRq(t))
          /\ waiting' = waiting
      BY <1>e, <1>s, <1>u, <2>2, <2>5, ZenonT(40)
    <3>2. \A d \in CPU : reap_pending[d] = t => reap_pending'[d] = t
      BY <1>d, <1>r, <1>t, <2>2, SMTT(40)
    <3>. QED BY <2>1, <2>2, <3>1, <3>2, ZenonT(40)
  <2>. QED BY <2>3, <2>4, <2>5, Zenon
<1>. QED BY <1>1, <1>2, <1>3, <1>4, <1>5, <1>6, <1>7, <1>8, Zenon DEF SchedInv

(* Nothing happens. *)
LEMMA StutterInv ==
  ASSUME SchedInv, UNCHANGED vars
  PROVE  SchedInv'
<1>1. UNCHANGED <<threadVars, rq, rq_lock, left, sleepq, cpuVars, callVars>>
  BY Zenon DEF vars, queueVars
<1>2. rq_lock' \in Thread \cup {None}
  BY <1>1, Zenon DEF SchedInv, TypeOK
<1>. QED BY <1>1, <1>2, LockInv, Zenon

(* Thread code takes rq_lock. *)
LEMMA AcquireInv ==
  ASSUME SchedInv, NEW c \in CPU, AcquireRq(c)
  PROVE  SchedInv'
<1>1. rq_lock' \in Thread
  BY AtFacts, Zenon DEF AcquireRq
<1>. QED BY <1>1, LockInv, Zenon DEF AcquireRq

(* Every step of a workload that does not sleep preserves SchedInv. *)
LEMMA NextInv ==
  ASSUME "sleep" \notin Ops, SchedInv, [Next]_vars
  PROVE  SchedInv'
<1>1. CASE UNCHANGED vars
  BY <1>1, StutterInv, Zenon
<1>2. ASSUME NEW c \in CPU, SchedApEnter(c) PROVE SchedInv'
  BY <1>2, ApEnterInv, Zenon
<1>3. ASSUME NEW c \in CPU, ThreadStep(c) PROVE SchedInv'
  <2>1. ~SleepCall(c) /\ \A ms \in SleepTicks : ~SchedSleep(c, ms)
    BY SchedConstants, Zenon DEF SchedInv, NoSleepers, SleepCall, SchedSleep, At, Worker
  <2>. QED BY <1>3, <2>1, CreateInv, AcquireInv, AddInv, BlockInv, WakeCallInv, WakeSpinInv,
              WakeInv, Zenon DEF ThreadStep
<1>4. ASSUME NEW c \in CPU, InterruptStep(c) PROVE SchedInv'
  BY <1>4, TimerInv, YieldInv, ExitInv, TickInv, SwitchInv, Zenon DEF InterruptStep
<1>. QED BY <1>1, <1>2, <1>3, <1>4, Zenon DEF Next

(* SchedInv is an invariant of every workload that does not sleep, whatever the
   number of CPUs and threads. *)
THEOREM SchedInvariant ==
  ASSUME "sleep" \notin Ops
  PROVE  Spec => []SchedInv
<1>1. Init => SchedInv
  BY InitInv, Zenon
<1>2. SchedInv /\ [Next]_vars => SchedInv'
  BY NextInv, Zenon
<1>. QED BY <1>1, <1>2, PTL DEF Spec

(* Every variable of the scheduler keeps its type, and a CPU that has been
   started has a current thread. *)
THEOREM SchedTypeSafe ==
  ASSUME "sleep" \notin Ops
  PROVE  Spec => []TypeOK
<1>1. SchedInv => TypeOK
  BY Zenon DEF SchedInv
<1>. QED BY <1>1, SchedInvariant, PTL

(* sched_tick never gives one thread to two CPUs, thanks to the on_cpu spin of
   sched_wake. *)
THEOREM OneCpuPerThreadHolds ==
  ASSUME "sleep" \notin Ops
  PROVE  Spec => []OneCpuPerThread
<1>1. SchedInv => OneCpuPerThread
  BY Zenon DEF SchedInv, CurrentInv
<1>. QED BY <1>1, SchedInvariant, PTL

(* What SchedInv says of the run queue. *)
LEMMA QueueSound ==
  ASSUME SchedInv
  PROVE  RunQueueSound
<1>1. TypeOK /\ QueueInv /\ CurrentInv /\ ContextInv
  BY Zenon DEF SchedInv
<1>2. ASSUME NEW i \in 1..Len(rq)
      PROVE  /\ rq[i] \in Worker /\ mem[rq[i]] = "live" /\ state[rq[i]] = "READY"
             /\ saved[rq[i]] /\ ~on_cpu[rq[i]]
  <2>1. rq[i] \in Thread /\ InRq(rq[i])
    BY <1>1, SMTT(40) DEF TypeOK, InRq
  <2>2. rq[i] \in Worker /\ mem[rq[i]] = "live" /\ state[rq[i]] = "READY"
    BY <1>1, <2>1, Zenon DEF QueueInv
  <2>3. ~on_cpu[rq[i]]
    BY <1>1, <2>1, <2>2, SchedConstants, SMTT(40) DEF CurrentInv, TypeOK, Cur
  <2>. QED BY <1>1, <2>2, <2>3, Zenon DEF ContextInv
<1>. QED BY <1>1, <1>2, Zenon DEF RunQueueSound, QueueInv, RqNoDup

(* The three callers of rq_add queue a thread once, parked and with its context
   saved. *)
THEOREM RunQueueSoundHolds ==
  ASSUME "sleep" \notin Ops
  PROVE  Spec => []RunQueueSound
<1>1. SchedInv => RunQueueSound
  BY QueueSound, Zenon
<1>. QED BY <1>1, SchedInvariant, PTL

(* No thread is dropped between the run queue, the wait lists, the CPUs and the
   reaper. *)
THEOREM NoThreadLostHolds ==
  ASSUME "sleep" \notin Ops
  PROVE  Spec => []NoThreadLost
<1>1. SchedInv => NoThreadLost
  BY Zenon DEF SchedInv
<1>. QED BY <1>1, SchedInvariant, PTL

(* The reap at the top of sched_tick frees only threads nothing refers to. *)
THEOREM ReapedIsUnreachableHolds ==
  ASSUME "sleep" \notin Ops
  PROVE  Spec => []ReapedIsUnreachable
<1>1. ASSUME SchedInv PROVE ReapedIsUnreachable
  <2>1. TypeOK /\ NoSleepers /\ QueueInv /\ CurrentInv /\ CallInv /\ ReapInv
    BY <1>1, Zenon DEF SchedInv
  <2>. SUFFICES ASSUME NEW t \in Thread, mem[t] = "freed"
       PROVE  /\ \A c \in CPU : /\ t \notin {cpu_current[c], reap_pending[c]}
                                /\ stack[c] = t => cpu[c] \in {"switch", "wild"}
              /\ t \notin waiting
              /\ ~InRq(t) /\ ~Adding(t) /\ ~Waking(t) /\ ~Sleeping(t)
    BY SMTT(40) DEF ReapedIsUnreachable
  <2>2. \A c \in CPU : /\ t \notin {cpu_current[c], reap_pending[c]}
                       /\ stack[c] = t => cpu[c] \in {"switch", "wild"}
    <3>. TAKE c \in CPU
    <3>1. t # None
      BY SchedConstants, Zenon
    <3>2. t # cpu_current[c]
      BY <2>1, <3>1, Zenon DEF CurrentInv, TypeOK, Cur
    <3>3. t # reap_pending[c]
      BY <2>1, <3>1, ZenonT(40) DEF ReapInv
    <3>4. stack[c] = t => cpu[c] \in {"switch", "wild"}
      BY <2>1, <3>1, <3>2, SMTT(40) DEF CurrentInv, TypeOK, Phases, Cur
    <3>. QED BY <3>2, <3>3, <3>4, SMTT(30)
  <2>3. t \notin waiting /\ ~InRq(t)
    BY <2>1, ZenonT(40) DEF CallInv, QueueInv
  <2>4. ~Adding(t) /\ ~Waking(t) /\ ~Sleeping(t)
    BY <2>1, SMTT(40) DEF CallInv, NoSleepers, Adding, Waking, Sleeping
  <2>. QED BY <2>2, <2>3, <2>4, Zenon
<1>. QED BY <1>1, SchedInvariant, PTL

(* Every thread sched_tick picks, except the BSP's idle thread on its first
   pick, has a context to resume. *)
THEOREM PicksSavedContextHolds ==
  ASSUME "sleep" \notin Ops
  PROVE  Spec => []PicksSavedContext
<1>1. SchedInv => PicksSavedContext
  BY Zenon DEF SchedInv, ContextInv, PicksSavedContext
<1>. QED BY <1>1, SchedInvariant, PTL

============================================================================
