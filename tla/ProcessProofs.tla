--------------------------- MODULE ProcessProofs ---------------------------
(***************************************************************************)
(* Proofs about Process, for every number of processes, pids and CPUs.     *)
(* The process table and the reaping of children: the least-number         *)
(* principle and what it gives (induction along a list, the pid scan that  *)
(* ends), then the scheduler's types under any workload, the table, and    *)
(* the family discipline.  None of that uses the scheduler's own           *)
(* invariant, which process_kill breaks.  Then process_wait and            *)
(* process_mark_exited on top of the scheduler: in a family that does not  *)
(* kill and does not sleep, the scheduler keeps its own invariant and no   *)
(* waiter is lost.                                                         *)
(***************************************************************************)
EXTENDS Process, SchedProofs, WellFoundedInduction

(* A set of numbers that is not empty has a least member. *)
LEMMA LeastNat ==
  ASSUME NEW S, S \subseteq Nat, S # {}
  PROVE  \E m \in S : \A k \in S : m <= k
<1>1. IsWellFoundedOn(OpToRel(<, Nat), Nat)
  BY NatLessThanWellFounded, Zenon
<1>2. PICK m \in S : \A k \in S : ~(<<k, m>> \in OpToRel(<, Nat))
  BY <1>1, WFMin, Zenon
<1>3. ASSUME NEW k \in S PROVE ~(k < m)
  BY <1>2, Zenon DEF OpToRel
<1>. QED BY <1>3, SMTT(40)

(* Induction up to n: a set that holds 0 and, with each number below n, the next. *)
LEMMA Segment ==
  ASSUME NEW n \in Nat, NEW G, 0 \in G, \A i \in 0..n - 1 : i \in G => i + 1 \in G
  PROVE  n \in G
<1>. SUFFICES ASSUME n \notin G PROVE FALSE
  BY Zenon
<1>. DEFINE B == {i \in 0..n : i \notin G}
<1>1. B \subseteq Nat /\ B # {}
  BY SMTT(40)
<1>2. PICK m \in B : \A k \in B : m <= k
  BY <1>1, LeastNat, Zenon
<1>3. m # 0 /\ m - 1 \in 0..n - 1 /\ m - 1 \in 0..n /\ (m - 1) + 1 = m /\ ~(m <= m - 1)
  BY <1>2, SMTT(40)
<1>4. m - 1 \in G
  BY <1>2, <1>3, Zenon
<1>. QED BY <1>2, <1>3, <1>4, Zenon

(* The walk of Sublist is well defined ... *)
LEMMA SublistWalk ==
  ASSUME NEW X, NEW q \in Seq(X), NEW S
  PROVE  \E f : f = [i \in 0..Len(q) |->
                       IF i = 0 THEN <<>>
                       ELSE IF q[i] \in S THEN Append(f[i - 1], q[i]) ELSE f[i - 1]]
<1>. DEFINE Step(f, i) == IF i = 0 THEN <<>>
                          ELSE IF q[i] \in S THEN Append(f[i - 1], q[i]) ELSE f[i - 1]
            G == {n \in Nat : \E f : f = [i \in 0..n |-> Step(f, i)]}
<1>1. Len(q) \in Nat
  BY SMTT(40)
<1>2. 0 \in G
  <2>. DEFINE f == [i \in 0..0 |-> <<>>]
  <2>1. f = [i \in 0..0 |-> Step(f, i)]
    BY SMTT(40)
  <2>. QED BY <2>1, Zenon
<1>3. ASSUME NEW n \in 0..Len(q) - 1, n \in G PROVE n + 1 \in G
  <2>1. PICK f : f = [i \in 0..n |-> Step(f, i)]
    BY <1>3, Zenon
  <2>. DEFINE g == [i \in 0..n + 1 |-> IF i <= n THEN f[i] ELSE Step(f, i)]
  <2>2. ASSUME NEW i \in 0..n + 1 PROVE g[i] = Step(g, i)
    <3>1. CASE i = 0
      <4>1. g[0] = f[0] /\ f[0] = Step(f, 0)
        BY <2>1, SMTT(40)
      <4>. QED BY <3>1, <4>1, Zenon
    <3>2. CASE i # 0
      <4>1. i - 1 \in 0..n + 1 /\ i - 1 <= n /\ g[i - 1] = f[i - 1]
        BY <1>1, <3>2, SMTT(40)
      <4>2. g[i] = Step(f, i)
        <5>1. CASE i <= n
          <6>1. i \in 0..n
            BY <5>1, SMTT(40)
          <6>. QED BY <2>1, <5>1, <6>1, Zenon
        <5>2. CASE ~(i <= n)
          BY <5>2, Zenon
        <5>. QED BY <5>1, <5>2, Zenon
      <4>. QED BY <4>1, <4>2, Zenon
    <3>. QED BY <3>1, <3>2, Zenon
  <2>3. g = [i \in 0..n + 1 |-> Step(g, i)]
    BY <2>2, Zenon
  <2>4. n + 1 \in Nat
    BY <1>1, SMTT(40)
  <2>. QED BY <2>3, <2>4, Zenon
<1>4. Len(q) \in G
  <2>. HIDE DEF G
  <2>. QED BY <1>1, <1>2, <1>3, Segment, Zenon
<1>. QED BY <1>4, Zenon

(* ... and yields a list of members of the one walked. *)
LEMMA SublistType ==
  ASSUME NEW X, NEW q \in Seq(X), NEW S
  PROVE  Sublist(q, S) \in Seq(X)
<1>. DEFINE P(f) == f = [i \in 0..Len(q) |->
                           IF i = 0 THEN <<>>
                           ELSE IF q[i] \in S THEN Append(f[i - 1], q[i]) ELSE f[i - 1]]
            F == CHOOSE f : P(f)
            G == {n \in 0..Len(q) : F[n] \in Seq(X)}
<1>1. F = [i \in 0..Len(q) |-> IF i = 0 THEN <<>>
                               ELSE IF q[i] \in S THEN Append(F[i - 1], q[i]) ELSE F[i - 1]]
  <2>1. \E f : P(f)
    BY SublistWalk, ZenonT(60)
  <2>2. P(F)
    <3>. HIDE DEF P
    <3>. QED BY <2>1, Zenon
  <2>. QED BY <2>2, Zenon
<1>2. Sublist(q, S) = F[Len(q)]
  BY Zenon DEF Sublist
<1>. HIDE DEF F
<1>3. Len(q) \in Nat /\ 0 \in 0..Len(q)
  BY SMTT(40)
<1>4. 0 \in G
  <2>1. F[0] = <<>>
    BY <1>1, <1>3, Zenon
  <2>2. F[0] \in Seq(X)
    BY <2>1, SMTT(40)
  <2>. QED BY <1>3, <2>2, Zenon
<1>5. ASSUME NEW n \in 0..Len(q) - 1, n \in G PROVE n + 1 \in G
  <2>1. n + 1 \in 0..Len(q) /\ n + 1 # 0 /\ (n + 1) - 1 = n /\ q[n + 1] \in X
    BY <1>3, SMTT(40)
  <2>2. F[n + 1] = IF q[n + 1] \in S THEN Append(F[n], q[n + 1]) ELSE F[n]
    BY <1>1, <2>1, Zenon
  <2>3. F[n] \in Seq(X)
    BY <1>5, Zenon
  <2>4. Append(F[n], q[n + 1]) \in Seq(X)
    BY <2>1, <2>3, SMTT(40)
  <2>5. F[n + 1] \in Seq(X)
    BY <2>2, <2>3, <2>4, Zenon
  <2>. QED BY <2>1, <2>5, Zenon
<1>6. Len(q) \in G
  <2>. HIDE DEF G
  <2>. QED BY <1>3, <1>4, <1>5, Segment, Zenon
<1>. QED BY <1>2, <1>6, Zenon
-----------------------------------------------------------------------------
(* The scheduler's types, whatever the processes do. *)

(* Thread code runs on a CPU that is on. *)
LEMMA Runner ==
  ASSUME NEW c \in CPU, NEW label, At(c, label)
  PROVE  Cur(c) \in Thread /\ Cur(c) # None /\ Cur(c) = cpu_current[c] /\ cpu[c] = "run"
<1>1. Worker \subseteq Thread
  BY Zenon DEF Worker
<1>. QED BY <1>1, SchedConstants, Zenon DEF At, Cur

(* The current thread of a CPU that is on, and the idle threads, are threads. *)
LEMMA CurThread ==
  ASSUME TypeOK, NEW c \in CPU, cpu[c] # "off"
  PROVE  Cur(c) \in Thread /\ Cur(c) # None
BY SchedConstants, Zenon DEF TypeOK, Cur

LEMMA IdleThread ==
  ASSUME NEW c \in CPU
  PROVE  Idle[c] \in Thread /\ Idle[c] # None
<1>1. Idle \in [CPU -> Thread] /\ None \notin Thread
  BY SchedConstants, SMTT(40)
<1>. QED BY <1>1, Zenon

(* A step of thread code, which leaves the CPUs' own variables alone. *)
LEMMA CallTypes ==
  ASSUME SchedTypes, UNCHANGED <<cpu_current, reap_pending, cpu, stack>>,
         UNCHANGED on_cpu, state' \in [Thread -> ThreadStates], saved' \in [Thread -> BOOLEAN],
         mem' \in [Thread -> {"none", "live", "freed"}], rq' \in Seq(Thread),
         rq_lock' \in Thread \cup {None}, sleepq' \in Seq(Thread), left' \in [Thread -> Nat],
         pc' \in [Thread -> PcValues], arg' \in [Thread -> Thread \cup {None}],
         waiting' \in SUBSET Thread, \A u \in Thread : InCall(u)' => arg'[u] \in Thread
  PROVE  SchedTypes'
<1>1. /\ TypeOK /\ \A d \in CPU : cpu[d] = "off" => stack[d] = None
      /\ cpu_current' = cpu_current /\ reap_pending' = reap_pending /\ cpu' = cpu /\ stack' = stack
      /\ on_cpu' = on_cpu
  BY Zenon DEF SchedTypes
<1>2. TypeOK'
  BY <1>1, Zenon DEF TypeOK
<1>. QED BY <1>1, <1>2, Zenon DEF SchedTypes

(* The current thread x of a CPU moves to label m with argument w. *)
LEMMA CallMove ==
  ASSUME SchedTypes, NEW x \in Thread, NEW m \in PcValues, NEW w \in Thread \cup {None},
         pc' = [pc EXCEPT ![x] = m], arg' = arg \/ arg' = [arg EXCEPT ![x] = w],
         m \in {"add", "wake", "ready"} => arg'[x] \in Thread
  PROVE  /\ pc' \in [Thread -> PcValues] /\ arg' \in [Thread -> Thread \cup {None}]
         /\ \A u \in Thread : InCall(u)' => arg'[u] \in Thread
<1>1. pc \in [Thread -> PcValues] /\ arg \in [Thread -> Thread \cup {None}]
  BY Zenon DEF SchedTypes, TypeOK
<1>2. \A u \in Thread : InCall(u) => arg[u] \in Thread
  BY Zenon DEF SchedTypes
<1>3. /\ pc' \in [Thread -> PcValues] /\ arg' \in [Thread -> Thread \cup {None}]
      /\ pc'[x] = m /\ \A u \in Thread : u # x => pc'[u] = pc[u] /\ arg'[u] = arg[u]
  BY <1>1, Zenon
<1>4. ASSUME NEW u \in Thread, InCall(u)' PROVE arg'[u] \in Thread
  <2>1. CASE u = x
    BY <1>3, <1>4, <2>1, Zenon DEF InCall
  <2>2. CASE u # x
    BY <1>2, <1>3, <1>4, <2>2, Zenon DEF InCall
  <2>. QED BY <2>1, <2>2, Zenon
<1>. QED BY <1>3, <1>4, Zenon

(* Every entry point of the scheduler that thread code calls. *)
LEMMA CreateTypes ==
  ASSUME SchedTypes, NEW c \in CPU, NEW n \in Thread, ThreadCreate(c, n)
  PROVE  SchedTypes'
<1>1. /\ At(c, "run") /\ mem' = [mem EXCEPT ![n] = "live"] /\ saved' = [saved EXCEPT ![n] = TRUE]
      /\ pc' = [pc EXCEPT ![Cur(c)] = "add"] /\ arg' = [arg EXCEPT ![Cur(c)] = n]
      /\ UNCHANGED <<state, on_cpu, rq, rq_lock, sleepq, left, waiting>>
      /\ UNCHANGED <<cpu_current, reap_pending, cpu, stack>>
  BY Zenon DEF ThreadCreate, queueVars, cpuVars
<1>2. TypeOK
  BY Zenon DEF SchedTypes
<1>3. PICK x \in Thread : x = Cur(c)
  BY <1>1, Runner, Zenon
<1>4. mem' \in [Thread -> {"none", "live", "freed"}] /\ saved' \in [Thread -> BOOLEAN]
  BY <1>1, <1>2, Zenon DEF TypeOK
<1>5. arg'[x] = n /\ "add" \in PcValues
  BY <1>1, <1>2, <1>3, Zenon DEF TypeOK, PcValues
<1>6. /\ pc' \in [Thread -> PcValues] /\ arg' \in [Thread -> Thread \cup {None}]
      /\ \A u \in Thread : InCall(u)' => arg'[u] \in Thread
  BY <1>1, <1>3, <1>5, CallMove, Zenon
<1>7. /\ state' \in [Thread -> ThreadStates] /\ rq' \in Seq(Thread) /\ rq_lock' \in Thread \cup {None}
      /\ sleepq' \in Seq(Thread) /\ left' \in [Thread -> Nat] /\ waiting' \in SUBSET Thread
  BY <1>1, <1>2, Zenon DEF TypeOK
<1>. QED BY <1>1, <1>4, <1>6, <1>7, CallTypes, Zenon
(* ... those that only move the caller, its argument, the lock or the wait lists, *)
LEMMA MoveTypes ==
  ASSUME SchedTypes, NEW c \in CPU,
         \/ AcquireRq(c) \/ WakeSpin(c) \/ SleepCall(c) \/ Block(c)
         \/ \E w \in Thread : WakeCall(c, w)
  PROVE  SchedTypes'
<1>0. TypeOK
  BY Zenon DEF SchedTypes
<1>1. PICK label : At(c, label)
  BY Zenon DEF AcquireRq, WakeSpin, SleepCall, Block, WakeCall
<1>2. PICK x \in Thread : x = Cur(c)
  BY <1>1, Runner, Zenon
<1>3. /\ UNCHANGED <<cpu_current, reap_pending, cpu, stack>>
      /\ UNCHANGED <<on_cpu, saved, mem, rq, sleepq, left>>
  BY Zenon DEF AcquireRq, WakeSpin, SleepCall, Block, WakeCall, threadVars, queueVars, cpuVars
<1>4. rq_lock' \in Thread \cup {None} /\ waiting' \in SUBSET Thread
  <2>1. rq_lock' \in {rq_lock, x} /\ \A t \in waiting' : t \in waiting \cup {x}
    BY <1>2, Zenon DEF AcquireRq, WakeSpin, SleepCall, Block, WakeCall, threadVars, queueVars, callVars
  <2>. QED BY <1>0, <2>1, Zenon DEF TypeOK
<1>5. state' \in [Thread -> ThreadStates]
  <2>1. state' = state \/ state' = [state EXCEPT ![x] = "BLOCKED"]
    BY <1>2, Zenon DEF AcquireRq, WakeSpin, SleepCall, Block, WakeCall, threadVars
  <2>. QED BY <1>0, <2>1, Zenon DEF TypeOK, ThreadStates
<1>6. /\ pc' \in [Thread -> PcValues] /\ arg' \in [Thread -> Thread \cup {None}]
      /\ \A u \in Thread : InCall(u)' => arg'[u] \in Thread
  <2>1. CASE AcquireRq(c)
    <3>1. pc' = pc /\ arg' = arg
      BY <2>1, Zenon DEF AcquireRq, callVars
    <3>. QED BY <1>0, <3>1, Zenon DEF TypeOK, SchedTypes, InCall
  <2>2. CASE WakeSpin(c)
    <3>1. pc[x] = "wake" /\ pc' = [pc EXCEPT ![x] = "ready"] /\ arg' = arg
      BY <1>2, <2>2, Zenon DEF WakeSpin, At
    <3>2. arg'[x] \in Thread /\ "ready" \in PcValues
      BY <1>0, <3>1, Zenon DEF SchedTypes, InCall, PcValues
    <3>. QED BY <3>1, <3>2, CallMove, Zenon
  <2>3. CASE SleepCall(c)
    <3>1. pc' = [pc EXCEPT ![x] = "sleep"] /\ arg' = arg /\ "sleep" \in PcValues
      BY <1>2, <2>3, Zenon DEF SleepCall, PcValues
    <3>. QED BY <3>1, CallMove, Zenon
  <2>4. CASE Block(c)
    <3>1. pc' = [pc EXCEPT ![x] = "window"] /\ arg' = arg /\ "window" \in PcValues
      BY <1>2, <2>4, Zenon DEF Block, PcValues
    <3>. QED BY <3>1, CallMove, Zenon
  <2>5. ASSUME NEW w \in Thread, WakeCall(c, w) 
        PROVE  /\ pc' \in [Thread -> PcValues] /\ arg' \in [Thread -> Thread \cup {None}]
               /\ \A u \in Thread : InCall(u)' => arg'[u] \in Thread
    <3>1. pc' = [pc EXCEPT ![x] = "wake"] /\ arg' = [arg EXCEPT ![x] = w] /\ "wake" \in PcValues
      BY <1>2, <2>5, Zenon DEF WakeCall, PcValues
    <3>2. arg'[x] \in Thread
      BY <1>0, <3>1, Zenon DEF TypeOK
    <3>. QED BY <3>1, <3>2, CallMove, Zenon
  <2>. QED BY <2>1, <2>2, <2>3, <2>4, <2>5, Zenon
<1>7. /\ saved' \in [Thread -> BOOLEAN] /\ mem' \in [Thread -> {"none", "live", "freed"}]
      /\ rq' \in Seq(Thread) /\ sleepq' \in Seq(Thread) /\ left' \in [Thread -> Nat]
  BY <1>0, <1>3, Zenon DEF TypeOK
<1>8. on_cpu' = on_cpu
  BY <1>3, Zenon
<1>. QED BY <1>3, <1>4, <1>5, <1>6, <1>7, <1>8, CallTypes, Zenon

(* ... and those that put a thread on the run queue or the sleep list. *)
LEMMA QueueTypes ==
  ASSUME SchedTypes, NEW c \in CPU, 
         SchedAdd(c) \/ SchedWake(c) \/ \E ms \in SleepTicks : SchedSleep(c, ms)
  PROVE  SchedTypes'
<1>0. TypeOK
  BY Zenon DEF SchedTypes
<1>1. PICK label : At(c, label)
  BY Zenon DEF SchedAdd, SchedWake, SchedSleep
<1>2. PICK x \in Thread : x = Cur(c)
  BY <1>1, Runner, Zenon
<1>3. /\ UNCHANGED <<cpu_current, reap_pending, cpu, stack>> /\ UNCHANGED <<on_cpu, saved, mem, waiting>>
      /\ rq_lock' = None
  BY Zenon DEF SchedAdd, SchedWake, SchedSleep, threadVars, cpuVars
<1>4. CASE SchedAdd(c) \/ SchedWake(c)
  <2>1. /\ pc[x] \in {"add", "ready"} /\ rq' = Append(rq, arg[x]) /\ pc' = [pc EXCEPT ![x] = "run"]
        /\ arg' = [arg EXCEPT ![x] = None] /\ UNCHANGED <<sleepq, left>>
        /\ state' = state \/ state' = [state EXCEPT ![arg[x]] = "READY"]
    BY <1>2, <1>4, Zenon DEF SchedAdd, SchedWake, At, threadVars
  <2>2. PICK w \in Thread : w = arg[x]
    BY <2>1, Zenon DEF SchedTypes, InCall
  <2>3. rq' \in Seq(Thread)
    <3>1. rq \in Seq(Thread) /\ rq' = Append(rq, w)
      BY <1>0, <2>1, <2>2, Zenon DEF TypeOK
    <3>. QED BY <3>1, SMTT(40)
  <2>4. state' \in [Thread -> ThreadStates]
    BY <1>0, <2>1, <2>2, Zenon DEF TypeOK, ThreadStates
  <2>5. /\ pc' \in [Thread -> PcValues] /\ arg' \in [Thread -> Thread \cup {None}]
        /\ \A u \in Thread : InCall(u)' => arg'[u] \in Thread
    <3>1. "run" \in PcValues
      BY Zenon DEF PcValues
    <3>. QED BY <2>1, <3>1, CallMove, Zenon
  <2>6. /\ saved' \in [Thread -> BOOLEAN] /\ mem' \in [Thread -> {"none", "live", "freed"}]
        /\ sleepq' \in Seq(Thread) /\ left' \in [Thread -> Nat] /\ waiting' \in SUBSET Thread
        /\ rq_lock' \in Thread \cup {None}
    BY <1>0, <1>3, <2>1, Zenon DEF TypeOK
  <2>. QED BY <1>3, <2>3, <2>4, <2>5, <2>6, CallTypes, Zenon
<1>5. ASSUME NEW ms \in SleepTicks, SchedSleep(c, ms) PROVE SchedTypes'
  <2>1. /\ pc' = [pc EXCEPT ![x] = "window"] /\ left' = [left EXCEPT ![x] = ms]
        /\ state' = [state EXCEPT ![x] = "BLOCKED"] /\ sleepq' = <<x>> \o sleepq
        /\ rq' = rq /\ arg' = arg
    BY <1>2, <1>5, Zenon DEF SchedSleep
  <2>2. ms \in Nat
    BY SchedConstants, Zenon
  <2>3. left' \in [Thread -> Nat] /\ state' \in [Thread -> ThreadStates]
    BY <1>0, <2>1, <2>2, Zenon DEF TypeOK, ThreadStates
  <2>4. sleepq' \in Seq(Thread)
    <3>1. sleepq \in Seq(Thread)
      BY <1>0, Zenon DEF TypeOK
    <3>. QED BY <2>1, <3>1, SMTT(40)
  <2>5. /\ pc' \in [Thread -> PcValues] /\ arg' \in [Thread -> Thread \cup {None}]
        /\ \A u \in Thread : InCall(u)' => arg'[u] \in Thread
    <3>1. "window" \in PcValues
      BY Zenon DEF PcValues
    <3>. QED BY <2>1, <3>1, CallMove, Zenon
  <2>6. /\ saved' \in [Thread -> BOOLEAN] /\ mem' \in [Thread -> {"none", "live", "freed"}]
        /\ rq' \in Seq(Thread) /\ waiting' \in SUBSET Thread /\ rq_lock' \in Thread \cup {None}
    BY <1>0, <1>3, <2>1, Zenon DEF TypeOK
  <2>. QED BY <1>3, <2>3, <2>4, <2>5, <2>6, CallTypes, Zenon
<1>. QED BY <1>4, <1>5, Zenon

(* A step outside the scheduler, or process_kill's write of thread->state. *)
LEMMA StutterTypes ==
  ASSUME SchedTypes, NEW p,
         \/ UNCHANGED vars
         \/ /\ state' = [state EXCEPT ![p] = "DEAD"]
            /\ UNCHANGED <<on_cpu, saved, mem, queueVars, cpuVars, callVars>>
  PROVE  SchedTypes'
<1>0. TypeOK /\ \A u \in Thread : InCall(u) => arg[u] \in Thread
  BY Zenon DEF SchedTypes
<1>1. /\ UNCHANGED <<cpu_current, reap_pending, cpu, stack>>
      /\ UNCHANGED <<on_cpu, saved, mem, rq, rq_lock, sleepq, left, pc, arg, waiting>>
      /\ state' = state \/ state' = [state EXCEPT ![p] = "DEAD"]
  BY Zenon DEF vars, threadVars, queueVars, cpuVars, callVars
<1>2. state' \in [Thread -> ThreadStates]
  BY <1>0, <1>1, Zenon DEF TypeOK, ThreadStates
<1>3. /\ saved' \in [Thread -> BOOLEAN] /\ mem' \in [Thread -> {"none", "live", "freed"}]
      /\ rq' \in Seq(Thread) /\ rq_lock' \in Thread \cup {None} /\ sleepq' \in Seq(Thread)
      /\ left' \in [Thread -> Nat] /\ pc' \in [Thread -> PcValues]
      /\ arg' \in [Thread -> Thread \cup {None}] /\ waiting' \in SUBSET Thread
  BY <1>0, <1>1, Zenon DEF TypeOK
<1>4. \A u \in Thread : InCall(u)' => arg'[u] \in Thread
  BY <1>0, <1>1, Zenon DEF InCall
<1>5. on_cpu' = on_cpu
  BY <1>1, Zenon
<1>. QED BY <1>1, <1>2, <1>3, <1>4, <1>5, CallTypes, Zenon

(* The interrupt, with or without a change of state or position before it. *)
LEMMA IsrTypes ==
  ASSUME SchedTypes, NEW c \in CPU, Timer(c) \/ Yield(c) \/ ThreadExit(c)
  PROVE  SchedTypes'
<1>0. TypeOK /\ \A d \in CPU : cpu[d] = "off" => stack[d] = None
  BY Zenon DEF SchedTypes
<1>1. cpu[c] = "run" /\ EnterIsr(c)
  BY Zenon DEF Timer, Yield, ThreadExit, At
<1>2. PICK x \in Thread : x = Cur(c)
  BY <1>0, <1>1, CurThread, Zenon
<1>3. /\ cpu' = [cpu EXCEPT ![c] = "isr"] /\ saved' = [saved EXCEPT ![x] = TRUE]
      /\ mem' = [t \in Thread |-> IF t = Doomed(c) THEN "freed" ELSE mem[t]]
      /\ reap_pending' = [reap_pending EXCEPT ![c] = None]
      /\ UNCHANGED <<on_cpu, rq, rq_lock, sleepq, left, cpu_current, stack, arg, waiting>>
  BY <1>1, <1>2, Zenon DEF EnterIsr, queueVars
<1>4. state' \in [Thread -> ThreadStates]
  <2>1. state' = state \/ state' = [state EXCEPT ![x] = "DEAD"]
    BY <1>2, Zenon DEF Timer, Yield, ThreadExit
  <2>. QED BY <1>0, <2>1, Zenon DEF TypeOK, ThreadStates
<1>5. pc' \in [Thread -> PcValues] /\ \A u \in Thread : pc'[u] = pc[u] \/ pc'[u] = "run"
  <2>1. pc' = pc \/ pc' = [pc EXCEPT ![x] = "run"]
    BY <1>2, Zenon DEF Timer, Yield, ThreadExit
  <2>. QED BY <1>0, <2>1, Zenon DEF TypeOK, PcValues
<1>6. \A d \in CPU : cpu'[d] = "off" <=> cpu[d] = "off"
  BY <1>0, <1>1, <1>3, Zenon DEF TypeOK
<1>7. /\ cpu' \in [CPU -> Phases] /\ saved' \in [Thread -> BOOLEAN]
      /\ mem' \in [Thread -> {"none", "live", "freed"}]
      /\ reap_pending' \in [CPU -> Thread \cup {None}]
  BY <1>0, <1>3, Zenon DEF TypeOK, Phases
<1>8. TypeOK'
  BY <1>0, <1>3, <1>4, <1>5, <1>6, <1>7, Zenon DEF TypeOK
<1>9. \A u \in Thread : InCall(u)' => arg'[u] \in Thread
  BY <1>3, <1>5, Zenon DEF SchedTypes, InCall
<1>. QED BY <1>0, <1>3, <1>6, <1>8, <1>9, Zenon DEF SchedTypes

(* The tick: sleepers and the interrupted thread to the run queue, its head to
   this CPU. *)
LEMMA TickTypes ==
  ASSUME SchedTypes, NEW c \in CPU, SchedTick(c)
  PROVE  SchedTypes'
<1>0. TypeOK /\ \A d \in CPU : cpu[d] = "off" => stack[d] = None
  BY Zenon DEF SchedTypes
<1>1. /\ cpu[c] = "isr" /\ sleepq' = Asleep
      /\ left' = [t \in Thread |-> IF left[t] = 0 THEN 0 ELSE left[t] - 1]
      /\ cpu_current' = [cpu_current EXCEPT ![c] = PickNext(c)]
      /\ cpu' = [cpu EXCEPT ![c] = "switch"]
      /\ rq' = IF Queued(c) = <<>> THEN <<>> ELSE Tail(Queued(c))
      /\ reap_pending' = [reap_pending EXCEPT ![c] = IF state[Cur(c)] = "DEAD" THEN Cur(c) ELSE @]
      /\ UNCHANGED <<saved, mem, rq_lock, stack, pc, arg, waiting>>
  BY Zenon DEF SchedTick, callVars
<1>2. PICK x \in Thread : x = Cur(c)
  BY <1>0, <1>1, CurThread, Zenon
<1>3. Expired \in Seq(Thread) /\ sleepq' \in Seq(Thread)
  <2>1. sleepq \in Seq(Thread) /\ <<>> \in Seq(Thread)
    BY <1>0, SMTT(40) DEF TypeOK
  <2>. QED BY <1>1, <2>1, SublistType, Zenon DEF Expired, Asleep
<1>4. Queued(c) \in Seq(Thread)
  <2>1. rq \in Seq(Thread)
    BY <1>0, Zenon DEF TypeOK
  <2>2. rq \o Expired \in Seq(Thread) /\ Append(rq \o Expired, x) \in Seq(Thread)
    BY <1>3, <2>1, SMTT(40)
  <2>. QED BY <1>2, <2>2, Zenon DEF Queued
<1>5. rq' \in Seq(Thread) /\ PickNext(c) \in Thread
  <2>1. Queued(c) # <<>> => Head(Queued(c)) \in Thread /\ Tail(Queued(c)) \in Seq(Thread)
    BY <1>4, SMTT(40)
  <2>2. <<>> \in Seq(Thread)
    BY SMTT(40)
  <2>. QED BY <1>1, <2>1, <2>2, IdleThread, Zenon DEF PickNext
<1>6. PickNext(c) # None
  BY <1>5, SchedConstants, Zenon
<1>7. state' \in [Thread -> ThreadStates] /\ on_cpu' \in [Thread -> BOOLEAN]
  <2>1. state' = [t \in Thread |->
          IF t = PickNext(c) THEN "RUNNING"
          ELSE IF (\E i \in 1..Len(Expired) : Expired[i] = t) \/ (t = Cur(c) /\ Requeue(c)) THEN "READY"
          ELSE state[t]]
    BY Zenon DEF SchedTick
  <2>2. on_cpu' = [t \in Thread |-> IF t = PickNext(c) THEN TRUE
                                    ELSE IF t = Cur(c) THEN FALSE ELSE on_cpu[t]]
    BY Zenon DEF SchedTick
  <2>. QED BY <1>0, <2>1, <2>2, Zenon DEF TypeOK, ThreadStates
<1>8. left' \in [Thread -> Nat]
  <2>1. left \in [Thread -> Nat]
    BY <1>0, Zenon DEF TypeOK
  <2>. QED BY <1>1, <2>1, SMTT(40)
<1>9. /\ cpu_current' \in [CPU -> Thread \cup {None}] /\ cpu' \in [CPU -> Phases]
      /\ reap_pending' \in [CPU -> Thread \cup {None}]
      /\ \A d \in CPU : cpu_current'[d] = None <=> cpu'[d] = "off"
  BY <1>0, <1>1, <1>2, <1>5, <1>6, Zenon DEF TypeOK, Phases
<1>10. TypeOK'
  BY <1>0, <1>1, <1>3, <1>5, <1>7, <1>8, <1>9, Zenon DEF TypeOK
<1>11. \A d \in CPU : cpu'[d] = "off" => stack'[d] = None
  BY <1>0, <1>1, Zenon DEF TypeOK
<1>12. \A u \in Thread : InCall(u)' => arg'[u] \in Thread
  BY <1>1, Zenon DEF SchedTypes, InCall
<1>. QED BY <1>10, <1>11, <1>12, Zenon DEF SchedTypes

(* The switch to the picked thread's stack. *)
LEMMA SwitchTypes ==
  ASSUME SchedTypes, NEW c \in CPU, SwitchStack(c)
  PROVE  SchedTypes'
<1>0. TypeOK /\ \A d \in CPU : cpu[d] = "off" => stack[d] = None
  BY Zenon DEF SchedTypes
<1>1. PICK lost \in SUBSET Clobbered(c) :
        cpu' = [d \in CPU |-> IF d \in lost \/ (d = c /\ ~saved[Cur(c)]) THEN "wild"
                              ELSE IF d = c THEN "run" ELSE cpu[d]]
  BY Zenon DEF SwitchStack
<1>2. /\ cpu[c] = "switch" /\ stack' = [stack EXCEPT ![c] = Cur(c)]
      /\ saved' = [saved EXCEPT ![Cur(c)] = FALSE]
      /\ UNCHANGED <<state, on_cpu, mem, rq, rq_lock, sleepq, left, cpu_current, reap_pending, pc, arg,
                     waiting>>
  BY Zenon DEF SwitchStack, queueVars, callVars
<1>3. PICK x \in Thread : x = Cur(c) /\ x # None
  BY <1>0, <1>2, CurThread, Zenon
<1>4. \A d \in lost : d \in CPU /\ cpu[d] # "off"
  BY <1>0, <1>2, <1>3, Zenon DEF Clobbered
<1>5. cpu' \in [CPU -> Phases] /\ \A d \in CPU : cpu'[d] = "off" <=> cpu[d] = "off"
  BY <1>0, <1>1, <1>2, <1>4, Zenon DEF TypeOK, Phases
<1>6. /\ stack' \in [CPU -> Thread \cup {None}] /\ saved' \in [Thread -> BOOLEAN]
      /\ \A d \in CPU : d # c => stack'[d] = stack[d]
  BY <1>0, <1>2, <1>3, Zenon DEF TypeOK
<1>7. TypeOK'
  BY <1>0, <1>2, <1>5, <1>6, Zenon DEF TypeOK
<1>8. \A d \in CPU : cpu'[d] = "off" => stack'[d] = None
  BY <1>0, <1>2, <1>5, <1>6, Zenon
<1>9. \A u \in Thread : InCall(u)' => arg'[u] \in Thread
  BY <1>2, Zenon DEF SchedTypes, InCall
<1>. QED BY <1>7, <1>8, <1>9, Zenon DEF SchedTypes

(* The start of an AP. *)
LEMMA ApEnterTypes ==
  ASSUME SchedTypes, NEW c \in CPU, SchedApEnter(c)
  PROVE  SchedTypes'
<1>0. TypeOK /\ \A d \in CPU : cpu[d] = "off" => stack[d] = None
  BY Zenon DEF SchedTypes
<1>1. /\ cpu_current' = [cpu_current EXCEPT ![c] = Idle[c]]
      /\ on_cpu' = [on_cpu EXCEPT ![Idle[c]] = TRUE]
      /\ stack' = [stack EXCEPT ![c] = Idle[c]] /\ cpu' = [cpu EXCEPT ![c] = "run"]
      /\ UNCHANGED <<state, saved, mem, rq, rq_lock, sleepq, left, reap_pending, pc, arg, waiting>>
  BY Zenon DEF SchedApEnter, queueVars, callVars
<1>2. Idle[c] \in Thread /\ Idle[c] # None
  BY IdleThread, Zenon
<1>3. /\ cpu_current' \in [CPU -> Thread \cup {None}] /\ on_cpu' \in [Thread -> BOOLEAN]
      /\ stack' \in [CPU -> Thread \cup {None}] /\ cpu' \in [CPU -> Phases]
      /\ \A d \in CPU : cpu_current'[d] = None <=> cpu'[d] = "off"
      /\ \A d \in CPU : cpu'[d] = "off" => stack'[d] = None
  BY <1>0, <1>1, <1>2, Zenon DEF TypeOK, Phases
<1>4. TypeOK'
  BY <1>0, <1>1, <1>3, Zenon DEF TypeOK
<1>5. \A u \in Thread : InCall(u)' => arg'[u] \in Thread
  BY <1>1, Zenon DEF SchedTypes, InCall
<1>. QED BY <1>3, <1>4, <1>5, Zenon DEF SchedTypes
-----------------------------------------------------------------------------
(* The process table. *)

(* A list of n numbers misses one of the first n + 1. *)
LEMMA Missing ==
  ASSUME NEW n \in Nat, NEW f \in [1..n -> Nat]
  PROVE  \E k \in 1..n + 1 : \A i \in 1..n : f[i] # k
<1>. DEFINE G == {m \in Nat : \A g \in [1..m -> Nat] : \E k \in 1..m + 1 : \A i \in 1..m : g[i] # k}
<1>1. 0 \in G
  BY SMTT(40)
<1>2. ASSUME NEW m \in 0..n - 1, m \in G PROVE m + 1 \in G
  <2>0. m + 1 \in Nat /\ (m + 1) + 1 = m + 2
    BY SMTT(40)
  <2>. SUFFICES ASSUME NEW g \in [1..m + 1 -> Nat]
       PROVE  \E k \in 1..m + 2 : \A i \in 1..m + 1 : g[i] # k
    BY <2>0, Zenon
  <2>1. CASE \A i \in 1..m + 1 : g[i] # m + 2
    BY <2>1, SMTT(40)
  <2>2. ASSUME NEW j \in 1..m + 1, g[j] = m + 2
        PROVE  \E k \in 1..m + 2 : \A i \in 1..m + 1 : g[i] # k
    <3>. DEFINE h == [i \in 1..m |-> IF i = j THEN g[m + 1] ELSE g[i]]
    <3>1. h \in [1..m -> Nat]
      BY SMTT(40)
    <3>2. PICK k \in 1..m + 1 : \A i \in 1..m : h[i] # k
      BY <1>2, <3>1, Zenon
    <3>3. ASSUME NEW i \in 1..m + 1 PROVE g[i] # k
      <4>1. CASE i = j
        BY <2>2, <4>1, SMTT(40)
      <4>2. CASE i # j /\ i = m + 1
        <5>1. j \in 1..m /\ h[j] = g[m + 1]
          BY <4>2, SMTT(40)
        <5>. QED BY <3>2, <4>2, <5>1, Zenon
      <4>3. CASE i # j /\ i # m + 1
        <5>1. i \in 1..m /\ h[i] = g[i]
          BY <4>3, SMTT(40)
        <5>. QED BY <3>2, <5>1, Zenon
      <4>. QED BY <4>1, <4>2, <4>3, Zenon
    <3>. QED BY <3>3, SMTT(40)
  <2>. QED BY <2>1, <2>2, Zenon
<1>3. n \in G
  <2>. HIDE DEF G
  <2>. QED BY <1>1, <1>2, Segment, Zenon
<1>. QED BY <1>3, Zenon

(* next_pid++ stays within the pids and, from any start, comes to each of them. *)
LEMMA PidAfterType ==
  ASSUME NEW k \in Pids, NEW n \in Nat
  PROVE  PidAfter(k, n) \in Pids
<1>1. MaxPid \in Nat /\ MaxPid > 0 /\ k - 1 + n \in Nat
  BY ProcessConstants, SMTT(40) DEF Pids
<1>2. (k - 1 + n) % MaxPid \in 0..MaxPid - 1
  <2>. HIDE <1>1
  <2>1. \A u \in Nat : u % MaxPid \in 0..MaxPid - 1
    BY <1>1, SMTT(40)
  <2>. QED BY <1>1, <2>1, Zenon
<1>. QED BY <1>1, <1>2, SMTT(40) DEF PidAfter, Pids

LEMMA PidAfterOnto ==
  ASSUME NEW k \in Pids, NEW j \in Pids
  PROVE  \E n \in 0..MaxPid - 1 : PidAfter(k, n) = j
<1>1. MaxPid \in Nat /\ MaxPid > 0 /\ k \in 1..MaxPid /\ j \in 1..MaxPid
  BY ProcessConstants, SMTT(40) DEF Pids
<1>2. CASE k <= j
  <2>1. j - k \in 0..MaxPid - 1 /\ k - 1 + (j - k) = j - 1 /\ j - 1 \in 0..MaxPid - 1
    BY <1>1, <1>2, SMTT(40)
  <2>2. (j - 1) % MaxPid = j - 1
    BY <1>1, <2>1, SMTT(40)
  <2>3. PidAfter(k, j - k) = j
    BY <1>1, <2>1, <2>2, SMTT(40) DEF PidAfter
  <2>. QED BY <2>1, <2>3, Zenon
<1>3. CASE ~(k <= j)
  <2>1. /\ j - k + MaxPid \in 0..MaxPid - 1 /\ k - 1 + (j - k + MaxPid) = j - 1 + MaxPid
        /\ j - 1 \in 0..MaxPid - 1
    BY <1>1, <1>3, SMTT(40)
  <2>2. (j - 1 + MaxPid) % MaxPid = j - 1
    BY <1>1, <2>1, SMTT(40)
  <2>3. PidAfter(k, j - k + MaxPid) = j
    BY <1>1, <2>1, <2>2, SMTT(40) DEF PidAfter
  <2>. QED BY <2>1, <2>3, Zenon
<1>. QED BY <1>2, <1>3, Zenon
(* find_locked: what it returns is in the table under that pid, and when it
   returns NULL nothing is. *)
LEMMA FindFacts ==
  ASSUME NEW k
  PROVE  /\ Find(k) # None => \E i \in Slots : Find(k) = s_procs[i] /\ pid[s_procs[i]] = k
         /\ Find(k) = None => \A i \in Slots : s_procs[i] # None => pid[s_procs[i]] # k
<1>. DEFINE hits == {i \in Slots : s_procs[i] # None /\ pid[s_procs[i]] = k}
<1>1. Find(k) = IF hits = {} THEN None ELSE s_procs[CHOOSE i \in hits : \A j \in hits : i <= j]
  BY Zenon DEF Find
<1>2. hits \subseteq Nat
  BY SMTT(40) DEF Slots
<1>3. CASE hits = {}
  BY <1>1, <1>3, Zenon
<1>4. CASE hits # {}
  <2>1. \E i \in hits : \A j \in hits : i <= j
    <3>. HIDE DEF hits
    <3>. QED BY <1>2, <1>4, LeastNat, Zenon
  <2>. DEFINE m == CHOOSE i \in hits : \A j \in hits : i <= j
  <2>2. m \in hits
    <3>. HIDE DEF hits
    <3>. QED BY <2>1, Zenon
  <2>3. Find(k) = s_procs[m]
    BY <1>1, <1>4, Zenon
  <2>. HIDE DEF m
  <2>4. m \in Slots /\ s_procs[m] # None /\ pid[s_procs[m]] = k
    BY <2>2, Zenon
  <2>. QED BY <2>3, <2>4, Zenon
<1>. QED BY <1>3, <1>4, Zenon

(* The slot a new process gets is empty, or none. *)
LEMMA FreeSlotFacts == FreeSlot \in Slots => s_procs[FreeSlot] = None
<1>. DEFINE free == {i \in Slots : s_procs[i] = None}
<1>1. FreeSlot = IF free = {} THEN 0 ELSE CHOOSE i \in free : \A j \in free : i <= j
  BY Zenon DEF FreeSlot
<1>2. free \subseteq Nat /\ 0 \notin Slots
  BY SMTT(40) DEF Slots
<1>3. CASE free = {}
  BY <1>1, <1>2, <1>3, Zenon
<1>4. CASE free # {}
  <2>1. FreeSlot \in free
    <3>. HIDE DEF free
    <3>1. \E i \in free : \A j \in free : i <= j
      BY <1>2, <1>4, LeastNat, Zenon
    <3>. QED BY <1>1, <1>4, <3>1, Zenon
  <2>. QED BY <2>1, Zenon
<1>. QED BY <1>3, <1>4, Zenon

(* alloc_pid_locked ends: with fewer slots than pids some pid is not in use, and
   the scan stops at the first of them it meets. *)
LEMMA PidScanFacts ==
  ASSUME ProcessTypeOK
  PROVE  /\ PidScan \in 0..MaxPid - 1
         /\ PidAfter(next_pid, PidScan) \in Pids
         /\ \A i \in Slots : s_procs[i] # None => pid[s_procs[i]] # PidAfter(next_pid, PidScan)
<1>0. /\ next_pid \in Pids /\ s_procs \in [Slots -> Thread \cup {None}] /\ pid \in [Thread -> 0..MaxPid]
      /\ None \notin Thread
  BY SchedConstants, Zenon DEF ProcessTypeOK
<1>1. /\ MaxProcs \in Nat /\ MaxPid \in Nat /\ MaxProcs < MaxPid /\ Slots = 1..MaxProcs
      /\ 1..MaxProcs + 1 \subseteq Pids
  BY ProcessConstants, SMTT(40) DEF Slots, Pids
<1>2. PICK k \in Pids : PidFree(k)
  <2>. DEFINE f == [i \in 1..MaxProcs |-> IF s_procs[i] = None THEN 0 ELSE pid[s_procs[i]]]
  <2>1. f \in [1..MaxProcs -> Nat]
    <3>1. ASSUME NEW i \in 1..MaxProcs PROVE (IF s_procs[i] = None THEN 0 ELSE pid[s_procs[i]]) \in Nat
      <4>1. s_procs[i] # None => pid[s_procs[i]] \in 0..MaxPid
        BY <1>0, <1>1, Zenon
      <4>. QED BY <4>1, SMTT(40)
    <3>. QED BY <3>1, Zenon
  <2>2. PICK k \in 1..MaxProcs + 1 : \A i \in 1..MaxProcs : f[i] # k
    <3>. HIDE DEF f
    <3>. QED BY <1>1, <2>1, Missing, Zenon
  <2>3. ASSUME NEW i \in Slots, s_procs[i] # None PROVE pid[s_procs[i]] # k
    BY <1>1, <2>2, <2>3, Zenon
  <2>4. PidFree(k)
    BY <2>3, FindFacts, Zenon DEF PidFree
  <2>. QED BY <1>1, <2>4, Zenon
<1>3. PICK n \in 0..MaxPid - 1 : PidAfter(next_pid, n) = k
  BY <1>0, PidAfterOnto, Zenon
<1>. DEFINE F == {m \in 0..MaxPid - 1 : PidFree(PidAfter(next_pid, m))}
<1>4. F \subseteq Nat /\ F # {}
  <2>1. n \in F
    BY <1>2, <1>3, Zenon
  <2>2. 0..MaxPid - 1 \subseteq Nat
    BY <1>1, SMTT(40)
  <2>. QED BY <2>1, <2>2, Zenon
<1>5. PICK m \in F : \A j \in F : m <= j
  <2>. HIDE DEF F
  <2>. QED BY <1>4, LeastNat, Zenon
<1>6. ASSUME NEW j \in 0..m - 1 PROVE ~PidFree(PidAfter(next_pid, j))
  <2>1. j \in 0..MaxPid - 1 /\ ~(m <= j)
    BY <1>1, <1>5, SMTT(40)
  <2>. QED BY <1>5, <2>1, Zenon
<1>7. PidScan \in 0..MaxPid - 1 /\ PidFree(PidAfter(next_pid, PidScan))
  <2>. DEFINE P(i) == /\ PidFree(PidAfter(next_pid, i))
                      /\ \A j \in 0..i - 1 : ~PidFree(PidAfter(next_pid, j))
  <2>1. m \in 0..MaxPid - 1 /\ P(m)
    BY <1>5, <1>6, Zenon
  <2>2. PidScan = CHOOSE i \in 0..MaxPid - 1 : P(i)
    BY Zenon DEF PidScan
  <2>3. PidScan \in 0..MaxPid - 1 /\ P(PidScan)
    <3>. HIDE DEF P
    <3>. QED BY <2>1, <2>2, Zenon
  <2>. QED BY <2>3, Zenon
<1>8. PidScan \in Nat
  BY <1>1, <1>7, SMTT(40)
<1>. QED BY <1>0, <1>7, <1>8, FindFacts, PidAfterType, Zenon DEF PidFree
(* A step that leaves the table alone and keeps the other fields to their types. *)
LEMMA ProcMove ==
  ASSUME TableInv, SchedTypes', UNCHANGED <<workload, pmem, s_procs, next_pid, pid, parent>>,
         \A t \in Thread : mem'[t] = "none" => mem[t] = "none",
         exited' \in [Thread -> BOOLEAN], exit_status' \in [Thread -> {0, 130}],
         wait_queue' \in [Thread -> Seq(Thread)], proc_wait_lock' \in Thread \cup {None},
         ppc' \in [Thread -> ProcPc], target' \in [Thread -> Thread \cup {None}],
         how' \in [Thread -> {"none", "exit", "kill", "ctrlc", "fault"}],
         drain' \in [Thread -> Seq(Thread)],
         \A t \in Thread : ppc'[t] # "user" => target'[t] \in Thread,
         \A t \in Thread : target'[t] # None => pmem[target'[t]] # "none"
  PROVE  TableInv'
<1>1. /\ workload' = workload /\ pmem' = pmem /\ s_procs' = s_procs /\ next_pid' = next_pid
      /\ pid' = pid /\ parent' = parent
  BY Zenon
<1>2. TypeOK'
  BY Zenon DEF SchedTypes
<1>3. ProcessTypeOK'
  <2>1. ProcessTypeOK
    BY Zenon DEF TableInv, TableSound
  <2>. QED BY <1>1, <1>2, <2>1, ZenonT(60) DEF ProcessTypeOK
<1>4. TableSound'
  <2>1. /\ \A i, j \in Slots :
             s_procs[i] # None /\ s_procs[j] # None /\ pid[s_procs[i]] = pid[s_procs[j]] => i = j
        /\ \A i \in Slots : s_procs[i] # None => pmem[s_procs[i]] = "live"
    BY Zenon DEF TableInv, TableSound
  <2>2. /\ \A i, j \in Slots :
             s_procs'[i] # None /\ s_procs'[j] # None /\ pid'[s_procs'[i]] = pid'[s_procs'[j]] => i = j
        /\ \A i \in Slots : s_procs'[i] # None => pmem'[s_procs'[i]] = "live"
    BY ONLY <1>1, <2>1, SMTT(40)
  <2>. QED BY <1>3, <2>2, Zenon DEF TableSound
<1>5. \A t \in Thread : mem'[t] = "none" => pmem'[t] = "none"
  BY <1>1, Zenon DEF TableInv
<1>. QED BY <1>1, <1>4, <1>5, Zenon DEF TableInv

(* Thread x goes to label m, perhaps with a new target p that has a struct. *)
LEMMA CallerMove ==
  ASSUME TableInv, NEW x \in Thread, NEW m \in ProcPc, ppc' = [ppc EXCEPT ![x] = m],
         NEW p \in Thread \cup {None}, p # None => pmem[p] # "none",
         target' = target \/ target' = [target EXCEPT ![x] = p],
         m # "user" => target'[x] \in Thread
  PROVE  /\ ppc' \in [Thread -> ProcPc] /\ target' \in [Thread -> Thread \cup {None}]
         /\ \A t \in Thread : ppc'[t] # "user" => target'[t] \in Thread
         /\ \A t \in Thread : target'[t] # None => pmem[target'[t]] # "none"
<1>1. /\ ppc \in [Thread -> ProcPc] /\ target \in [Thread -> Thread \cup {None}]
      /\ \A t \in Thread : ppc[t] # "user" => target[t] \in Thread
      /\ \A t \in Thread : target[t] # None => pmem[target[t]] # "none"
  BY Zenon DEF TableInv, TableSound, ProcessTypeOK
<1>2. /\ ppc' \in [Thread -> ProcPc] /\ target' \in [Thread -> Thread \cup {None}]
      /\ ppc'[x] = m /\ \A t \in Thread : t # x => ppc'[t] = ppc[t] /\ target'[t] = target[t]
      /\ target'[x] = target[x] \/ target'[x] = p
  BY <1>1, Zenon
<1>3. ASSUME NEW t \in Thread PROVE /\ ppc'[t] # "user" => target'[t] \in Thread
                                    /\ target'[t] # None => pmem[target'[t]] # "none"
  <2>1. CASE t = x
    BY <1>1, <1>2, <2>1, Zenon
  <2>2. CASE t # x
    BY <1>1, <1>2, <2>2, Zenon
  <2>. QED BY <2>1, <2>2, Zenon
<1>. QED BY <1>2, <1>3, Zenon

(* The interrupt frees a thread at most: none comes into being unnoticed. *)
LEMMA IsrKeepsMem ==
  ASSUME NEW c \in CPU, EnterIsr(c), NEW t \in Thread, mem'[t] = "none"
  PROVE  mem[t] = "none"
BY Zenon DEF EnterIsr

(* The scheduler's steps under any of these processes. *)
LEMMA SchedStepTable ==
  ASSUME TableInv, NEW c \in CPU, UNCHANGED procVars,
         \/ SchedStep(c) \/ SysSleep(c) \/ SleepYield(c) \/ ThreadExit(c)
  PROVE  TableInv'
<1>0. SchedTypes
  BY Zenon DEF TableInv
<1>1. /\ UNCHANGED <<workload, pmem, s_procs, next_pid, pid, parent>>
      /\ UNCHANGED <<exited, exit_status, wait_queue, proc_wait_lock, ppc, target, how, drain>>
  BY Zenon DEF procVars, tableVars, exitVars, syscallVars
<1>2. SchedTypes'
  BY <1>0, ApEnterTypes, MoveTypes, QueueTypes, IsrTypes, TickTypes, SwitchTypes, Zenon
     DEF SchedStep, SysSleep, SleepYield
<1>3. \A t \in Thread : mem'[t] = "none" => mem[t] = "none"
  <2>1. CASE mem' = mem
    BY <2>1, Zenon
  <2>2. CASE EnterIsr(c)
    BY <2>2, IsrKeepsMem, Zenon
  <2>. QED BY <2>1, <2>2, Zenon DEF SchedStep, SysSleep, SleepYield, SchedApEnter, AcquireRq, SchedAdd,
              WakeSpin, SchedWake, SchedSleep, Timer, SchedTick, SwitchStack, SleepCall, Yield,
              ThreadExit, threadVars
<1>4. ProcessTypeOK /\ /\ \A t \in Thread : ppc[t] # "user" => target[t] \in Thread
                       /\ \A t \in Thread : target[t] # None => pmem[target[t]] # "none"
  BY Zenon DEF TableInv, TableSound
<1>5. /\ exited' \in [Thread -> BOOLEAN] /\ exit_status' \in [Thread -> {0, 130}]
      /\ wait_queue' \in [Thread -> Seq(Thread)] /\ proc_wait_lock' \in Thread \cup {None}
      /\ ppc' \in [Thread -> ProcPc] /\ target' \in [Thread -> Thread \cup {None}]
      /\ how' \in [Thread -> {"none", "exit", "kill", "ctrlc", "fault"}]
      /\ drain' \in [Thread -> Seq(Thread)]
      /\ \A t \in Thread : ppc'[t] # "user" => target'[t] \in Thread
      /\ \A t \in Thread : target'[t] # None => pmem[target'[t]] # "none"
  BY <1>1, <1>4, Zenon DEF ProcessTypeOK
<1>. QED BY <1>1, <1>2, <1>3, <1>5, ProcMove, Zenon
(* The start of process_mark_exited, by whoever calls it. *)
LEMMA BeginMarkTable ==
  ASSUME TableInv, NEW c \in CPU, At(c, "run"), NEW p \in Thread, pmem[p] # "none",
         NEW why \in {"exit", "kill", "ctrlc", "fault"}, BeginMark(c, p, why)
  PROVE  TableInv'
<1>0. SchedTypes /\ TypeOK /\ ProcessTypeOK
  BY Zenon DEF TableInv, SchedTypes, TableSound
<1>1. /\ ppc' = [ppc EXCEPT ![Cur(c)] = "mark"] /\ target' = [target EXCEPT ![Cur(c)] = p]
      /\ how' = [how EXCEPT ![Cur(c)] = why] /\ UNCHANGED vars
      /\ UNCHANGED <<workload, pmem, s_procs, next_pid, pid, parent>>
      /\ UNCHANGED <<exited, exit_status, wait_queue, proc_wait_lock, drain>>
  BY Zenon DEF BeginMark, Goto, tableVars, exitVars
<1>2. PICK x \in Thread : x = Cur(c)
  BY Runner, Zenon
<1>3. "mark" \in ProcPc /\ target'[x] = p
  BY <1>0, <1>1, <1>2, Zenon DEF ProcPc, ProcessTypeOK
<1>4. /\ ppc' \in [Thread -> ProcPc] /\ target' \in [Thread -> Thread \cup {None}]
      /\ \A t \in Thread : ppc'[t] # "user" => target'[t] \in Thread
      /\ \A t \in Thread : target'[t] # None => pmem[target'[t]] # "none"
  BY <1>1, <1>2, <1>3, CallerMove, Zenon
<1>5. /\ exited' \in [Thread -> BOOLEAN] /\ exit_status' \in [Thread -> {0, 130}]
      /\ wait_queue' \in [Thread -> Seq(Thread)] /\ proc_wait_lock' \in Thread \cup {None}
      /\ how' \in [Thread -> {"none", "exit", "kill", "ctrlc", "fault"}]
      /\ drain' \in [Thread -> Seq(Thread)]
  BY <1>0, <1>1, <1>2, Zenon DEF ProcessTypeOK
<1>6. SchedTypes' /\ mem' = mem
  BY <1>0, <1>1, StutterTypes, Zenon DEF vars, threadVars
<1>. QED BY <1>1, <1>4, <1>5, <1>6, ProcMove, Zenon

(* The thread of a process: the running one, with a struct process. *)
LEMMA Running ==
  ASSUME NEW c \in CPU, NEW p, PAt(c, p)
  PROVE  At(c, "run") /\ Cur(c) \in Thread /\ Cur(c) # None /\ ppc[Cur(c)] = p /\ pmem[Cur(c)] # "none"
BY Runner, Zenon DEF PAt

(* What process_find returns is a live process. *)
LEMMA Found ==
  ASSUME TableInv, NEW k, Find(k) # None
  PROVE  Find(k) \in Thread /\ pmem[Find(k)] = "live"
<1>1. PICK i \in Slots : Find(k) = s_procs[i]
  BY FindFacts, Zenon
<1>2. /\ s_procs \in [Slots -> Thread \cup {None}]
      /\ \A j \in Slots : s_procs[j] # None => pmem[s_procs[j]] = "live"
  BY Zenon DEF TableInv, TableSound, ProcessTypeOK
<1>3. s_procs[i] \in Thread \cup {None} /\ s_procs[i] # None
  BY <1>1, <1>2, Zenon
<1>. QED BY <1>1, <1>2, <1>3, Zenon

(* sys_exit, a fault, SYS_KILL. *)
LEMMA MarkCallTable ==
  ASSUME TableInv, NEW c \in CPU, SysExit(c) \/ UserFault(c) \/ \E k \in Pids : SysKill(c, k)
  PROVE  TableInv'
<1>1. At(c, "run") /\ Cur(c) \in Thread /\ pmem[Cur(c)] # "none"
  BY Running, Zenon DEF SysExit, UserFault, SysKill
<1>2. CASE BeginMark(c, Cur(c), "exit") \/ BeginMark(c, Cur(c), "fault")
  BY <1>1, <1>2, BeginMarkTable, Zenon
<1>3. CASE ThreadExit(c) /\ UNCHANGED procVars
  BY <1>3, SchedStepTable, Zenon
<1>4. ASSUME NEW k \in Pids, SysKill(c, k) PROVE TableInv'
  <2>1. Find(k) \in Thread /\ pmem[Find(k)] # "none" /\ BeginMark(c, Find(k), "kill")
    BY <1>4, Found, SMTT(30) DEF SysKill
  <2>. QED BY <1>1, <2>1, BeginMarkTable, Zenon
<1>. QED BY <1>2, <1>3, <1>4, Zenon DEF SysExit, UserFault
(* The steps of sys_waitpid and process_mark_exited that only move the caller,
   set its target or pass proc_wait_lock. *)
LEMMA StepTable ==
  ASSUME TableInv, NEW c \in CPU,
         \/ \E k \in Pids : SysWaitpid(c, k)
         \/ AcquireForMark(c) \/ WaitpidLoop(c) \/ AcquireForWait(c)
         \/ WaitDrop(c) \/ WaitReturn(c) \/ WaitSleep(c)
  PROVE  TableInv'
<1>0. /\ SchedTypes /\ TypeOK /\ ProcessTypeOK
      /\ \A t \in Thread : ppc[t] # "user" => target[t] \in Thread
      /\ \A t \in Thread : target[t] # None => pmem[target[t]] # "none"
  BY Zenon DEF TableInv, SchedTypes, TableSound
<1>1. PICK label : At(c, label)
  BY Zenon DEF SysWaitpid, AcquireForMark, WaitpidLoop, AcquireForWait, WaitDrop, WaitReturn, WaitSleep, PAt
<1>2. PICK x \in Thread : x = Cur(c)
  BY <1>1, Runner, Zenon
<1>3. CASE \E p \in Thread : pmem[p] # "none" /\ At(c, "run") /\ BeginMark(c, p, "ctrlc")
  BY <1>3, BeginMarkTable, Zenon
<1>4. ASSUME NEW m \in ProcPc \ {"user"}, ppc' = [ppc EXCEPT ![x] = m], NEW p \in Thread, pmem[p] # "none",
             (target' = target /\ ppc[x] # "user") \/ target' = [target EXCEPT ![x] = p],
             UNCHANGED <<workload, pmem, s_procs, next_pid, pid, parent>>,
             UNCHANGED <<exited, exit_status, wait_queue, how, drain>>,
             proc_wait_lock' \in {proc_wait_lock, x, None}, UNCHANGED vars \/ Yield(c)
      PROVE  TableInv'
  <2>1. target'[x] \in Thread
    BY <1>0, <1>4, ZenonT(60) DEF ProcessTypeOK
  <2>2. /\ ppc' \in [Thread -> ProcPc] /\ target' \in [Thread -> Thread \cup {None}]
        /\ \A t \in Thread : ppc'[t] # "user" => target'[t] \in Thread
        /\ \A t \in Thread : target'[t] # None => pmem[target'[t]] # "none"
    BY <1>4, <2>1, CallerMove, Zenon
  <2>3. /\ exited' \in [Thread -> BOOLEAN] /\ exit_status' \in [Thread -> {0, 130}]
        /\ wait_queue' \in [Thread -> Seq(Thread)] /\ proc_wait_lock' \in Thread \cup {None}
        /\ how' \in [Thread -> {"none", "exit", "kill", "ctrlc", "fault"}]
        /\ drain' \in [Thread -> Seq(Thread)]
    <3>1. proc_wait_lock \in Thread \cup {None}
      BY <1>0, Zenon DEF ProcessTypeOK
    <3>2. proc_wait_lock' \in Thread \cup {None}
      BY <1>4, <3>1, Zenon
    <3>. QED BY <1>0, <1>4, <3>2, Zenon DEF ProcessTypeOK
  <2>4. SchedTypes'
    BY <1>0, <1>4, StutterTypes, IsrTypes, Zenon
  <2>5. \A t \in Thread : mem'[t] = "none" => mem[t] = "none"
    <3>1. mem' = mem \/ EnterIsr(c)
      BY <1>4, Zenon DEF vars, threadVars, Yield
    <3>. QED BY <3>1, IsrKeepsMem, Zenon
  <2>. QED BY <1>4, <2>2, <2>3, <2>4, <2>5, ProcMove, Zenon
<1>5. ASSUME ppc[x] # "user" PROVE target[x] \in Thread /\ pmem[target[x]] # "none"
  <2>1. target[x] \in Thread /\ None \notin Thread
    BY <1>0, <1>5, SchedConstants, Zenon
  <2>2. target[x] # None
    BY <2>1, Zenon
  <2>. QED BY <1>0, <2>1, <2>2, Zenon
<1>6. CASE WaitpidLoop(c)
  <2>1. ppc[x] = "loop" /\ At(c, "run")
    BY <1>2, <1>6, Running, Zenon DEF WaitpidLoop
  <2>2. PICK p \in Thread : p = target[x] /\ pmem[p] # "none"
    BY <1>5, <2>1, Zenon
  <2>3. CASE BeginMark(c, p, "ctrlc")
    BY <1>3, <2>1, <2>2, <2>3, Zenon
  <2>4. CASE /\ Goto(c, IF TargetDone(p) THEN "reap" ELSE "pwacq")
             /\ UNCHANGED <<vars, tableVars, exitVars, target, how, drain>>
    <3>1. PICK m \in {"reap", "pwacq"} : ppc' = [ppc EXCEPT ![x] = m]
      BY <1>2, <2>4, Zenon DEF Goto
    <3>2. m \in ProcPc \ {"user"}
      BY Zenon DEF ProcPc
    <3>3. /\ UNCHANGED <<workload, pmem, s_procs, next_pid, pid, parent>> /\ UNCHANGED vars
          /\ UNCHANGED <<exited, exit_status, wait_queue, how, drain>> /\ target' = target
          /\ proc_wait_lock' = proc_wait_lock
      BY <2>4, Zenon DEF tableVars, exitVars
    <3>. QED BY <1>4, <2>1, <2>2, <3>1, <3>2, <3>3, Zenon
  <2>. QED BY <1>2, <1>6, <2>2, <2>3, <2>4, Zenon DEF WaitpidLoop
<1>7. CASE AcquireForMark(c) \/ AcquireForWait(c) \/ WaitDrop(c) \/ WaitReturn(c) \/ WaitSleep(c)
  <2>1. /\ ppc[x] # "user" /\ UNCHANGED <<workload, pmem, s_procs, next_pid, pid, parent>>
        /\ UNCHANGED <<exited, exit_status, wait_queue, how, drain>> /\ target' = target
        /\ UNCHANGED vars \/ Yield(c)
    BY <1>2, <1>7, Zenon DEF AcquireForMark, AcquireForWait, WaitDrop, WaitReturn, WaitSleep, PAt,
                             tableVars, exitVars
  <2>2. PICK m \in {"marking", "pwtest", "sleep", "pwacq", "loop"} : ppc' = [ppc EXCEPT ![x] = m]
    BY <1>2, <1>7, Zenon DEF AcquireForMark, AcquireForWait, WaitDrop, WaitReturn, WaitSleep, Goto
  <2>3. m \in ProcPc \ {"user"}
    BY Zenon DEF ProcPc
  <2>4. proc_wait_lock' \in {proc_wait_lock, x, None}
    BY <1>2, <1>7, Zenon DEF AcquireForMark, AcquireForWait, WaitDrop, WaitReturn, WaitSleep, exitVars
  <2>5. PICK p \in Thread : p = target[x] /\ pmem[p] # "none"
    BY <1>5, <2>1, Zenon
  <2>. QED BY <1>4, <2>1, <2>2, <2>3, <2>4, <2>5, Zenon
<1>8. ASSUME NEW k \in Pids, SysWaitpid(c, k) PROVE TableInv'
  <2>1. /\ Find(k) # None /\ target' = [target EXCEPT ![x] = Find(k)] /\ ppc' = [ppc EXCEPT ![x] = "loop"]
        /\ UNCHANGED <<workload, pmem, s_procs, next_pid, pid, parent>> /\ UNCHANGED vars
        /\ UNCHANGED <<exited, exit_status, wait_queue, how, drain>> /\ proc_wait_lock' = proc_wait_lock
    BY <1>2, <1>8, Zenon DEF SysWaitpid, Goto, tableVars, exitVars
  <2>2. PICK p \in Thread : p = Find(k) /\ pmem[p] # "none"
    BY <2>1, Found
  <2>3. "loop" \in ProcPc \ {"user"}
    BY Zenon DEF ProcPc
  <2>. QED BY <1>4, <2>1, <2>2, <2>3, Zenon
<1>. QED BY <1>6, <1>7, <1>8, Zenon
(* The steps that change a wait queue, a drained list or another thread's state. *)
LEMMA QueueStepTable ==
  ASSUME TableInv, NEW c \in CPU,
         MarkExited(c) \/ DrainWake(c) \/ KillDone(c) \/ WaitEnqueue(c)
  PROVE  TableInv'
<1>0. /\ SchedTypes /\ TypeOK /\ ProcessTypeOK
      /\ \A t \in Thread : ppc[t] # "user" => target[t] \in Thread
      /\ \A t \in Thread : target[t] # None => pmem[target[t]] # "none"
  BY Zenon DEF TableInv, SchedTypes, TableSound
<1>1. /\ Cur(c) \in Thread /\ ppc[Cur(c)] \in {"marking", "drain", "pwtest"}
  BY Running, Zenon DEF MarkExited, DrainWake, KillDone, WaitEnqueue
<1>2. PICK x \in Thread : x = Cur(c)
  BY <1>1, Zenon
<1>3. PICK p \in Thread : p = target[x]
  BY <1>0, <1>1, <1>2, Zenon
<1>4. ASSUME NEW m \in ProcPc, ppc' = [ppc EXCEPT ![x] = m] \/ ppc' = ppc, target' = target, how' = how,
             UNCHANGED <<workload, pmem, s_procs, next_pid, pid, parent>>,
             exited' \in [Thread -> BOOLEAN], exit_status' \in [Thread -> {0, 130}],
             wait_queue' \in [Thread -> Seq(Thread)], proc_wait_lock' \in Thread \cup {None},
             drain' \in [Thread -> Seq(Thread)], SchedTypes', mem' = mem
      PROVE  TableInv'
  <2>1. /\ ppc' \in [Thread -> ProcPc] /\ target' \in [Thread -> Thread \cup {None}]
        /\ \A t \in Thread : ppc'[t] # "user" => target'[t] \in Thread
        /\ \A t \in Thread : target'[t] # None => pmem[target'[t]] # "none"
    <3>1. CASE ppc' = ppc
      BY <1>0, <1>4, <3>1, Zenon DEF ProcessTypeOK
    <3>2. CASE ppc' = [ppc EXCEPT ![x] = m]
      <4>1. None \in Thread \cup {None} /\ target'[x] \in Thread
        BY <1>3, <1>4, Zenon
      <4>. QED BY <1>4, <3>2, <4>1, CallerMove, Zenon
    <3>. QED BY <1>4, <3>1, <3>2, Zenon
  <2>2. how' \in [Thread -> {"none", "exit", "kill", "ctrlc", "fault"}]
    BY <1>0, <1>4, Zenon DEF ProcessTypeOK
  <2>. QED BY <1>4, <2>1, <2>2, ProcMove, Zenon
<1>5. CASE MarkExited(c)
  <2>1. /\ exited' = [exited EXCEPT ![p] = TRUE]
        /\ exit_status' = [exit_status EXCEPT ![p] = IF how[x] = "exit" THEN 0 ELSE 130]
        /\ drain' = [drain EXCEPT ![x] = wait_queue[p]]
        /\ wait_queue' = [wait_queue EXCEPT ![p] = <<>>]
        /\ proc_wait_lock' = None /\ ppc' = [ppc EXCEPT ![x] = "drain"]
        /\ UNCHANGED vars /\ target' = target /\ how' = how
        /\ UNCHANGED <<workload, pmem, s_procs, next_pid, pid, parent>>
    BY <1>2, <1>3, <1>5, Zenon DEF MarkExited, Goto, tableVars
  <2>2. <<>> \in Seq(Thread) /\ "drain" \in ProcPc
    BY SMTT(40) DEF ProcPc
  <2>3. /\ exited' \in [Thread -> BOOLEAN] /\ exit_status' \in [Thread -> {0, 130}]
        /\ wait_queue' \in [Thread -> Seq(Thread)] /\ drain' \in [Thread -> Seq(Thread)]
    BY <1>0, <2>1, <2>2, Zenon DEF ProcessTypeOK
  <2>4. SchedTypes' /\ mem' = mem
    BY <1>0, <2>1, StutterTypes, Zenon DEF vars, threadVars
  <2>. QED BY <1>4, <2>1, <2>2, <2>3, <2>4, Zenon
<1>6. CASE DrainWake(c)
  <2>1. /\ drain[x] # <<>> /\ WakeCall(c, Head(drain[x])) /\ drain' = [drain EXCEPT ![x] = Tail(drain[x])]
        /\ UNCHANGED <<workload, pmem, s_procs, next_pid, pid, parent>>
        /\ UNCHANGED <<exited, exit_status, wait_queue, proc_wait_lock, ppc, target, how>>
    <3>1. drain' = [drain EXCEPT ![x] = Tail(@)]
      BY <1>2, <1>6, Zenon DEF DrainWake
    <3>2. drain' = [drain EXCEPT ![x] = Tail(drain[x])]
      BY <3>1, Zenon
    <3>. QED BY <1>2, <1>6, <3>2, Zenon DEF DrainWake, tableVars, exitVars
  <2>2. Head(drain[x]) \in Thread /\ Tail(drain[x]) \in Seq(Thread)
    <3>1. drain[x] \in Seq(Thread)
      BY <1>0, Zenon DEF ProcessTypeOK
    <3>. QED BY <2>1, <3>1, SMTT(40)
  <2>3. drain' \in [Thread -> Seq(Thread)]
    BY <1>0, <2>1, <2>2, Zenon DEF ProcessTypeOK
  <2>4. SchedTypes' /\ mem' = mem
    BY <1>0, <2>1, <2>2, MoveTypes, Zenon DEF WakeCall, threadVars
  <2>5. "user" \in ProcPc /\ ppc' = ppc /\ target' = target /\ how' = how
    BY <2>1, Zenon DEF ProcPc
  <2>6. /\ exited' \in [Thread -> BOOLEAN] /\ exit_status' \in [Thread -> {0, 130}]
        /\ wait_queue' \in [Thread -> Seq(Thread)] /\ proc_wait_lock' \in Thread \cup {None}
    BY <1>0, <2>1, Zenon DEF ProcessTypeOK
  <2>. QED BY <1>4, <2>1, <2>3, <2>4, <2>5, <2>6, Zenon
<1>7. CASE KillDone(c)
  <2>1. /\ state' = [state EXCEPT ![p] = "DEAD"]
        /\ UNCHANGED <<on_cpu, saved, mem, queueVars, cpuVars, callVars>>
        /\ UNCHANGED <<workload, pmem, s_procs, next_pid, pid, parent>>
        /\ UNCHANGED <<exited, exit_status, wait_queue, proc_wait_lock, target, how, drain>>
    BY <1>2, <1>3, <1>7, Zenon DEF KillDone, tableVars, exitVars
  <2>2. PICK m \in {"user", "reap"} : ppc' = [ppc EXCEPT ![x] = m]
    BY <1>2, <1>7, Zenon DEF KillDone, Goto
  <2>3. m \in ProcPc
    BY Zenon DEF ProcPc
  <2>4. SchedTypes' /\ mem' = mem
    BY <1>0, <2>1, StutterTypes, Zenon
  <2>5. /\ exited' \in [Thread -> BOOLEAN] /\ exit_status' \in [Thread -> {0, 130}]
        /\ wait_queue' \in [Thread -> Seq(Thread)] /\ proc_wait_lock' \in Thread \cup {None}
        /\ drain' \in [Thread -> Seq(Thread)] /\ target' = target /\ how' = how
    BY <1>0, <2>1, Zenon DEF ProcessTypeOK
  <2>. QED BY <1>4, <2>1, <2>2, <2>3, <2>4, <2>5, Zenon
<1>8. CASE WaitEnqueue(c)
  <2>1. /\ Block(c) /\ wait_queue' = [wait_queue EXCEPT ![p] = <<x>> \o wait_queue[p]]
        /\ ppc' = [ppc EXCEPT ![x] = "nap"]
        /\ UNCHANGED <<workload, pmem, s_procs, next_pid, pid, parent>>
        /\ UNCHANGED <<exited, exit_status, proc_wait_lock, target, how, drain>>
    <3>1. wait_queue' = [wait_queue EXCEPT ![p] = <<x>> \o @]
      BY <1>2, <1>3, <1>8, Zenon DEF WaitEnqueue
    <3>2. wait_queue' = [wait_queue EXCEPT ![p] = <<x>> \o wait_queue[p]]
      BY <3>1, Zenon
    <3>. QED BY <1>2, <1>3, <1>8, <3>2, Zenon DEF WaitEnqueue, Goto, tableVars
  <2>2. <<x>> \o wait_queue[p] \in Seq(Thread)
    <3>1. wait_queue[p] \in Seq(Thread)
      BY <1>0, Zenon DEF ProcessTypeOK
    <3>. QED BY <3>1, SMTT(40)
  <2>3. /\ exited' \in [Thread -> BOOLEAN] /\ exit_status' \in [Thread -> {0, 130}]
        /\ wait_queue' \in [Thread -> Seq(Thread)] /\ proc_wait_lock' \in Thread \cup {None}
        /\ drain' \in [Thread -> Seq(Thread)] /\ target' = target /\ how' = how
    BY <1>0, <2>1, <2>2, Zenon DEF ProcessTypeOK
  <2>4. SchedTypes' /\ mem' = mem
    BY <1>0, <2>1, MoveTypes, Zenon DEF Block
  <2>5. "nap" \in ProcPc
    BY Zenon DEF ProcPc
  <2>. QED BY <1>4, <2>1, <2>3, <2>4, <2>5, Zenon
<1>. QED BY <1>5, <1>6, <1>7, <1>8, Zenon
(* sys_spawn: a pid that no process in the table has, in a slot that was empty. *)
LEMMA SpawnTable ==
  ASSUME TableInv, NEW c \in CPU, NEW n \in Worker, SysSpawn(c, n)
  PROVE  TableInv'
<1>0. /\ SchedTypes /\ ProcessTypeOK /\ n \in Thread /\ None \notin Thread
      /\ \A t \in Thread : mem[t] = "none" => pmem[t] = "none"
      /\ \A t \in Thread : ppc[t] # "user" => target[t] \in Thread
      /\ \A t \in Thread : target[t] # None => pmem[target[t]] # "none"
  BY SchedConstants, Zenon DEF TableInv, TableSound, Worker
<1>. DEFINE k == PidAfter(next_pid, PidScan)
<1>1. /\ ThreadCreate(c, n) /\ PAt(c, "user") /\ mem[n] = "none" /\ mem' = [mem EXCEPT ![n] = "live"]
      /\ pmem' = [pmem EXCEPT ![n] = "live"] /\ pid' = [pid EXCEPT ![n] = k]
      /\ next_pid' = PidAfter(next_pid, PidScan + 1)
      /\ s_procs' = [i \in Slots |-> IF i = FreeSlot THEN n ELSE s_procs[i]]
      /\ parent' = [parent EXCEPT ![n] = Cur(c)]
      /\ UNCHANGED <<exited, exit_status, wait_queue, proc_wait_lock, ppc, target, how, drain>>
      /\ workload' = workload
  BY Zenon DEF SysSpawn, ThreadCreate, exitVars, syscallVars
<1>2. /\ PidScan \in 0..MaxPid - 1 /\ k \in Pids
      /\ \A i \in Slots : s_procs[i] # None => pid[s_procs[i]] # k
  BY <1>0, PidScanFacts, Zenon
<1>. HIDE DEF k
<1>3. next_pid' \in Pids /\ k \in 0..MaxPid
  <2>1. PidScan + 1 \in Nat /\ k \in 0..MaxPid
    BY <1>2, ProcessConstants, SMTT(40) DEF Pids
  <2>. QED BY <1>0, <1>1, <2>1, PidAfterType, Zenon DEF ProcessTypeOK
<1>4. PICK x \in Thread : x = Cur(c)
  BY <1>1, Running, Zenon
<1>5. SchedTypes'
  BY <1>0, <1>1, CreateTypes, Zenon
<1>6. /\ \A t \in Thread : t # n => pmem'[t] = pmem[t] /\ pid'[t] = pid[t] /\ mem'[t] = mem[t]
      /\ pmem'[n] = "live" /\ pid'[n] = k /\ mem'[n] = "live" /\ pmem[n] = "none"
  <2>1. mem \in [Thread -> {"none", "live", "freed"}]
    BY <1>0, Zenon DEF SchedTypes, TypeOK
  <2>2. pmem \in [Thread -> {"none", "live", "freed"}] /\ pid \in [Thread -> 0..MaxPid]
    BY <1>0, Zenon DEF ProcessTypeOK
  <2>3. pmem' = [pmem EXCEPT ![n] = "live"] /\ pid' = [pid EXCEPT ![n] = k]
        /\ mem' = [mem EXCEPT ![n] = "live"]
    BY <1>1, Zenon
  <2>4. pmem[n] = "none" /\ n \in Thread
    BY <1>0, <1>1, Zenon
  <2>. QED BY ONLY <2>1, <2>2, <2>3, <2>4, Zenon
<1>7. ProcessTypeOK'
  <2>1. s_procs' \in [Slots -> Thread \cup {None}]
    BY <1>0, <1>1, Zenon DEF ProcessTypeOK
  <2>2. /\ pmem' \in [Thread -> {"none", "live", "freed"}] /\ pid' \in [Thread -> 0..MaxPid]
        /\ parent' \in [Thread -> Thread \cup {None}]
    BY <1>0, <1>1, <1>3, <1>4, Zenon DEF ProcessTypeOK
  <2>. QED BY <1>0, <1>1, <1>3, <1>5, <2>1, <2>2, Zenon DEF ProcessTypeOK, SchedTypes
<1>8. ASSUME NEW i \in Slots, s_procs'[i] # None
      PROVE  /\ i = FreeSlot => s_procs'[i] = n
             /\ i # FreeSlot => /\ s_procs'[i] = s_procs[i] /\ s_procs[i] \in Thread /\ s_procs[i] # n
                                /\ s_procs[i] # None
                                /\ pid'[s_procs'[i]] = pid[s_procs[i]] /\ pid[s_procs[i]] # k
                                /\ pmem'[s_procs'[i]] = "live"
  <2>1. CASE i = FreeSlot
    BY <1>1, <2>1, Zenon
  <2>2. CASE i # FreeSlot
    <3>1. s_procs'[i] = s_procs[i] /\ s_procs[i] # None /\ s_procs[i] \in Thread \cup {None}
      BY <1>0, <1>1, <1>8, <2>2, Zenon DEF ProcessTypeOK
    <3>2. s_procs[i] \in Thread /\ pmem[s_procs[i]] = "live"
      BY <3>1, Zenon DEF TableInv, TableSound
    <3>3. s_procs[i] # n
      BY <1>6, <3>2, Zenon
    <3>. QED BY <1>2, <1>6, <2>2, <3>1, <3>2, <3>3, Zenon
  <2>. QED BY <2>1, <2>2, Zenon
<1>9. ASSUME NEW i \in Slots, NEW j \in Slots, s_procs'[i] # None, s_procs'[j] # None,
             pid'[s_procs'[i]] = pid'[s_procs'[j]]
      PROVE  i = j
  <2>1. CASE i = FreeSlot \/ j = FreeSlot
    BY <1>6, <1>8, <1>9, <2>1, Zenon
  <2>2. CASE i # FreeSlot /\ j # FreeSlot
    <3>1. s_procs[i] # None /\ s_procs[j] # None /\ pid[s_procs[i]] = pid[s_procs[j]]
      BY <1>8, <1>9, <2>2, Zenon
    <3>. QED BY <3>1, Zenon DEF TableInv, TableSound
  <2>. QED BY <2>1, <2>2, Zenon
<1>10. TableSound'
  <2>1. ASSUME NEW i \in Slots, s_procs'[i] # None PROVE pmem'[s_procs'[i]] = "live"
    BY <1>6, <1>8, <2>1, Zenon
  <2>. QED BY <1>7, <1>9, <2>1, Zenon DEF TableSound
<1>11. ASSUME NEW t \in Thread
       PROVE  /\ mem'[t] = "none" => pmem'[t] = "none"
              /\ target'[t] # None => pmem'[target'[t]] # "none"
  <2>1. mem'[t] = "none" => pmem'[t] = "none"
    BY <1>0, <1>6, Zenon
  <2>2. ASSUME target[t] # None PROVE pmem'[target[t]] # "none"
    <3>1. target[t] \in Thread /\ pmem[target[t]] # "none"
      BY <1>0, <2>2, ZenonT(60) DEF ProcessTypeOK
    <3>. QED BY <1>6, <3>1, Zenon
  <2>. QED BY <1>1, <2>1, <2>2, Zenon
<1>. QED BY <1>0, <1>1, <1>5, <1>10, <1>11, Zenon DEF TableInv

(* process_reap: the struct goes, and so does the slot that held it. *)
LEMMA ReapTable ==
  ASSUME TableInv, NEW c \in CPU, WaitpidReap(c)
  PROVE  TableInv'
<1>0. /\ SchedTypes /\ ProcessTypeOK /\ None \notin Thread
      /\ \A t \in Thread : mem[t] = "none" => pmem[t] = "none"
      /\ \A t \in Thread : ppc[t] # "user" => target[t] \in Thread
      /\ \A t \in Thread : target[t] # None => pmem[target[t]] # "none"
  BY SchedConstants, Zenon DEF TableInv, TableSound
<1>1. PAt(c, "reap") /\ At(c, "run") /\ Cur(c) \in Thread /\ ppc[Cur(c)] = "reap"
  BY Running, Zenon DEF WaitpidReap
<1>2. PICK x \in Thread : x = Cur(c)
  BY <1>1, Zenon
<1>3. PICK p \in Thread : p = target[x] /\ pmem[p] # "none"
  <2>1. target[x] \in Thread
    BY <1>0, <1>1, <1>2, Zenon
  <2>2. target[x] # None
    BY <1>0, <2>1, Zenon
  <2>. QED BY <1>0, <2>1, <2>2, Zenon
<1>4. /\ s_procs' = [i \in Slots |-> IF s_procs[i] = p THEN None ELSE s_procs[i]]
      /\ pmem' = [pmem EXCEPT ![p] = "freed"] /\ ppc' = [ppc EXCEPT ![x] = "user"]
      /\ target' = [target EXCEPT ![x] = None]
      /\ UNCHANGED vars /\ UNCHANGED <<workload, next_pid, pid, parent, how, drain>>
      /\ UNCHANGED <<exited, exit_status, wait_queue, proc_wait_lock>>
  BY <1>2, <1>3, Zenon DEF WaitpidReap, ReapStruct, Reaped, Goto, exitVars
<1>5. SchedTypes' /\ mem' = mem
  BY <1>0, <1>4, StutterTypes, Zenon DEF vars, threadVars
<1>6. /\ pmem'[p] = "freed" /\ \A t \in Thread : t # p => pmem'[t] = pmem[t]
      /\ pmem' \in [Thread -> {"none", "live", "freed"}]
  BY <1>0, <1>4, Zenon DEF ProcessTypeOK
<1>7. /\ ppc' \in [Thread -> ProcPc] /\ target' \in [Thread -> Thread \cup {None}]
      /\ \A t \in Thread : ppc'[t] # "user" => target'[t] \in Thread
      /\ \A t \in Thread : target'[t] # None => pmem[target'[t]] # "none"
  <2>1. "user" \in ProcPc /\ None \in Thread \cup {None}
    BY Zenon DEF ProcPc
  <2>. QED BY <1>4, <2>1, CallerMove, Zenon
<1>8. ProcessTypeOK'
  <2>1. s_procs' \in [Slots -> Thread \cup {None}]
    BY <1>0, <1>4, Zenon DEF ProcessTypeOK
  <2>. QED BY <1>0, <1>4, <1>5, <1>6, <1>7, <2>1, Zenon DEF ProcessTypeOK, SchedTypes
<1>9. ASSUME NEW i \in Slots, s_procs'[i] # None
      PROVE  s_procs'[i] = s_procs[i] /\ s_procs[i] # None /\ pmem'[s_procs'[i]] = "live"
  <2>1. s_procs'[i] = s_procs[i] /\ s_procs[i] # p /\ s_procs[i] # None
    BY <1>4, <1>9, Zenon
  <2>2. s_procs[i] \in Thread /\ pmem[s_procs[i]] = "live"
    <3>1. s_procs[i] \in Thread \cup {None}
      BY <1>0, Zenon DEF ProcessTypeOK
    <3>. QED BY <2>1, <3>1, Zenon DEF TableInv, TableSound
  <2>. QED BY <1>6, <2>1, <2>2, Zenon
<1>10. TableSound'
  <2>1. pid' = pid
    BY <1>4, Zenon
  <2>2. ASSUME NEW i \in Slots, NEW j \in Slots, s_procs'[i] # None, s_procs'[j] # None,
               pid'[s_procs'[i]] = pid'[s_procs'[j]]
        PROVE  i = j
    <3>1. s_procs[i] # None /\ s_procs[j] # None /\ pid[s_procs[i]] = pid[s_procs[j]]
      BY <1>9, <2>1, <2>2, Zenon
    <3>. QED BY <3>1, Zenon DEF TableInv, TableSound
  <2>. QED BY <1>8, <1>9, <2>2, Zenon DEF TableSound
<1>11. ASSUME NEW t \in Thread
       PROVE  /\ mem'[t] = "none" => pmem'[t] = "none"
              /\ target'[t] # None => pmem'[target'[t]] # "none"
  <2>1. mem'[t] = "none" => pmem'[t] = "none"
    BY <1>0, <1>3, <1>5, <1>6, Zenon
  <2>2. ASSUME target'[t] # None PROVE pmem'[target'[t]] # "none"
    <3>1. target'[t] \in Thread /\ pmem[target'[t]] # "none"
      BY <1>7, <2>2, Zenon
    <3>. QED BY <1>6, <3>1, Zenon
  <2>. QED BY <2>1, <2>2, Zenon
<1>. QED BY <1>5, <1>7, <1>10, <1>11, Zenon DEF TableInv

(* Every step of every workload preserves TableInv. *)
LEMMA TableNext ==
  ASSUME TableInv, [ProcessNext]_allVars
  PROVE  TableInv'
<1>1. CASE UNCHANGED allVars
  <2>1. UNCHANGED vars /\ UNCHANGED procVars
    BY <1>1, Zenon DEF allVars
  <2>2. /\ UNCHANGED <<workload, pmem, s_procs, next_pid, pid, parent>> /\ mem' = mem
        /\ UNCHANGED <<exited, exit_status, wait_queue, proc_wait_lock, ppc, target, how, drain>>
    BY <2>1, Zenon DEF procVars, tableVars, exitVars, syscallVars, vars, threadVars
  <2>3. SchedTypes'
    BY <2>1, StutterTypes, Zenon DEF TableInv
  <2>4. ProcessTypeOK /\ /\ \A t \in Thread : ppc[t] # "user" => target[t] \in Thread
                         /\ \A t \in Thread : target[t] # None => pmem[target[t]] # "none"
    BY Zenon DEF TableInv, TableSound
  <2>5. /\ exited' \in [Thread -> BOOLEAN] /\ exit_status' \in [Thread -> {0, 130}]
        /\ wait_queue' \in [Thread -> Seq(Thread)] /\ proc_wait_lock' \in Thread \cup {None}
        /\ ppc' \in [Thread -> ProcPc] /\ target' \in [Thread -> Thread \cup {None}]
        /\ how' \in [Thread -> {"none", "exit", "kill", "ctrlc", "fault"}]
        /\ drain' \in [Thread -> Seq(Thread)]
        /\ \A t \in Thread : ppc'[t] # "user" => target'[t] \in Thread
        /\ \A t \in Thread : target'[t] # None => pmem[target'[t]] # "none"
    BY <2>2, <2>4, Zenon DEF ProcessTypeOK
  <2>. QED BY <2>2, <2>3, <2>5, ProcMove, Zenon
<1>2. ASSUME NEW c \in CPU, SchedStep(c) PROVE TableInv'
  BY <1>2, SchedStepTable, Zenon DEF SchedStep
<1>3. ASSUME NEW c \in CPU, ProcessStep(c) PROVE TableInv'
  <2>1. CASE SysSleep(c) \/ SleepYield(c) \/ ExitDone(c)
    BY <2>1, SchedStepTable, Zenon DEF SysSleep, SleepYield, ExitDone
  <2>. QED BY <1>3, <2>1, SpawnTable, MarkCallTable, StepTable, QueueStepTable, ReapTable, Zenon
           DEF ProcessStep
<1>. QED BY <1>1, <1>2, <1>3, Zenon DEF ProcessNext

-----------------------------------------------------------------------------
(* The table at boot: the preloaded processes, with pids in slot order. *)

LEMMA InitTypes == Init => SchedTypes
<1>. SUFFICES ASSUME Init PROVE SchedTypes
  BY Zenon
<1>1. Boot \in Thread /\ None \notin Thread /\ Bsp \in CPU /\ Preloaded \in Seq(Thread)
  BY SchedConstants, SMTT(40) DEF Worker
<1>2. <<>> \in Seq(Thread) /\ 0 \in Nat
  BY SMTT(40)
<1>3. /\ state \in [Thread -> ThreadStates] /\ mem \in [Thread -> {"none", "live", "freed"}]
      /\ on_cpu \in [Thread -> BOOLEAN] /\ saved \in [Thread -> BOOLEAN]
      /\ rq \in Seq(Thread) /\ rq_lock \in Thread \cup {None} /\ sleepq \in Seq(Thread)
      /\ left \in [Thread -> Nat]
  BY <1>1, <1>2, SMTT(40) DEF Init, ThreadStates
<1>4. /\ cpu_current \in [CPU -> Thread \cup {None}] /\ reap_pending \in [CPU -> Thread \cup {None}]
      /\ cpu \in [CPU -> Phases] /\ stack \in [CPU -> Thread \cup {None}]
      /\ pc \in [Thread -> PcValues] /\ arg \in [Thread -> Thread \cup {None}]
      /\ waiting \in SUBSET Thread
  BY <1>1, Zenon DEF Init, Phases, PcValues
<1>5. \A c \in CPU : cpu_current[c] = None <=> cpu[c] = "off"
  BY <1>1, Zenon DEF Init
<1>6. TypeOK
  BY <1>3, <1>4, <1>5, Zenon DEF TypeOK
<1>7. \A c \in CPU : cpu[c] = "off" => stack[c] = None
  BY Zenon DEF Init
<1>8. \A u \in Thread : ~InCall(u)
  BY Zenon DEF Init, InCall
<1>. QED BY <1>6, <1>7, <1>8, Zenon DEF SchedTypes

LEMMA TableInit == ProcessInit => TableInv
<1>. SUFFICES ASSUME ProcessInit PROVE TableInv
  BY Zenon
<1>1. SchedTypes
  BY InitTypes, Zenon DEF ProcessInit
<1>. DEFINE n == Len(Preloaded)
            Slot(t) == CHOOSE i \in 1..n : Preloaded[i] = t
<1>2. /\ n \in Nat /\ n <= MaxProcs /\ n + 1 \in Pids /\ 1..n \subseteq 0..MaxPid /\ 0 \in 0..MaxPid
      /\ \A i \in 1..n : Preloaded[i] \in Thread /\ Preloaded[i] # None
      /\ \A i \in Slots : i <= n => i \in 1..n
  BY SchedConstants, ProcessConstants, SMTT(40) DEF Worker, Pids, Slots
<1>3. \A i, j \in 1..n : Preloaded[i] = Preloaded[j] => i = j
  BY SchedConstants, Zenon
<1>4. ASSUME NEW i \in 1..n PROVE Preloaded[i] \in PreloadedSet /\ Slot(Preloaded[i]) = i
  BY <1>3, Zenon DEF PreloadedSet
<1>5. ASSUME NEW t \in PreloadedSet PROVE Slot(t) \in 1..n
  BY Zenon DEF PreloadedSet
<1>. HIDE DEF n, Slot
<1>6. /\ workload \in Workloads
      /\ pmem = [t \in Thread |-> IF t \in PreloadedSet THEN "live" ELSE "none"]
      /\ s_procs = [i \in Slots |-> IF i <= n THEN Preloaded[i] ELSE None]
      /\ next_pid = n + 1
      /\ pid = [t \in Thread |-> IF t \in PreloadedSet THEN Slot(t) ELSE 0]
      /\ parent = [t \in Thread |-> None] /\ exited = [t \in Thread |-> FALSE]
      /\ exit_status = [t \in Thread |-> 0] /\ wait_queue = [t \in Thread |-> <<>>]
      /\ proc_wait_lock = None /\ ppc = [t \in Thread |-> "user"]
      /\ target = [t \in Thread |-> None] /\ how = [t \in Thread |-> "none"]
      /\ drain = [t \in Thread |-> <<>>]
  BY Zenon DEF ProcessInit, n, Slot
<1>7. ProcessTypeOK
  <2>1. <<>> \in Seq(Thread)
    BY SMTT(40)
  <2>2. /\ pmem \in [Thread -> {"none", "live", "freed"}] /\ pid \in [Thread -> 0..MaxPid]
        /\ s_procs \in [Slots -> Thread \cup {None}]
    BY <1>2, <1>5, <1>6, Zenon
  <2>3. /\ parent \in [Thread -> Thread \cup {None}] /\ exited \in [Thread -> BOOLEAN]
        /\ exit_status \in [Thread -> {0, 130}] /\ wait_queue \in [Thread -> Seq(Thread)]
        /\ proc_wait_lock \in Thread \cup {None} /\ ppc \in [Thread -> ProcPc]
        /\ target \in [Thread -> Thread \cup {None}]
        /\ how \in [Thread -> {"none", "exit", "kill", "ctrlc", "fault"}]
        /\ drain \in [Thread -> Seq(Thread)]
    BY <1>6, <2>1, Zenon DEF ProcPc
  <2>. QED BY <1>1, <1>2, <1>6, <2>2, <2>3, Zenon DEF ProcessTypeOK, SchedTypes
<1>8. ASSUME NEW i \in Slots, s_procs[i] # None
      PROVE  /\ i \in 1..n /\ s_procs[i] \in Thread
             /\ pid[s_procs[i]] = i /\ pmem[s_procs[i]] = "live"
  <2>1. i \in 1..n /\ s_procs[i] = Preloaded[i]
    BY <1>2, <1>6, <1>8, Zenon
  <2>. QED BY <1>2, <1>4, <1>6, <2>1, Zenon
<1>9. TableSound
  BY <1>7, <1>8, Zenon DEF TableSound
<1>10. \A t \in Thread : mem[t] = "none" => pmem[t] = "none"
  <2>1. \A t \in Thread : t \in PreloadedSet => mem[t] = "live"
    BY Zenon DEF ProcessInit, Init
  <2>. QED BY <1>6, <2>1, Zenon
<1>. QED BY <1>1, <1>6, <1>9, <1>10, Zenon DEF TableInv

(* The table stays sound whatever the processes do, process_kill and Ctrl+C included. *)
THEOREM TableInvariant == ProcessSpec => []TableInv
<1>1. ProcessInit => TableInv
  BY TableInit, Zenon
<1>2. TableInv /\ [ProcessNext]_allVars => TableInv'
  BY TableNext, Zenon
<1>. QED BY <1>1, <1>2, PTL DEF ProcessSpec

(* TableSound: alloc_pid_locked never hands out a pid in use, the wrap of next_pid
   included, and no slot of s_procs outlives the struct it points to. *)
THEOREM TableSoundHolds == ProcessSpec => []TableSound
<1>1. TableInv => TableSound
  BY Zenon DEF TableInv
<1>. QED BY <1>1, TableInvariant, PTL

-----------------------------------------------------------------------------
(* The family discipline: a process marks itself, and its parent reaps it. *)

(* What FamilyInv says of one thread, given where it is and what it works on. *)
FamilyMember(t, at, p, why) ==
  /\ at \in Exiting => p = t /\ why \in {"exit", "fault"}
  /\ at \in Collecting => parent[p] = t /\ pmem[p] = "live"
  /\ at = "reap" => exited[p]

(* A step that changes no struct process and moves thread x alone. *)
LEMMA FamilyMove ==
  ASSUME FamilyInv, NEW x \in Thread, parent' = parent, pmem' = pmem, exited' = exited,
         \A t \in Thread : t # x => ppc'[t] = ppc[t] /\ target'[t] = target[t] /\ how'[t] = how[t],
         FamilyMember(x, ppc'[x], target'[x], how'[x]), exited[x] => ppc'[x] = "drain"
  PROVE  FamilyInv'
<1>1. ASSUME NEW t \in Thread
      PROVE  FamilyMember(t, ppc'[t], target'[t], how'[t]) /\ (exited[t] => ppc'[t] = "drain")
  <2>1. CASE t = x
    BY <2>1, Zenon
  <2>2. CASE t # x
    <3>1. FamilyMember(t, ppc[t], target[t], how[t]) /\ (exited[t] => ppc[t] = "drain")
      BY Zenon DEF FamilyInv, FamilyMember
    <3>. QED BY <2>2, <3>1, Zenon
  <2>. QED BY <2>1, <2>2, Zenon
<1>2. \A p \in Thread : pmem'[p] = "freed" => exited'[p]
  BY Zenon DEF FamilyInv
<1>. QED BY <1>1, <1>2, Zenon DEF FamilyInv, FamilyMember

(* Steps that leave the caller where it is. *)
LEMMA FamilyStutter ==
  ASSUME FamilyInv, UNCHANGED <<parent, pmem, exited, ppc, target, how>>
  PROVE  FamilyInv'
BY Zenon DEF FamilyInv

(* sys_exit and a fault: the process works on itself. *)
LEMMA FamilyMark ==
  ASSUME TableInv, FamilyInv, NEW c \in CPU, PAt(c, "user"), NEW why \in {"exit", "fault"},
         BeginMark(c, Cur(c), why)
  PROVE  FamilyInv'
<1>1. PICK x \in Thread : x = Cur(c) /\ ppc[x] = "user"
  BY Running, Zenon
<1>2. /\ ppc \in [Thread -> ProcPc] /\ target \in [Thread -> Thread \cup {None}]
      /\ how \in [Thread -> {"none", "exit", "kill", "ctrlc", "fault"}]
  BY Zenon DEF TableInv, TableSound, ProcessTypeOK
<1>3. /\ ppc' = [ppc EXCEPT ![x] = "mark"] /\ target' = [target EXCEPT ![x] = x]
      /\ how' = [how EXCEPT ![x] = why] /\ parent' = parent /\ pmem' = pmem /\ exited' = exited
  BY <1>1, Zenon DEF BeginMark, Goto, tableVars, exitVars
<1>4. /\ ppc'[x] = "mark" /\ target'[x] = x /\ how'[x] = why
      /\ \A t \in Thread : t # x => ppc'[t] = ppc[t] /\ target'[t] = target[t] /\ how'[t] = how[t]
  BY <1>2, <1>3, Zenon
<1>5. ~exited[x]
  BY <1>1, Zenon DEF FamilyInv
<1>6. FamilyMember(x, ppc'[x], target'[x], how'[x])
  BY <1>4, Zenon DEF FamilyMember, Exiting, Collecting
<1>. QED BY <1>3, <1>4, <1>5, <1>6, FamilyMove, Zenon

(* sys_waitpid up to its reap, and process_mark_exited up to its locked body. *)
LEMMA FamilyWait ==
  ASSUME TableInv, FamilyInv, Orderly, NEW c \in CPU,
         \/ \E k \in Pids : SysWaitpid(c, k)
         \/ AcquireForMark(c) \/ WaitpidLoop(c) \/ AcquireForWait(c) \/ WaitEnqueue(c)
         \/ WaitDrop(c) \/ WaitReturn(c) \/ WaitSleep(c)
  PROVE  FamilyInv'
<1>1. PICK label : At(c, label)
  BY Zenon DEF SysWaitpid, AcquireForMark, WaitpidLoop, AcquireForWait, WaitEnqueue, WaitDrop,
               WaitReturn, WaitSleep, PAt
<1>2. PICK x \in Thread : x = Cur(c)
  BY <1>1, Runner, Zenon
<1>3. /\ ppc \in [Thread -> ProcPc] /\ target \in [Thread -> Thread \cup {None}]
  BY Zenon DEF TableInv, TableSound, ProcessTypeOK
<1>4. /\ FamilyMember(x, ppc[x], target[x], how[x]) /\ (exited[x] => ppc[x] = "drain")
  BY Zenon DEF FamilyInv, FamilyMember
<1>5. ASSUME NEW m, ppc' = [ppc EXCEPT ![x] = m], ppc[x] # "drain",
             target' = target, how' = how, parent' = parent, pmem' = pmem, exited' = exited,
             FamilyMember(x, m, target[x], how[x])
      PROVE  FamilyInv'
  <2>1. /\ ppc'[x] = m /\ target'[x] = target[x] /\ how'[x] = how[x]
        /\ \A t \in Thread : t # x => ppc'[t] = ppc[t] /\ target'[t] = target[t] /\ how'[t] = how[t]
    BY <1>3, <1>5, Zenon
  <2>. QED BY <1>4, <1>5, <2>1, FamilyMove, Zenon
<1>6. CASE WaitpidLoop(c)
  <2>1. ppc[x] = "loop" /\ "ctrlc" \notin workload.calls
    BY <1>2, <1>6, Zenon DEF WaitpidLoop, PAt, Orderly
  <2>2. /\ ppc' = [ppc EXCEPT ![x] = IF exited[target[x]] THEN "reap" ELSE "pwacq"]
        /\ target' = target /\ how' = how /\ parent' = parent /\ pmem' = pmem /\ exited' = exited
    BY <1>2, <1>6, <2>1, Zenon DEF WaitpidLoop, TargetDone, Goto, tableVars, exitVars
  <2>3. PICK m : m = IF exited[target[x]] THEN "reap" ELSE "pwacq"
    BY Zenon
  <2>4. FamilyMember(x, m, target[x], how[x])
    BY <1>4, <2>1, <2>3, Zenon DEF FamilyMember, Exiting, Collecting
  <2>. QED BY <1>5, <2>1, <2>2, <2>3, <2>4, Zenon
<1>7. CASE AcquireForMark(c)
  <2>1. /\ ppc[x] = "mark" /\ ppc' = [ppc EXCEPT ![x] = "marking"]
        /\ target' = target /\ how' = how /\ parent' = parent /\ pmem' = pmem /\ exited' = exited
    BY <1>2, <1>7, Zenon DEF AcquireForMark, PAt, Goto, tableVars
  <2>2. FamilyMember(x, "marking", target[x], how[x])
    BY <1>4, <2>1, Zenon DEF FamilyMember, Exiting, Collecting
  <2>. QED BY <1>5, <2>1, <2>2, Zenon
<1>8. CASE \/ AcquireForWait(c) \/ WaitEnqueue(c) \/ WaitDrop(c) \/ WaitReturn(c) \/ WaitSleep(c)
  <2>1. /\ ppc[x] \in {"pwacq", "pwtest", "nap", "sleep"}
        /\ target' = target /\ how' = how /\ parent' = parent /\ pmem' = pmem /\ exited' = exited
    BY <1>2, <1>8, Zenon DEF AcquireForWait, WaitEnqueue, WaitDrop, WaitReturn, WaitSleep, PAt,
                             tableVars, exitVars
  <2>2. PICK m \in {"pwtest", "nap", "sleep", "pwacq", "loop"} : ppc' = [ppc EXCEPT ![x] = m]
    BY <1>2, <1>8, Zenon DEF AcquireForWait, WaitEnqueue, WaitDrop, WaitReturn, WaitSleep, Goto
  <2>3. FamilyMember(x, m, target[x], how[x])
    BY <1>4, <2>1, <2>2, Zenon DEF FamilyMember, Exiting, Collecting
  <2>4. ppc[x] # "drain"
    BY <2>1, Zenon
  <2>. QED BY <1>5, <2>1, <2>2, <2>3, <2>4, Zenon
<1>9. ASSUME NEW k \in Pids, SysWaitpid(c, k) PROVE FamilyInv'
  <2>1. /\ ppc[x] = "user" /\ Find(k) # None /\ parent[Find(k)] = x
        /\ target' = [target EXCEPT ![x] = Find(k)] /\ ppc' = [ppc EXCEPT ![x] = "loop"]
        /\ how' = how /\ parent' = parent /\ pmem' = pmem /\ exited' = exited
    BY <1>2, <1>9, Zenon DEF SysWaitpid, PAt, Orderly, Goto, tableVars, exitVars
  <2>2. PICK p \in Thread : p = Find(k) /\ pmem[p] = "live"
    BY <2>1, Found, Zenon
  <2>3. /\ ppc'[x] = "loop" /\ target'[x] = p
        /\ \A t \in Thread : t # x => ppc'[t] = ppc[t] /\ target'[t] = target[t] /\ how'[t] = how[t]
    BY <1>3, <2>1, <2>2, Zenon
  <2>4. FamilyMember(x, ppc'[x], target'[x], how'[x])
    BY <2>1, <2>2, <2>3, Zenon DEF FamilyMember, Exiting, Collecting
  <2>5. ~exited[x]
    BY <1>4, <2>1, Zenon
  <2>. QED BY <2>1, <2>3, <2>4, <2>5, FamilyMove, Zenon
<1>. QED BY <1>6, <1>7, <1>8, <1>9, Zenon

(* What FamilyInv says of one thread, and conversely. *)
LEMMA FamilyFacts ==
  ASSUME FamilyInv, NEW t \in Thread
  PROVE  /\ FamilyMember(t, ppc[t], target[t], how[t])
         /\ exited[t] => ppc[t] = "drain"
         /\ pmem[t] = "freed" => exited[t]
BY Zenon DEF FamilyInv, FamilyMember

(* A thread that waits for a process: its target is that process, its child. *)
LEMMA Collects ==
  ASSUME TableInv, FamilyInv, NEW t \in Thread, ppc[t] \in Collecting
  PROVE  /\ target[t] \in Thread /\ parent[target[t]] = t /\ pmem[target[t]] = "live"
         /\ ppc[t] = "reap" => exited[target[t]]
<1>1. ppc[t] # "user"
  BY Zenon DEF Collecting
<1>2. target[t] \in Thread
  BY <1>1, Zenon DEF TableInv
<1>. QED BY <1>2, FamilyFacts, Zenon DEF FamilyMember

(* The locked body of process_mark_exited: the process itself is now exited. *)
LEMMA FamilyMarkExited ==
  ASSUME TableInv, FamilyInv, NEW c \in CPU, MarkExited(c)
  PROVE  FamilyInv'
<1>0. PAt(c, "marking")
  BY Zenon DEF MarkExited
<1>a. Cur(c) \in Thread /\ ppc[Cur(c)] = "marking"
  BY <1>0, Running, Zenon
<1>1. PICK x \in Thread : x = Cur(c) /\ ppc[x] = "marking"
  BY <1>a, Zenon
<1>2. ppc \in [Thread -> ProcPc] /\ exited \in [Thread -> BOOLEAN]
  BY Zenon DEF TableInv, TableSound, ProcessTypeOK
<1>3. target[x] = x /\ how[x] \in {"exit", "fault"}
  BY <1>1, FamilyFacts, Zenon DEF FamilyMember, Exiting
<1>4. /\ exited' = [exited EXCEPT ![x] = TRUE] /\ ppc' = [ppc EXCEPT ![x] = "drain"]
      /\ target' = target /\ how' = how /\ parent' = parent /\ pmem' = pmem
  BY <1>1, <1>3, Zenon DEF MarkExited, Goto, tableVars
<1>5. /\ ppc'[x] = "drain" /\ \A t \in Thread : t # x => ppc'[t] = ppc[t]
      /\ exited'[x] /\ \A t \in Thread : t # x => exited'[t] = exited[t]
      /\ \A t \in Thread : exited[t] => exited'[t]
  BY <1>2, <1>4, Zenon
<1>6. ASSUME NEW t \in Thread PROVE
        /\ ppc'[t] \in Exiting => target'[t] = t /\ how'[t] \in {"exit", "fault"}
        /\ ppc'[t] \in Collecting => parent'[target'[t]] = t /\ pmem'[target'[t]] = "live"
        /\ ppc'[t] = "reap" => exited'[target'[t]]
        /\ exited'[t] => ppc'[t] = "drain"
        /\ pmem'[t] = "freed" => exited'[t]
  <2>1. CASE t = x
    BY <1>3, <1>4, <1>5, <2>1, Zenon DEF Exiting, Collecting
  <2>2. CASE t # x
    <3>1. /\ ppc'[t] = ppc[t] /\ exited'[t] = exited[t] /\ target'[t] = target[t] /\ how'[t] = how[t]
      BY <1>4, <1>5, <2>2, Zenon
    <3>2. ppc[t] = "reap" => target[t] \in Thread
      BY Zenon DEF TableInv
    <3>3. ppc[t] = "reap" => exited'[target[t]]
      BY <1>5, <3>2, ZenonT(60) DEF FamilyInv
    <3>4. /\ FamilyMember(t, ppc[t], target[t], how[t]) /\ (exited[t] => ppc[t] = "drain")
          /\ pmem[t] = "freed" => exited[t]
      BY FamilyFacts, Zenon
    <3>. QED BY <1>4, <3>1, <3>3, <3>4, Zenon DEF FamilyMember
  <2>. QED BY <2>1, <2>2, Zenon
<1>. QED BY <1>6, Zenon DEF FamilyInv

(* The parent frees the struct of its exited child: nobody else waits for it. *)
LEMMA FamilyReap ==
  ASSUME TableInv, FamilyInv, NEW c \in CPU, WaitpidReap(c)
  PROVE  FamilyInv'
<1>0. PAt(c, "reap")
  BY Zenon DEF WaitpidReap
<1>a. Cur(c) \in Thread /\ ppc[Cur(c)] = "reap"
  BY <1>0, Running, Zenon
<1>1. PICK x \in Thread : x = Cur(c) /\ ppc[x] = "reap"
  BY <1>a, Zenon
<1>2. /\ ppc \in [Thread -> ProcPc] /\ target \in [Thread -> Thread \cup {None}]
      /\ pmem \in [Thread -> {"none", "live", "freed"}]
  BY Zenon DEF TableInv, TableSound, ProcessTypeOK
<1>3. PICK p \in Thread : p = target[x] /\ parent[p] = x /\ exited[p]
  BY <1>1, Collects, Zenon DEF Collecting
<1>4. /\ pmem' = [pmem EXCEPT ![p] = "freed"] /\ ppc' = [ppc EXCEPT ![x] = "user"]
      /\ target' = [target EXCEPT ![x] = None] /\ how' = how /\ parent' = parent /\ exited' = exited
  BY <1>1, <1>3, Zenon DEF WaitpidReap, ReapStruct, Goto, exitVars
<1>5. /\ ppc'[x] = "user" /\ \A t \in Thread : t # x => ppc'[t] = ppc[t] /\ target'[t] = target[t]
      /\ pmem'[p] = "freed" /\ \A t \in Thread : t # p => pmem'[t] = pmem[t]
  BY <1>2, <1>4, Zenon
<1>6. ~exited[x]
  BY <1>1, Zenon DEF FamilyInv
<1>7. ASSUME NEW t \in Thread PROVE
        /\ ppc'[t] \in Exiting => target'[t] = t /\ how'[t] \in {"exit", "fault"}
        /\ ppc'[t] \in Collecting => parent'[target'[t]] = t /\ pmem'[target'[t]] = "live"
        /\ ppc'[t] = "reap" => exited'[target'[t]]
        /\ exited'[t] => ppc'[t] = "drain"
        /\ pmem'[t] = "freed" => exited'[t]
  <2>1. pmem'[t] = "freed" => exited'[t]
    <3>1. CASE t = p
      BY <1>3, <1>4, <3>1, Zenon
    <3>2. CASE t # p
      BY <1>4, <1>5, <3>2, FamilyFacts, Zenon
    <3>. QED BY <3>1, <3>2, Zenon
  <2>2. CASE t = x
    BY <1>4, <1>5, <1>6, <2>1, <2>2, Zenon DEF Exiting, Collecting
  <2>3. CASE t # x
    <3>1. ppc'[t] = ppc[t] /\ target'[t] = target[t] /\ how'[t] = how[t]
      BY <1>4, <1>5, <2>3, Zenon
    <3>2. ASSUME ppc[t] \in Collecting PROVE pmem'[target[t]] = "live" /\ parent[target[t]] = t
      <4>1. parent[target[t]] = t /\ pmem[target[t]] = "live" /\ target[t] \in Thread
        BY <3>2, Collects, Zenon
      <4>2. target[t] # p
        BY <1>3, <2>3, <4>1, Zenon
      <4>. QED BY <1>5, <4>1, <4>2, Zenon
    <3>3. FamilyMember(t, ppc[t], target[t], how[t]) /\ (exited[t] => ppc[t] = "drain")
      BY FamilyFacts, Zenon
    <3>. QED BY <1>4, <2>1, <3>1, <3>2, <3>3, Zenon DEF FamilyMember
  <2>. QED BY <2>2, <2>3, Zenon
<1>. QED BY <1>7, Zenon DEF FamilyInv

(* sys_spawn: nobody has worked on the new process yet. *)
LEMMA FamilySpawn ==
  ASSUME TableInv, FamilyInv, NEW c \in CPU, NEW n \in Worker, SysSpawn(c, n)
  PROVE  FamilyInv'
<1>1. n \in Thread /\ mem[n] = "none"
  BY Zenon DEF Worker, SysSpawn, ThreadCreate
<1>2. pmem[n] = "none"
  BY <1>1, Zenon DEF TableInv
<1>3. /\ pmem \in [Thread -> {"none", "live", "freed"}]
      /\ parent \in [Thread -> Thread \cup {None}]
  BY Zenon DEF TableInv, TableSound, ProcessTypeOK
<1>4. /\ pmem' = [pmem EXCEPT ![n] = "live"] /\ parent' = [parent EXCEPT ![n] = Cur(c)]
      /\ ppc' = ppc /\ target' = target /\ how' = how /\ exited' = exited
  BY Zenon DEF SysSpawn, exitVars, syscallVars
<1>5. /\ pmem'[n] = "live"
      /\ \A t \in Thread : t # n => pmem'[t] = pmem[t] /\ parent'[t] = parent[t]
  BY <1>1, <1>3, <1>4, Zenon
<1>6. ASSUME NEW t \in Thread, ppc[t] \in Collecting
      PROVE  parent'[target[t]] = t /\ pmem'[target[t]] = "live"
  <2>1. parent[target[t]] = t /\ pmem[target[t]] = "live" /\ target[t] \in Thread
    BY <1>6, Collects, Zenon
  <2>2. target[t] # n
    BY <1>2, <2>1, Zenon
  <2>. QED BY <1>5, <2>1, <2>2, Zenon
<1>7. ASSUME NEW p \in Thread, pmem'[p] = "freed" PROVE exited'[p]
  <2>1. p # n
    BY <1>5, <1>7, Zenon
  <2>. QED BY <1>4, <1>5, <1>7, <2>1, FamilyFacts, Zenon
<1>. QED BY <1>4, <1>6, <1>7, ZenonT(60) DEF FamilyInv

(* Every step of a workload without kills, where only parents wait. *)
LEMMA FamilyNext ==
  ASSUME TableInv, FamilyInv, Orderly, [ProcessNext]_allVars
  PROVE  FamilyInv'
<1>1. CASE UNCHANGED <<parent, pmem, exited, ppc, target, how>>
  BY <1>1, FamilyStutter, Zenon
<1>2. CASE UNCHANGED procVars
  BY <1>1, <1>2, Zenon DEF procVars, tableVars, exitVars, syscallVars
<1>3. CASE UNCHANGED allVars
  BY <1>2, <1>3, Zenon DEF allVars
<1>4. ASSUME NEW c \in CPU, SchedStep(c) PROVE FamilyInv'
  BY <1>2, <1>4, Zenon DEF SchedStep
<1>5. ASSUME NEW c \in CPU, ProcessStep(c) PROVE FamilyInv'
  <2>1. CASE SysExit(c)
    BY <2>1, FamilyMark, Zenon DEF SysExit
  <2>2. CASE UserFault(c)
    <3>1. PAt(c, "user") /\ (UNCHANGED procVars \/ BeginMark(c, Cur(c), "fault"))
      BY <2>2, Zenon DEF UserFault
    <3>. QED BY <1>2, <3>1, FamilyMark, Zenon
  <2>3. CASE SysSleep(c) \/ SleepYield(c) \/ ExitDone(c)
    BY <1>2, <2>3, Zenon DEF SysSleep, SleepYield, ExitDone
  <2>4. CASE DrainWake(c)
    BY <1>1, <2>4, Zenon DEF DrainWake, tableVars, exitVars
  <2>5. ASSUME KillDone(c) PROVE FALSE
    <3>1. PAt(c, "drain") /\ how[Cur(c)] \in {"kill", "ctrlc"}
      BY <2>5, Zenon DEF KillDone
    <3>2. PICK x \in Thread : x = Cur(c) /\ ppc[x] = "drain"
      BY <3>1, Running, Zenon
    <3>3. how[x] \in {"exit", "fault"}
      BY <3>2, FamilyFacts, Zenon DEF FamilyMember, Exiting
    <3>. QED BY <3>1, <3>2, <3>3, Zenon
  <2>6. ASSUME NEW k \in Pids, SysKill(c, k) PROVE FALSE
    BY <2>6, Zenon DEF SysKill, Orderly
  <2>7. \/ \E n \in Worker : SysSpawn(c, n)
        \/ SysExit(c) \/ UserFault(c) \/ SysSleep(c) \/ SleepYield(c)
        \/ MarkExited(c) \/ DrainWake(c) \/ ExitDone(c) \/ WaitpidReap(c)
        \/ \E k \in Pids : SysWaitpid(c, k)
        \/ AcquireForMark(c) \/ WaitpidLoop(c) \/ AcquireForWait(c) \/ WaitEnqueue(c)
        \/ WaitDrop(c) \/ WaitReturn(c) \/ WaitSleep(c)
    BY <1>5, <2>5, <2>6, Zenon DEF ProcessStep
  <2>. QED BY <2>1, <2>2, <2>3, <2>4, <2>7, FamilySpawn, FamilyMarkExited, FamilyReap, FamilyWait, Zenon
<1>. QED BY <1>3, <1>4, <1>5, Zenon DEF ProcessNext

(* The workload is chosen once: it never changes from orderly to disorderly. *)
LEMMA WorkloadFixed ==
  ASSUME [ProcessNext]_allVars
  PROVE  workload' = workload
<1>1. CASE UNCHANGED allVars
  BY <1>1, Zenon DEF allVars, procVars, tableVars
<1>2. ASSUME NEW c \in CPU, SchedStep(c) PROVE workload' = workload
  BY <1>2, Zenon DEF SchedStep, procVars, tableVars
<1>3. ASSUME NEW c \in CPU, ProcessStep(c) PROVE workload' = workload
  <2>1. CASE \/ \E n \in Worker : SysSpawn(c, n)
             \/ SysExit(c) \/ UserFault(c) \/ SysSleep(c) \/ SleepYield(c)
             \/ \E k \in Pids : SysKill(c, k) \/ SysWaitpid(c, k)
    BY <2>1, Zenon DEF SysSpawn, SysExit, UserFault, SysSleep, SleepYield, SysKill, SysWaitpid,
                       BeginMark, procVars, tableVars
  <2>2. CASE AcquireForMark(c) \/ MarkExited(c) \/ DrainWake(c) \/ ExitDone(c) \/ KillDone(c)
    BY <2>2, Zenon DEF AcquireForMark, MarkExited, DrainWake, ExitDone, KillDone, procVars, tableVars
  <2>3. CASE \/ WaitpidLoop(c) \/ AcquireForWait(c) \/ WaitEnqueue(c) \/ WaitDrop(c)
             \/ WaitSleep(c) \/ WaitReturn(c) \/ WaitpidReap(c)
    BY <2>3, Zenon DEF WaitpidLoop, AcquireForWait, WaitEnqueue, WaitDrop, WaitSleep, WaitReturn,
                       WaitpidReap, BeginMark, tableVars
  <2>. QED BY <1>3, <2>1, <2>2, <2>3, Zenon DEF ProcessStep
<1>. QED BY <1>1, <1>2, <1>3, Zenon DEF ProcessNext

LEMMA FamilyInit == ProcessInit => FamilyInv
<1>. SUFFICES ASSUME ProcessInit PROVE FamilyInv
  BY Zenon
<1>1. \A t \in Thread : ppc[t] = "user" /\ ~exited[t] /\ pmem[t] # "freed"
  BY Zenon DEF ProcessInit
<1>2. "user" \notin Exiting /\ "user" \notin Collecting
  BY Zenon DEF Exiting, Collecting
<1>. QED BY <1>1, <1>2, Zenon DEF FamilyInv

(* In a family where nobody kills, a process marks itself once and only its parent,
   after that, frees it. *)
THEOREM FamilyInvariant == ProcessSpec => [](Orderly => FamilyInv)
<1>1. ProcessInit => (Orderly => FamilyInv)
  BY FamilyInit, Zenon
<1>2. TableInv /\ (Orderly => FamilyInv) /\ [ProcessNext]_allVars => (Orderly => FamilyInv)'
  <2>. SUFFICES ASSUME TableInv, Orderly => FamilyInv, [ProcessNext]_allVars, Orderly'
                PROVE  FamilyInv'
    BY Zenon
  <2>1. Orderly
    BY WorkloadFixed, Zenon DEF Orderly
  <2>. QED BY <2>1, FamilyNext, Zenon
<1>. QED BY <1>1, <1>2, TableInvariant, PTL DEF ProcessSpec

(* NoDanglingProcess: process_reap never frees a struct process that a thread inside
   process_mark_exited or sys_waitpid is still going to read. *)
THEOREM NoDanglingProcessHolds == ProcessSpec => []NoDanglingProcess
<1>1. TableInv /\ (Orderly => FamilyInv) => NoDanglingProcess
  <2>. SUFFICES ASSUME TableInv, FamilyInv, NEW t \in Thread, NEW p \in Thread, Uses(t, p)
                PROVE  pmem[p] = "live"
    BY Zenon DEF NoDanglingProcess
  <2>1. target[t] = p
    BY Zenon DEF Uses
  <2>2. CASE ppc[t] \in {"mark", "marking"}
    <3>1. p = t
      BY <2>1, <2>2, FamilyFacts, Zenon DEF FamilyMember, Exiting
    <3>2. pmem[p] # "freed"
      BY <2>2, <3>1, FamilyFacts, Zenon
    <3>3. pmem[p] # "none" /\ pmem[p] \in {"none", "live", "freed"}
      <4>1. target[t] # None
        BY <2>1, SchedConstants, Zenon
      <4>. QED BY <2>1, <4>1, Zenon DEF TableInv, TableSound, ProcessTypeOK
    <3>. QED BY <3>2, <3>3, Zenon
  <2>3. CASE ppc[t] \in Collecting
    BY <2>1, <2>3, Collects, Zenon
  <2>4. ppc[t] = "drain" => how[t] \notin {"kill", "ctrlc"}
    <3>1. ppc[t] = "drain" => how[t] \in {"exit", "fault"}
      BY FamilyFacts, Zenon DEF FamilyMember, Exiting
    <3>. QED BY <3>1, Zenon
  <2>. QED BY <2>2, <2>3, <2>4, Zenon DEF Uses, Collecting
<1>. QED BY <1>1, TableInvariant, FamilyInvariant, PTL

-----------------------------------------------------------------------------
(* Waiting for a child, on top of the scheduler *)

(* The families these theorems are about. *)
Quiet == Orderly /\ "sleep" \notin workload.calls

(* A thread that executes outside its int $0x20 window is on no wait list. *)
LEMMA NotWaiting ==
  ASSUME SchedInv, NEW c \in CPU, At(c, "run")
  PROVE  Cur(c) \notin waiting
<1>1. Cur(c) \in Thread /\ state[Cur(c)] = "RUNNING"
  BY AtFacts, Zenon
<1>2. \A t \in waiting : state[t] = "BLOCKED"
  BY Zenon DEF SchedInv, CallInv
<1>. QED BY <1>1, <1>2, Zenon

(* The scheduler's steps under these processes. *)
LEMMA SchedStepInv ==
  ASSUME SchedInv, NEW c \in CPU, SchedStep(c)
  PROVE  SchedInv'
<1>1. \A ms \in SleepTicks : ~SchedSleep(c, ms)
  BY SchedConstants, Zenon DEF SchedInv, NoSleepers, SchedSleep, At, Worker
<1>. QED BY <1>1, ApEnterInv, AcquireInv, AddInv, WakeSpinInv, WakeInv, TimerInv, TickInv, SwitchInv, Zenon
     DEF SchedStep

(* process_kill's tail is out of reach. *)
LEMMA NoKillDone ==
  ASSUME FamilyInv, NEW c \in CPU, KillDone(c)
  PROVE  FALSE
<1>1. PAt(c, "drain") /\ how[Cur(c)] \in {"kill", "ctrlc"}
  BY Zenon DEF KillDone
<1>2. Cur(c) \in Thread /\ ppc[Cur(c)] = "drain"
  BY <1>1, Running, Zenon
<1>3. how[Cur(c)] \in {"exit", "fault"}
  BY <1>2, FamilyFacts, Zenon DEF FamilyMember, Exiting
<1>. QED BY <1>1, <1>3, Zenon

(* What each system call asks of the scheduler. *)
LEMMA ProcessStepInv ==
  ASSUME SchedInv, TableInv, FamilyInv, Quiet, NEW c \in CPU, ProcessStep(c)
  PROVE  SchedInv'
<1>1. CASE \E n \in Worker : SysSpawn(c, n)
  BY <1>1, CreateInv, Zenon DEF SysSpawn
<1>2. CASE \/ SysExit(c) \/ UserFault(c)
           \/ \E k \in Pids : SysKill(c, k) \/ SysWaitpid(c, k)
  <2>1. UNCHANGED vars \/ ThreadExit(c)
    BY <1>2, Zenon DEF SysExit, UserFault, SysKill, SysWaitpid, BeginMark
  <2>. QED BY <2>1, StutterInv, ExitInv, Zenon
<1>3. CASE SysSleep(c) \/ SleepYield(c) \/ WaitSleep(c)
  <2>1. Yield(c)
    BY <1>3, Zenon DEF SysSleep, SleepYield, WaitSleep, Quiet
  <2>. QED BY <2>1, YieldInv, Zenon
<1>4. CASE DrainWake(c)
  <2>1. PICK w : WakeCall(c, w)
    BY <1>4, Zenon DEF DrainWake
  <2>2. w \in waiting
    BY <2>1, Zenon DEF WakeCall
  <2>3. w \in Worker
    BY <2>2, Zenon DEF SchedInv, CallInv
  <2>. QED BY <2>1, <2>3, WakeCallInv, Zenon
<1>5. CASE ExitDone(c)
  BY <1>5, ExitInv, Zenon DEF ExitDone
<1>6. ASSUME KillDone(c) PROVE FALSE
  BY <1>6, NoKillDone, Zenon
<1>7. CASE WaitEnqueue(c)
  BY <1>7, BlockInv, Zenon DEF WaitEnqueue
<1>8. CASE \/ AcquireForMark(c) \/ MarkExited(c) \/ WaitpidLoop(c) \/ AcquireForWait(c)
           \/ WaitDrop(c) \/ WaitReturn(c) \/ WaitpidReap(c)
  <2>1. UNCHANGED vars
    BY <1>8, Zenon DEF AcquireForMark, MarkExited, WaitpidLoop, AcquireForWait, WaitDrop, WaitReturn,
                       WaitpidReap, BeginMark
  <2>. QED BY <2>1, StutterInv, Zenon
<1>. QED BY <1>1, <1>2, <1>3, <1>4, <1>5, <1>6, <1>7, <1>8, Zenon DEF ProcessStep

-----------------------------------------------------------------------------
(* The wait queues. *)

(* Thread t is on list q; whoever will wake t can reach it. *)
On(t, q) == \E i \in 1..Len(q) : q[i] = t
Reachable(t) == On(t, wait_queue[target[t]]) \/ \E u \in Thread : On(t, drain[u])

(* Where in process_wait a thread on a wait list is. *)
Waits == {"nap", "sleep", "pwacq"}

(* NoLostWaiter and the drained lists, without the workload. *)
QueuesInv ==
  /\ \A p \in Thread : exited[p] => wait_queue[p] = <<>>
  /\ \A t \in waiting : Reachable(t) /\ ppc[t] \in Waits
  /\ \A t \in Thread : ppc[t] # "drain" => drain[t] = <<>>

LEMMA WaitersSplit ==
  ASSUME Orderly
  PROVE  WaitersInv <=> SchedInv /\ QueuesInv
BY Zenon DEF WaitersInv, NoLostWaiter, QueuesInv, Reachable, On, Waits

(* A step of thread x that leaves the lists alone; x is on none if it changes its
   target, and stays at drain if it is there. *)
LEMMA QueuesFrame ==
  ASSUME QueuesInv, waiting \subseteq Thread, NEW x \in Thread, waiting' = waiting, exited' = exited,
         wait_queue' = wait_queue, drain' = drain,
         \A t \in Thread : t # x => ppc'[t] = ppc[t] /\ target'[t] = target[t],
         x \notin waiting \/ (target'[x] = target[x] /\ ppc'[x] \in Waits),
         ppc[x] = "drain" => ppc'[x] = "drain"
  PROVE  QueuesInv'
<1>1. \A t \in waiting : target'[t] = target[t]
  BY Zenon
<1>2. ASSUME NEW t \in waiting PROVE Reachable(t)'
  <2>1. Reachable(t) /\ target'[t] = target[t]
    BY <1>1, Zenon DEF QueuesInv
  <2>2. On(t, wait_queue'[target'[t]]) \/ \E u \in Thread : On(t, drain'[u])
    BY <2>1, Zenon DEF Reachable
  <2>. QED BY <2>2, Zenon DEF Reachable, On
<1>3. \A t \in Thread : ppc'[t] # "drain" => drain'[t] = <<>>
  BY Zenon DEF QueuesInv
<1>4. \A t \in waiting : ppc'[t] \in Waits
  BY Zenon DEF QueuesInv
<1>. QED BY <1>2, <1>3, <1>4, Zenon DEF QueuesInv

LEMMA QueuesStutter ==
  ASSUME QueuesInv, UNCHANGED <<waiting, exited, wait_queue, drain, ppc, target>>
  PROVE  QueuesInv'
BY ZenonT(40) DEF QueuesInv, Reachable, On

(* The calls that move the caller and set its target, at most. *)
LEMMA QueuesMove ==
  ASSUME SchedInv, QueuesInv, TableInv, NEW c \in CPU, At(c, "run"),
         waiting' = waiting, exited' = exited, wait_queue' = wait_queue, drain' = drain,
         ppc[Cur(c)] # "drain", NEW m, NEW p, ppc' = [ppc EXCEPT ![Cur(c)] = m],
         target' = target \/ target' = [target EXCEPT ![Cur(c)] = p]
  PROVE  QueuesInv'
<1>1. Cur(c) \in Thread /\ Cur(c) \notin waiting /\ waiting \subseteq Thread
  BY AtFacts, NotWaiting, Zenon DEF SchedInv, TypeOK
<1>2. PICK x \in Thread : x = Cur(c)
  BY <1>1, Zenon
<1>3. ppc \in [Thread -> ProcPc] /\ target \in [Thread -> Thread \cup {None}]
  BY Zenon DEF TableInv, TableSound, ProcessTypeOK
<1>4. \A t \in Thread : t # x => ppc'[t] = ppc[t] /\ target'[t] = target[t]
  BY <1>2, <1>3, Zenon
<1>. QED BY <1>1, <1>2, <1>4, QueuesFrame, Zenon

(* sys_exit, a fault, sys_waitpid and its reap, the two lock acquisitions. *)
LEMMA QueuesCalls ==
  ASSUME SchedInv, QueuesInv, TableInv, Orderly, NEW c \in CPU,
         \/ SysExit(c) \/ UserFault(c) \/ \E k \in Pids : SysWaitpid(c, k)
         \/ AcquireForMark(c) \/ WaitpidLoop(c) \/ AcquireForWait(c) \/ WaitReturn(c) \/ WaitpidReap(c)
  PROVE  QueuesInv'
<1>1. PICK label \in {"user", "mark", "loop", "pwacq", "pwtest", "reap"} : PAt(c, label)
  BY Zenon DEF SysExit, UserFault, SysWaitpid, AcquireForMark, WaitpidLoop, AcquireForWait,
               WaitReturn, WaitpidReap
<1>2. At(c, "run") /\ ppc[Cur(c)] # "drain"
  BY <1>1, Zenon DEF PAt
<1>3. ASSUME NEW p, NEW why, BeginMark(c, p, why) PROVE QueuesInv'
  <2>1. /\ ppc' = [ppc EXCEPT ![Cur(c)] = "mark"] /\ target' = [target EXCEPT ![Cur(c)] = p]
        /\ waiting' = waiting /\ exited' = exited /\ wait_queue' = wait_queue /\ drain' = drain
    BY <1>3, Zenon DEF BeginMark, Goto, exitVars, vars, callVars
  <2>. QED BY <1>2, <2>1, QueuesMove, Zenon
<1>4. CASE SysExit(c) \/ UserFault(c)
  <2>1. \/ BeginMark(c, Cur(c), "exit") \/ BeginMark(c, Cur(c), "fault")
        \/ ThreadExit(c) /\ UNCHANGED procVars
    BY <1>4, Zenon DEF SysExit, UserFault
  <2>2. CASE ThreadExit(c) /\ UNCHANGED procVars
    BY <2>2, QueuesStutter, Zenon DEF ThreadExit, EnterIsr, procVars, exitVars, syscallVars
  <2>. QED BY <1>3, <2>1, <2>2, Zenon
<1>5. ASSUME NEW k \in Pids, SysWaitpid(c, k) PROVE QueuesInv'
  <2>1. /\ ppc' = [ppc EXCEPT ![Cur(c)] = "loop"] /\ target' = [target EXCEPT ![Cur(c)] = Find(k)]
        /\ waiting' = waiting /\ exited' = exited /\ wait_queue' = wait_queue /\ drain' = drain
    BY <1>5, Zenon DEF SysWaitpid, Goto, exitVars, vars, callVars
  <2>. QED BY <1>2, <2>1, QueuesMove, Zenon
<1>6. CASE WaitpidLoop(c)
  <2>1. PICK m : /\ ppc' = [ppc EXCEPT ![Cur(c)] = m] /\ target' = target
                 /\ waiting' = waiting /\ exited' = exited /\ wait_queue' = wait_queue /\ drain' = drain
    BY <1>6, Zenon DEF WaitpidLoop, Orderly, Goto, exitVars, vars, callVars
  <2>. QED BY <1>2, <2>1, QueuesMove, Zenon
<1>7. CASE AcquireForMark(c) \/ AcquireForWait(c) \/ WaitReturn(c)
  <2>1. PICK m : /\ ppc' = [ppc EXCEPT ![Cur(c)] = m] /\ target' = target
                 /\ waiting' = waiting /\ exited' = exited /\ wait_queue' = wait_queue /\ drain' = drain
    BY <1>7, Zenon DEF AcquireForMark, AcquireForWait, WaitReturn, Goto, vars, callVars
  <2>. QED BY <1>2, <2>1, QueuesMove, Zenon
<1>8. CASE WaitpidReap(c)
  <2>1. /\ ppc' = [ppc EXCEPT ![Cur(c)] = "user"] /\ target' = [target EXCEPT ![Cur(c)] = None]
        /\ waiting' = waiting /\ exited' = exited /\ wait_queue' = wait_queue /\ drain' = drain
    BY <1>8, Zenon DEF WaitpidReap, Goto, exitVars, vars, callVars
  <2>. QED BY <1>2, <2>1, QueuesMove, Zenon
<1>. QED BY <1>4, <1>5, <1>6, <1>7, <1>8, Zenon

(* The rest of process_wait's loop body: the thread stays on its queue. *)
LEMMA QueuesNap ==
  ASSUME SchedInv, QueuesInv, TableInv, NEW c \in CPU, WaitDrop(c) \/ WaitSleep(c)
  PROVE  QueuesInv'
<1>1. Cur(c) \in Thread /\ ppc[Cur(c)] \in {"nap", "sleep"}
  BY Runner, Zenon DEF WaitDrop, WaitSleep
<1>2. PICK x \in Thread : x = Cur(c)
  BY <1>1, Zenon
<1>3. waiting \subseteq Thread /\ ppc \in [Thread -> ProcPc]
  BY Zenon DEF TableInv, TableSound, ProcessTypeOK, TypeOK
<1>4. PICK m \in {"sleep", "pwacq"} :
        /\ ppc' = [ppc EXCEPT ![x] = m] /\ target' = target
        /\ waiting' = waiting /\ exited' = exited /\ wait_queue' = wait_queue /\ drain' = drain
  BY <1>2, Zenon DEF WaitDrop, WaitSleep, Goto, exitVars, vars, callVars, Yield, EnterIsr
<1>5. \A t \in Thread : t # x => ppc'[t] = ppc[t] /\ target'[t] = target[t]
  BY <1>3, <1>4, Zenon
<1>6. ppc[x] # "drain" /\ ppc'[x] \in Waits /\ target'[x] = target[x]
  BY <1>1, <1>2, <1>3, <1>4, Zenon DEF Waits
<1>. QED BY <1>3, <1>4, <1>5, <1>6, QueuesFrame, Zenon

(* Membership of a list, at its two ends. *)
LEMMA OnFront ==
  ASSUME NEW q \in Seq(Thread), NEW x \in Thread, NEW t \in Thread, t = x \/ On(t, q),
         NEW r, r = <<x>> \o q
  PROVE  On(t, r)
<1>1. /\ Len(r) = Len(q) + 1 /\ Len(q) \in Nat /\ r[1] = x /\ 1 \in 1..Len(r)
      /\ \A i \in 1..Len(q) : i + 1 \in 1..Len(r) /\ r[i + 1] = q[i]
  BY SMTT(40)
<1>2. CASE t = x
  BY <1>1, <1>2, Zenon DEF On
<1>3. CASE On(t, q)
  <2>1. PICK i \in 1..Len(q) : q[i] = t
    BY <1>3, Zenon DEF On
  <2>. QED BY <1>1, <2>1, Zenon DEF On
<1>. QED BY <1>2, <1>3, Zenon

LEMMA OnTail ==
  ASSUME NEW q \in Seq(Thread), q # <<>>, NEW t, t # Head(q), On(t, q),
         NEW r, r = Tail(q)
  PROVE  On(t, r)
<1>1. PICK i \in 1..Len(q) : q[i] = t
  BY Zenon DEF On
<1>2. i - 1 \in 1..Len(r) /\ r[i - 1] = q[i]
  BY <1>1, SMTT(40)
<1>. QED BY <1>1, <1>2, Zenon DEF On

(* process_wait's enqueue, tested under the same lock that mark_exited takes. *)
LEMMA QueuesEnqueue ==
  ASSUME SchedInv, QueuesInv, TableInv, NEW c \in CPU, WaitEnqueue(c)
  PROVE  QueuesInv'
<1>0. PAt(c, "pwtest") /\ At(c, "run") /\ Block(c)
  BY Zenon DEF WaitEnqueue, PAt
<1>1. Cur(c) \in Thread /\ ppc[Cur(c)] = "pwtest"
  BY <1>0, Running, Zenon
<1>2. PICK x \in Thread : x = Cur(c) /\ ppc[x] = "pwtest"
  BY <1>1, Zenon
<1>3. PICK p \in Thread : p = target[x]
  BY <1>2, Zenon DEF TableInv
<1>4. /\ ppc \in [Thread -> ProcPc] /\ wait_queue \in [Thread -> Seq(Thread)] /\ waiting \subseteq Thread
      /\ target \in [Thread -> Thread \cup {None}]
  BY Zenon DEF TableInv, TableSound, ProcessTypeOK, TypeOK
<1>5. /\ ~exited[p] /\ wait_queue' = [wait_queue EXCEPT ![p] = <<x>> \o wait_queue[p]]
      /\ ppc' = [ppc EXCEPT ![x] = "nap"] /\ exited' = exited /\ target' = target /\ drain' = drain
      /\ waiting' = waiting \cup {x}
  BY <1>0, <1>2, <1>3, Zenon DEF WaitEnqueue, WaitTest, Goto, Block
<1>6. /\ wait_queue'[p] = <<x>> \o wait_queue[p] /\ \A q \in Thread : q # p => wait_queue'[q] = wait_queue[q]
      /\ ppc'[x] = "nap" /\ \A t \in Thread : t # x => ppc'[t] = ppc[t]
  BY <1>4, <1>5, Zenon
<1>7. \A q \in Thread : exited'[q] => wait_queue'[q] = <<>>
  <2>. SUFFICES ASSUME NEW q \in Thread, exited[q] PROVE wait_queue'[q] = <<>>
    BY <1>5, Zenon
  <2>1. q # p
    BY <1>5, Zenon
  <2>. QED BY <1>6, <2>1, Zenon DEF QueuesInv
<1>8. ASSUME NEW t \in waiting' PROVE Reachable(t)' /\ ppc'[t] \in Waits
  <2>0. t = x \/ (Reachable(t) /\ ppc[t] \in Waits)
    BY <1>5, Zenon DEF QueuesInv
  <2>1. t \in Thread
    BY <1>4, <1>5, <1>8, Zenon
  <2>a. ppc'[t] \in Waits
    BY <1>6, <2>0, <2>1, Zenon DEF Waits
  <2>2. CASE On(t, wait_queue[target[t]]) \/ t = x
    <3>1. CASE target[t] = p
      <4>1. wait_queue[p] \in Seq(Thread)
        BY <1>4, Zenon
      <4>2. On(t, wait_queue'[p])
        BY <1>6, <2>1, <2>2, <3>1, <4>1, OnFront, Zenon
      <4>. QED BY <2>a, <1>5, <3>1, <4>2, Zenon DEF Reachable, On
    <3>2. CASE target[t] # p
      <4>1. On(t, wait_queue[target[t]])
        BY <1>3, <2>2, <3>2, Zenon
      <4>2. t # x /\ ppc[t] # "user"
        BY <1>3, <2>0, <3>2, Zenon DEF Waits
      <4>3. target[t] \in Thread
        BY <2>1, <4>2, Zenon DEF TableInv
      <4>4. wait_queue'[target[t]] = wait_queue[target[t]]
        BY <1>6, <3>2, <4>3, Zenon
      <4>. QED BY <2>a, <1>5, <4>1, <4>4, Zenon DEF Reachable, On
    <3>. QED BY <3>1, <3>2, Zenon
  <2>3. CASE \E u \in Thread : On(t, drain[u])
    BY <2>a, <1>5, <2>3, Zenon DEF Reachable, On
  <2>. QED BY <2>0, <2>a, <2>2, <2>3, Zenon DEF Reachable
<1>9. ASSUME NEW t \in Thread, ppc'[t] # "drain" PROVE drain'[t] = <<>>
  BY <1>2, <1>5, <1>6, <1>9, Zenon DEF QueuesInv
<1>. QED BY <1>7, <1>8, <1>9, Zenon DEF QueuesInv

(* process_mark_exited detaches the whole queue of the exiting process. *)
LEMMA QueuesMarkExited ==
  ASSUME QueuesInv, TableInv, FamilyInv, NEW c \in CPU, MarkExited(c)
  PROVE  QueuesInv'
<1>0. PAt(c, "marking")
  BY Zenon DEF MarkExited
<1>1. Cur(c) \in Thread /\ ppc[Cur(c)] = "marking"
  BY <1>0, Running, Zenon
<1>2. PICK x \in Thread : x = Cur(c) /\ ppc[x] = "marking"
  BY <1>1, Zenon
<1>3. target[x] = x
  BY <1>2, FamilyFacts, Zenon DEF FamilyMember, Exiting
<1>4. /\ ppc \in [Thread -> ProcPc] /\ wait_queue \in [Thread -> Seq(Thread)] /\ waiting \subseteq Thread
      /\ drain \in [Thread -> Seq(Thread)] /\ exited \in [Thread -> BOOLEAN]
  BY Zenon DEF TableInv, TableSound, ProcessTypeOK, TypeOK
<1>5. /\ exited' = [exited EXCEPT ![x] = TRUE] /\ drain' = [drain EXCEPT ![x] = wait_queue[x]]
      /\ wait_queue' = [wait_queue EXCEPT ![x] = <<>>] /\ ppc' = [ppc EXCEPT ![x] = "drain"]
      /\ target' = target /\ waiting' = waiting
  BY <1>2, <1>3, Zenon DEF MarkExited, Goto, vars, callVars
<1>6. /\ wait_queue'[x] = <<>> /\ drain'[x] = wait_queue[x] /\ ppc'[x] = "drain" /\ drain[x] = <<>>
      /\ \A t \in Thread : t # x => /\ wait_queue'[t] = wait_queue[t] /\ drain'[t] = drain[t]
                                    /\ ppc'[t] = ppc[t] /\ exited'[t] = exited[t]
  BY <1>2, <1>4, <1>5, Zenon DEF QueuesInv
<1>7. ASSUME NEW t \in Thread
      PROVE  /\ exited'[t] => wait_queue'[t] = <<>>
             /\ ppc'[t] # "drain" => drain'[t] = <<>>
  BY <1>6, Zenon DEF QueuesInv
<1>8. ASSUME NEW t \in waiting PROVE Reachable(t)' /\ ppc'[t] \in Waits
  <2>1. t \in Thread /\ Reachable(t) /\ ppc[t] \in Waits
    BY <1>4, Zenon DEF QueuesInv
  <2>2. t # x /\ ppc[t] # "user"
    BY <1>2, <2>1, Zenon DEF Waits
  <2>3. target[t] \in Thread /\ ppc'[t] \in Waits
    BY <1>6, <2>1, <2>2, Zenon DEF TableInv
  <2>4. CASE On(t, wait_queue[target[t]])
    <3>1. CASE target[t] = x
      <4>1. On(t, drain'[x])
        BY <1>6, <2>4, <3>1, Zenon
      <4>. QED BY <2>3, <4>1, Zenon DEF Reachable, On
    <3>2. CASE target[t] # x
      <4>1. On(t, wait_queue'[target'[t]])
        BY <1>5, <1>6, <2>3, <2>4, <3>2, ZenonT(40)
      <4>. QED BY <2>3, <4>1, Zenon DEF Reachable, On
    <3>. QED BY <3>1, <3>2, Zenon
  <2>5. CASE \E u \in Thread : On(t, drain[u])
    <3>1. PICK u \in Thread : On(t, drain[u])
      BY <2>5, Zenon
    <3>2. u # x
      <4>1. ~On(t, <<>>)
        BY SMTT(40) DEF On
      <4>. QED BY <1>6, <3>1, <4>1, Zenon
    <3>3. On(t, drain'[u])
      BY <1>6, <3>1, <3>2, Zenon
    <3>. QED BY <2>3, <3>3, Zenon DEF Reachable, On
  <2>. QED BY <2>1, <2>4, <2>5, Zenon DEF Reachable
<1>. QED BY <1>5, <1>7, <1>8, Zenon DEF QueuesInv

(* The drain loop wakes the head of the detached list, and only that thread leaves it. *)
LEMMA QueuesDrain ==
  ASSUME QueuesInv, TableInv, NEW c \in CPU, DrainWake(c)
  PROVE  QueuesInv'
<1>0. PAt(c, "drain") /\ drain[Cur(c)] # <<>> /\ WakeCall(c, Head(drain[Cur(c)]))
  BY Zenon DEF DrainWake
<1>1. Cur(c) \in Thread /\ ppc[Cur(c)] = "drain"
  BY <1>0, Running, Zenon
<1>2. PICK x \in Thread : x = Cur(c) /\ ppc[x] = "drain"
  BY <1>1, Zenon
<1>3. waiting \subseteq Thread /\ drain \in [Thread -> Seq(Thread)]
  BY Zenon DEF TableInv, TableSound, ProcessTypeOK, TypeOK
<1>4. /\ drain' = [drain EXCEPT ![x] = Tail(drain[x])] /\ waiting' = waiting \ {Head(drain[x])}
      /\ exited' = exited /\ wait_queue' = wait_queue /\ ppc' = ppc /\ target' = target
  BY <1>0, <1>2, Zenon DEF DrainWake, WakeCall, exitVars
<1>5. /\ drain'[x] = Tail(drain[x]) /\ \A t \in Thread : t # x => drain'[t] = drain[t]
  BY <1>3, <1>4, Zenon
<1>6. ASSUME NEW t \in Thread, ppc'[t] # "drain" PROVE drain'[t] = <<>>
  BY <1>2, <1>4, <1>5, <1>6, Zenon DEF QueuesInv
<1>7. ASSUME NEW t \in waiting' PROVE Reachable(t)' /\ ppc'[t] \in Waits
  <2>1. t \in waiting /\ t # Head(drain[x]) /\ Reachable(t) /\ ppc'[t] \in Waits
    BY <1>4, Zenon DEF QueuesInv
  <2>2. CASE On(t, wait_queue[target[t]])
    BY <1>4, <2>1, <2>2, Zenon DEF Reachable, On
  <2>3. ASSUME NEW u \in Thread, On(t, drain[u]) PROVE Reachable(t)'
    <3>1. CASE u = x
      <4>1. drain[x] \in Seq(Thread) /\ drain[x] # <<>>
        BY <1>0, <1>2, <1>3, Zenon
      <4>2. On(t, drain'[x])
        BY <1>5, <2>1, <2>3, <3>1, <4>1, OnTail, Zenon
      <4>. QED BY <4>2, Zenon DEF Reachable, On
    <3>2. CASE u # x
      <4>1. On(t, drain'[u])
        BY <1>5, <2>3, <3>2, Zenon
      <4>. QED BY <4>1, Zenon DEF Reachable, On
    <3>. QED BY <3>1, <3>2, Zenon
  <2>. QED BY <2>1, <2>2, <2>3, Zenon DEF Reachable
<1>8. \A p \in Thread : exited'[p] => wait_queue'[p] = <<>>
  BY <1>4, Zenon DEF QueuesInv
<1>. QED BY <1>6, <1>7, <1>8, Zenon DEF QueuesInv

(* Every step of a quiet family. *)
LEMMA WaitersNext ==
  ASSUME SchedInv, QueuesInv, TableInv, FamilyInv, Quiet, [ProcessNext]_allVars
  PROVE  SchedInv' /\ QueuesInv'
<1>1. CASE UNCHANGED allVars
  <2>1. UNCHANGED vars /\ UNCHANGED <<waiting, exited, wait_queue, drain, ppc, target>>
    BY <1>1, Zenon DEF allVars, procVars, exitVars, syscallVars, vars, callVars
  <2>. QED BY <2>1, StutterInv, QueuesStutter, Zenon
<1>2. ASSUME NEW c \in CPU, SchedStep(c) PROVE SchedInv' /\ QueuesInv'
  <2>1. waiting' = waiting
    BY <1>2, Zenon DEF SchedStep, SchedApEnter, AcquireRq, SchedAdd, WakeSpin, SchedWake, SchedSleep,
                       Timer, EnterIsr, SchedTick, SwitchStack, callVars
  <2>2. UNCHANGED <<waiting, exited, wait_queue, drain, ppc, target>>
    BY <1>2, <2>1, Zenon DEF SchedStep, procVars, exitVars, syscallVars
  <2>. QED BY <1>2, <2>2, SchedStepInv, QueuesStutter, Zenon
<1>3. ASSUME NEW c \in CPU, ProcessStep(c) PROVE QueuesInv'
  <2>1. CASE \E n \in Worker : SysSpawn(c, n)
    <3>1. UNCHANGED <<waiting, exited, wait_queue, drain, ppc, target>>
      BY <2>1, Zenon DEF SysSpawn, ThreadCreate, exitVars, syscallVars
    <3>. QED BY <3>1, QueuesStutter, Zenon
  <2>2. CASE SysSleep(c) \/ SleepYield(c) \/ ExitDone(c)
    <3>1. UNCHANGED <<waiting, exited, wait_queue, drain, ppc, target>>
      BY <2>2, Zenon DEF SysSleep, SleepCall, SleepYield, Yield, ExitDone, ThreadExit, EnterIsr,
                         procVars, exitVars, syscallVars
    <3>. QED BY <3>1, QueuesStutter, Zenon
  <2>3. ASSUME KillDone(c) PROVE FALSE
    BY <2>3, NoKillDone, Zenon
  <2>4. ASSUME NEW k \in Pids, SysKill(c, k) PROVE FALSE
    BY <2>4, Zenon DEF SysKill, Quiet, Orderly
  <2>5. Orderly
    BY Zenon DEF Quiet
  <2>. QED BY <1>3, <2>1, <2>2, <2>3, <2>4, <2>5, QueuesCalls, QueuesNap, QueuesEnqueue, QueuesMarkExited,
              QueuesDrain, Zenon DEF ProcessStep
<1>4. ASSUME NEW c \in CPU, ProcessStep(c) PROVE SchedInv'
  BY <1>4, ProcessStepInv, Zenon
<1>. QED BY <1>1, <1>2, <1>3, <1>4, Zenon DEF ProcessNext

LEMMA WaitersInit == ProcessInit => SchedInv /\ QueuesInv
<1>. SUFFICES ASSUME ProcessInit PROVE SchedInv /\ QueuesInv
  BY Zenon
<1>1. SchedInv /\ waiting = {}
  BY InitInv, Zenon DEF ProcessInit, Init
<1>2. \A t \in Thread : ~exited[t] /\ drain[t] = <<>>
  BY Zenon DEF ProcessInit
<1>. QED BY <1>1, <1>2, Zenon DEF QueuesInv

(* ProcessInv is an invariant: the table under every workload, the family discipline
   under those that do not kill, and the scheduler and the wait queues under those of
   these that do not sleep. *)
THEOREM ProcessInvariant == ProcessSpec => []ProcessInv
<1>. DEFINE WInv == Quiet => SchedInv /\ QueuesInv
<1>1. ProcessInit => WInv
  BY WaitersInit, Zenon
<1>2. TableInv /\ (Orderly => FamilyInv) /\ WInv /\ [ProcessNext]_allVars => WInv'
  <2>. SUFFICES ASSUME TableInv, Orderly => FamilyInv, WInv, [ProcessNext]_allVars, Quiet'
                PROVE  (SchedInv /\ QueuesInv)'
    BY Zenon
  <2>1. Quiet /\ Orderly
    BY WorkloadFixed, Zenon DEF Quiet, Orderly
  <2>. QED BY <2>1, WaitersNext, Zenon
<1>3. TableInv /\ (Orderly => FamilyInv) /\ WInv => ProcessInv
  BY WaitersSplit, Zenon DEF ProcessInv, Quiet
<1>. HIDE DEF WInv
<1>. QED BY <1>1, <1>2, <1>3, TableInvariant, FamilyInvariant, PTL DEF ProcessSpec

(* NoLostWaiter: process_mark_exited and process_wait exclude each other under
   proc_wait_lock, so no waiter is left on the queue of an exited process. *)
THEOREM NoLostWaiterHolds == ProcessSpec => []("sleep" \notin workload.calls => NoLostWaiter)
<1>1. ProcessInv => ("sleep" \notin workload.calls => NoLostWaiter)
  BY Zenon DEF ProcessInv, WaitersInv, NoLostWaiter
<1>. QED BY <1>1, ProcessInvariant, PTL

(* ThreadsAccountedFor: the threads of processes that spawn, exit, fault and wait for
   their children stay within the scheduler's discipline. *)
THEOREM ThreadsAccountedForHolds ==
  ProcessSpec => []("sleep" \notin workload.calls => ThreadsAccountedFor)
<1>1. ProcessInv => ("sleep" \notin workload.calls => ThreadsAccountedFor)
  <2>. SUFFICES ASSUME ProcessInv, "sleep" \notin workload.calls, Orderly
                PROVE  NoThreadLost /\ RunQueueSound
    BY Zenon DEF ThreadsAccountedFor
  <2>1. SchedInv
    BY Zenon DEF ProcessInv, WaitersInv
  <2>. QED BY <2>1, QueueSound, Zenon DEF SchedInv
<1>. QED BY <1>1, ProcessInvariant, PTL
=============================================================================
