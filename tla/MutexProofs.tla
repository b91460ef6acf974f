---------------------------- MODULE MutexProofs ----------------------------
(***************************************************************************)
(* Proofs about Mutex: kernel/sync/mutex.c is exclusive and loses no       *)
(* wakeup, for any number of CPUs, threads, clients and rounds.  MutexInv  *)
(* is inductive; its first conjunct is the scheduler's invariant, which    *)
(* every step of the mutex preserves because it is a step of the           *)
(* scheduler, or leaves the scheduler alone.                               *)
(***************************************************************************)
EXTENDS Mutex, SchedProofs

(* The thread that executes a step of mutex.c; outside the blocking window it
   is on no wait list. *)
LEMMA Actor ==
  ASSUME MutexInv, NEW c \in CPU, NEW label, At(c, label)
  PROVE  /\ Cur(c) \in Thread /\ Cur(c) # None /\ pc[Cur(c)] = label
         /\ label # "window" => Cur(c) \notin waiting
<1>1. SchedInv
  BY Zenon DEF MutexInv
<1>2. /\ Cur(c) \in Thread /\ pc[Cur(c)] = label
      /\ label # "window" => state[Cur(c)] = "RUNNING"
  BY <1>1, AtFacts, ZenonT(60)
<1>3. \A t \in waiting : state[t] = "BLOCKED"
  BY <1>1, Zenon DEF SchedInv, CallInv
<1>. QED BY <1>2, <1>3, SchedConstants, Zenon

(* Goto changes one thread's position. *)
LEMMA Moved ==
  ASSUME MutexTypeOK, NEW x \in Thread, NEW m \in MutexPc, mpc' = [mpc EXCEPT ![x] = m]
  PROVE  /\ mpc'[x] = m /\ \A t \in Thread : t # x => mpc'[t] = mpc[t]
         /\ mpc' \in [Thread -> MutexPc]
BY Zenon DEF MutexTypeOK

(* m->lock follows the thread that takes it, releases it or leaves it alone. *)
LEMMA SpinFrame ==
  ASSUME SpinInv, NEW x \in Thread, x # None,
         \A t \in Thread : t # x => mpc'[t] = mpc[t],
         LET L == {"test", "nap", "free", "trytest"}
         IN  \/ m_lock = None /\ m_lock' = x /\ mpc'[x] \in L
             \/ mpc[x] \in L /\ m_lock' = None /\ mpc'[x] \notin L
             \/ m_lock' = m_lock /\ (mpc'[x] \in L <=> mpc[x] \in L)
  PROVE  SpinInv'
<1>. SUFFICES ASSUME NEW t \in Thread
              PROVE  m_lock' = t <=> mpc'[t] \in {"test", "nap", "free", "trytest"}
  BY Zenon DEF SpinInv
<1>0. /\ m_lock = t <=> mpc[t] \in {"test", "nap", "free", "trytest"}
      /\ m_lock = x <=> mpc[x] \in {"test", "nap", "free", "trytest"}
      /\ t # None
  BY SchedConstants, Zenon DEF SpinInv
<1>1. CASE t = x
  BY <1>0, <1>1, Zenon
<1>2. CASE t # x
  BY <1>0, <1>2, Zenon
<1>. QED BY <1>1, <1>2, Zenon

(* A thread that neither gets nor gives up the mutex. *)
LEMMA HoldFrame ==
  ASSUME MutualExclusion, UNCHANGED <<locked, owner>>,
         \A t \in Thread : Holding(t)' <=> Holding(t)
  PROVE  MutualExclusion'
BY Zenon DEF MutualExclusion

(* A step that leaves the wait list alone: whoever waits stays at a waiting
   position, and whoever is on its way to a free mutex stays on its way. *)
LEMMA WaitFrame ==
  ASSUME NoStrandedWaiter, MutexTypeOK', UNCHANGED <<waiters, waiting>>,
         \A t \in waiting : mpc'[t] \in {"nap", "sleep", "lock"},
         ~locked' => ~locked /\ \A t \in Client : OnItsWay(t) => OnItsWay(t)'
  PROVE  NoStrandedWaiter'
<1>0. waiters' = waiters /\ waiting' = waiting
  OBVIOUS
<1>1. /\ \A i, j \in 1..Len(waiters) : waiters[i] = waiters[j] => i = j
      /\ {waiters[i] : i \in 1..Len(waiters)} = waiting
  BY Zenon DEF NoStrandedWaiter
<1>2. ASSUME ~locked', waiters' # <<>> PROVE \E t \in Client : OnItsWay(t)'
  <2>1. PICK t \in Client : OnItsWay(t)
    BY <1>2, Zenon DEF NoStrandedWaiter
  <2>. QED BY <1>2, <2>1, Zenon
<1>. QED BY <1>0, <1>1, <1>2, SMTT(40) DEF NoStrandedWaiter

(* What the scheduler does by itself: the blocking window of a thread is not
   entered or left, and no wait list changes. *)
LEMMA SchedFrame ==
  ASSUME MutexInv, SchedInv', UNCHANGED <<mutexVars, waiting>>,
         \A t \in Thread : pc'[t] = "window" <=> pc[t] = "window"
  PROVE  MutexInv'
<1>1. /\ UNCHANGED m_lock /\ UNCHANGED locked /\ UNCHANGED owner /\ UNCHANGED waiters
      /\ UNCHANGED mpc /\ UNCHANGED rounds
  BY Zenon DEF mutexVars
<1>0. MutexTypeOK /\ SpinInv /\ WindowInv /\ RoundsInv /\ MutualExclusion /\ NoStrandedWaiter
  BY Zenon DEF MutexInv
<1>2. MutexTypeOK'
  BY <1>0, <1>1, Zenon DEF MutexTypeOK, SchedInv
<1>3. SpinInv' /\ WindowInv' /\ RoundsInv'
  BY <1>0, <1>1, Zenon DEF SpinInv, WindowInv, RoundsInv
<1>4. MutualExclusion'
  BY <1>0, <1>1, HoldFrame, Zenon DEF Holding
<1>5. NoStrandedWaiter'
  <2>1. \A t \in waiting : mpc'[t] \in {"nap", "sleep", "lock"}
    BY <1>0, <1>1, Zenon DEF NoStrandedWaiter
  <2>. QED BY <1>0, <1>1, <1>2, <2>1, WaitFrame, Zenon DEF OnItsWay
<1>. QED BY <1>2, <1>3, <1>4, <1>5, Zenon DEF MutexInv

(* A thread moves within mutex.c without touching the wait list, the flag or the
   rounds. *)
LEMMA PlainMove ==
  ASSUME MutexInv, SchedInv', NEW x \in Thread, x # None, NEW m \in MutexPc \ {"cs"},
         mpc' = [mpc EXCEPT ![x] = m],
         UNCHANGED <<locked, owner, waiters, rounds, waiting>>,
         m_lock' \in Thread \cup {None}, WindowInv',
         mpc[x] # "out" \/ rounds[x] > 0,
         m \in {"unlock", "free"} <=> mpc[x] \in {"cs", "unlock", "free"},
         x \in waiting => m \in {"nap", "sleep", "lock"},
         mpc[x] \in {"sleep", "lock", "test"} => m \in {"sleep", "lock", "test"} \/ locked,
         LET L == {"test", "nap", "free", "trytest"}
         IN  \/ m_lock = None /\ m_lock' = x /\ m \in L
             \/ mpc[x] \in L /\ m_lock' = None /\ m \notin L
             \/ m_lock' = m_lock /\ (m \in L <=> mpc[x] \in L)
  PROVE  MutexInv'
<1>0. MutexTypeOK /\ SpinInv /\ WindowInv /\ RoundsInv /\ MutualExclusion /\ NoStrandedWaiter
  BY Zenon DEF MutexInv
<1>1. /\ mpc'[x] = m /\ \A t \in Thread : t # x => mpc'[t] = mpc[t]
      /\ mpc' \in [Thread -> MutexPc]
  BY <1>0, Moved, Zenon
<1>2. MutexTypeOK'
  BY <1>0, <1>1, Zenon DEF MutexTypeOK, SchedInv
<1>3. SpinInv'
  BY <1>0, <1>1, SpinFrame, Zenon
<1>4. RoundsInv'
  <2>1. rounds[x] > 0 /\ \A t \in Thread : mpc[t] # "out" => rounds[t] > 0
    BY <1>0, Zenon DEF RoundsInv
  <2>. QED BY <1>0, <1>1, <2>1, Zenon DEF RoundsInv
<1>5. MutualExclusion'
  <2>1. ASSUME NEW t \in Thread PROVE Holding(t)' <=> Holding(t)
    <3>1. CASE t = x
      BY <1>1, <3>1, Zenon DEF Holding
    <3>2. CASE t # x
      BY <1>1, <3>2, Zenon DEF Holding
    <3>. QED BY <3>1, <3>2, Zenon
  <2>. QED BY <1>0, <2>1, HoldFrame, Zenon
<1>6. NoStrandedWaiter'
  <2>1. \A t \in waiting : t \in Thread
    BY <1>0, Zenon DEF MutexTypeOK, TypeOK
  <2>2. \A t \in waiting : mpc'[t] \in {"nap", "sleep", "lock"}
    BY <1>0, <1>1, <2>1, Zenon DEF NoStrandedWaiter
  <2>3. ASSUME ~locked', NEW t \in Client, OnItsWay(t) PROVE OnItsWay(t)'
    <3>1. t \in Thread /\ mpc[t] \in {"sleep", "lock", "test"} /\ t \notin waiting /\ ~locked
      BY <2>3, MutexConstants, Zenon DEF OnItsWay, Worker
    <3>2. mpc'[t] \in {"sleep", "lock", "test"}
      BY <1>1, <3>1, Zenon
    <3>. QED BY <3>1, <3>2, Zenon DEF OnItsWay
  <2>. QED BY <1>0, <1>2, <2>2, <2>3, WaitFrame, Zenon
<1>. QED BY <1>2, <1>3, <1>4, <1>5, <1>6, Zenon DEF MutexInv

(* A step of mutex.c that leaves the scheduler, the wait list and the flag alone. *)
LEMMA CodeMove ==
  ASSUME MutexInv, NEW c \in CPU, NEW label, At(c, label), UNCHANGED vars,
         NEW m \in MutexPc \ {"cs"}, Goto(c, m),
         UNCHANGED <<locked, owner, waiters, rounds>>,
         m_lock' \in {Cur(c), None, m_lock},
         m \in {"nap", "sleep"} <=> mpc[Cur(c)] \in {"nap", "sleep"},
         mpc[Cur(c)] # "out" \/ rounds[Cur(c)] > 0,
         m \in {"unlock", "free"} <=> mpc[Cur(c)] \in {"cs", "unlock", "free"},
         Cur(c) \in waiting => m \in {"nap", "sleep", "lock"},
         mpc[Cur(c)] \in {"sleep", "lock", "test"} => m \in {"sleep", "lock", "test"} \/ locked,
         LET L == {"test", "nap", "free", "trytest"}
         IN  \/ m_lock = None /\ m_lock' = Cur(c) /\ m \in L
             \/ mpc[Cur(c)] \in L /\ m_lock' = None /\ m \notin L
             \/ m_lock' = m_lock /\ (m \in L <=> mpc[Cur(c)] \in L)
  PROVE  MutexInv'
<1>0. SchedInv /\ MutexTypeOK /\ WindowInv
  BY Zenon DEF MutexInv
<1>1. Cur(c) \in Thread /\ Cur(c) # None
  BY Actor, Zenon
<1>2. SchedInv'
  BY <1>0, StutterInv, Zenon
<1>3. pc' = pc /\ waiting' = waiting
  BY Zenon DEF vars, callVars
<1>4. PICK x \in Thread : x = Cur(c)
  BY <1>1, Zenon
<1>5. mpc' = [mpc EXCEPT ![x] = m]
  BY <1>4, Zenon DEF Goto
<1>6. WindowInv'
  <2>1. mpc'[x] = m /\ \A t \in Thread : t # x => mpc'[t] = mpc[t]
    BY <1>0, <1>5, Moved, Zenon
  <2>2. ASSUME NEW t \in Thread PROVE pc'[t] = "window" <=> mpc'[t] \in {"nap", "sleep"}
    <3>1. pc[t] = "window" <=> mpc[t] \in {"nap", "sleep"}
      BY <1>0, Zenon DEF WindowInv
    <3>2. CASE t = x
      BY <1>3, <1>4, <2>1, <3>1, <3>2, Zenon
    <3>3. CASE t # x
      BY <1>3, <2>1, <3>1, <3>3, Zenon
    <3>. QED BY <3>2, <3>3, Zenon
  <2>. QED BY <2>2, Zenon DEF WindowInv
<1>7. m_lock' \in Thread \cup {None}
  BY <1>0, <1>1, Zenon DEF MutexTypeOK
<1>. QED BY <1>1, <1>2, <1>3, <1>4, <1>5, <1>6, <1>7, PlainMove, Zenon

(* Entering mutex_lock, mutex_try_lock or mutex_unlock. *)
LEMMA CallInvM ==
  ASSUME MutexInv, NEW c \in CPU, MutexCall(c)
  PROVE  MutexInv'
<1>1. /\ At(c, "run") /\ UNCHANGED vars /\ UNCHANGED <<locked, owner, waiters, rounds>>
      /\ m_lock' = m_lock
  BY Zenon DEF MutexCall, MAt
<1>2. Cur(c) \notin waiting
  BY <1>1, Actor
<1>3. CASE mpc[Cur(c)] = "out" /\ rounds[Cur(c)] > 0 /\ Goto(c, "lock")
  <2>1. "lock" \in MutexPc \ {"cs"}
    BY Zenon DEF MutexPc
  <2>. QED BY <1>1, <1>2, <1>3, <2>1, CodeMove, Zenon
<1>4. CASE mpc[Cur(c)] = "out" /\ rounds[Cur(c)] > 0 /\ Goto(c, "try")
  <2>1. "try" \in MutexPc \ {"cs"}
    BY Zenon DEF MutexPc
  <2>. QED BY <1>1, <1>2, <1>4, <2>1, CodeMove, Zenon
<1>5. CASE mpc[Cur(c)] = "cs" /\ Goto(c, "unlock")
  <2>1. "unlock" \in MutexPc \ {"cs"}
    BY Zenon DEF MutexPc
  <2>. QED BY <1>1, <1>2, <1>5, <2>1, CodeMove, Zenon
<1>. QED BY <1>3, <1>4, <1>5, Zenon DEF MutexCall, MAt

(* spinlock_acquire(&m->lock). *)
LEMMA AcquireMInv ==
  ASSUME MutexInv, NEW c \in CPU, AcquireM(c)
  PROVE  MutexInv'
<1>1. /\ At(c, "run") /\ UNCHANGED vars /\ UNCHANGED <<locked, owner, waiters, rounds>>
      /\ m_lock = None /\ m_lock' = Cur(c)
  BY Zenon DEF AcquireM, MAt
<1>2. Cur(c) \notin waiting
  BY <1>1, Actor
<1>3. CASE mpc[Cur(c)] = "lock" /\ Goto(c, "test")
  <2>1. "test" \in MutexPc \ {"cs"}
    BY Zenon DEF MutexPc
  <2>. QED BY <1>1, <1>2, <1>3, <2>1, CodeMove, Zenon
<1>4. CASE mpc[Cur(c)] = "try" /\ Goto(c, "trytest")
  <2>1. "trytest" \in MutexPc \ {"cs"}
    BY Zenon DEF MutexPc
  <2>. QED BY <1>1, <1>2, <1>4, <2>1, CodeMove, Zenon
<1>5. CASE mpc[Cur(c)] = "unlock" /\ Goto(c, "free")
  <2>1. "free" \in MutexPc \ {"cs"}
    BY Zenon DEF MutexPc
  <2>. QED BY <1>1, <1>2, <1>5, <2>1, CodeMove, Zenon
<1>. QED BY <1>3, <1>4, <1>5, Zenon DEF AcquireM, MAt

(* mutex_try_lock fails. *)
LEMMA TryFailInv ==
  ASSUME MutexInv, NEW c \in CPU, MutexTryFail(c)
  PROVE  MutexInv'
<1>1. /\ At(c, "run") /\ UNCHANGED vars /\ UNCHANGED <<locked, owner, waiters, rounds>>
      /\ mpc[Cur(c)] = "trytest" /\ m_lock' = None /\ Goto(c, "out")
  BY Zenon DEF MutexTryFail, MAt
<1>2. Cur(c) \notin waiting
  BY <1>1, Actor
<1>3. "out" \in MutexPc \ {"cs"}
  BY Zenon DEF MutexPc
<1>. QED BY <1>1, <1>2, <1>3, CodeMove, Zenon

(* spinlock_release before going to sleep. *)
LEMMA DropInv ==
  ASSUME MutexInv, NEW c \in CPU, MutexDrop(c)
  PROVE  MutexInv'
<1>1. /\ At(c, "window") /\ UNCHANGED vars /\ UNCHANGED <<locked, owner, waiters, rounds>>
      /\ mpc[Cur(c)] = "nap" /\ m_lock' = None /\ Goto(c, "sleep")
  BY Zenon DEF MutexDrop
<1>2. "sleep" \in MutexPc \ {"cs"}
  BY Zenon DEF MutexPc
<1>. QED BY <1>1, <1>2, CodeMove, Zenon

(* The int $0x20 of mutex_lock. *)
LEMMA SleepInv ==
  ASSUME MutexInv, NEW c \in CPU, MutexSleep(c)
  PROVE  MutexInv'
<1>0. SchedInv /\ MutexTypeOK /\ WindowInv
  BY Zenon DEF MutexInv
<1>1. /\ At(c, "window") /\ Yield(c) /\ UNCHANGED <<m_lock, locked, owner, waiters, rounds>>
      /\ mpc[Cur(c)] = "sleep" /\ mpc' = [mpc EXCEPT ![Cur(c)] = "lock"]
  BY Zenon DEF MutexSleep, Goto
<1>2. SchedInv'
  BY <1>0, <1>1, YieldInv, Zenon
<1>3. Cur(c) \in Thread /\ Cur(c) # None
  BY <1>1, Actor, Zenon
<1>4. waiting' = waiting /\ pc' = [pc EXCEPT ![Cur(c)] = "run"]
  BY <1>1, Zenon DEF Yield, EnterIsr
<1>5. PICK x \in Thread : x = Cur(c)
  BY <1>3, Zenon
<1>6. "lock" \in MutexPc \ {"cs"}
  BY Zenon DEF MutexPc
<1>7. mpc'[x] = "lock" /\ \A t \in Thread : t # x => mpc'[t] = mpc[t]
  BY <1>0, <1>1, <1>5, <1>6, Moved, Zenon
<1>8. pc'[x] = "run" /\ \A t \in Thread : t # x => pc'[t] = pc[t]
  BY <1>0, <1>4, <1>5, Zenon DEF SchedInv, TypeOK
<1>9. WindowInv'
  <2>1. ASSUME NEW t \in Thread PROVE pc'[t] = "window" <=> mpc'[t] \in {"nap", "sleep"}
    <3>1. CASE t = x
      BY <1>7, <1>8, <3>1, Zenon
    <3>2. CASE t # x
      BY <1>0, <1>7, <1>8, <3>2, Zenon DEF WindowInv
    <3>. QED BY <3>1, <3>2, Zenon
  <2>. QED BY <2>1, Zenon DEF WindowInv
<1>10. m_lock' \in Thread \cup {None}
  BY <1>0, <1>1, Zenon DEF MutexTypeOK
<1>. QED BY <1>1, <1>2, <1>3, <1>4, <1>5, <1>6, <1>9, <1>10, PlainMove, Zenon

(* mutex_lock or mutex_try_lock succeeds. *)
LEMMA TakeInv ==
  ASSUME MutexInv, NEW c \in CPU, MutexTake(c)
  PROVE  MutexInv'
<1>0. /\ SchedInv /\ MutexTypeOK /\ SpinInv /\ WindowInv /\ RoundsInv
      /\ MutualExclusion /\ NoStrandedWaiter
  BY Zenon DEF MutexInv
<1>1. /\ At(c, "run") /\ mpc[Cur(c)] \in {"test", "trytest"} /\ ~locked
      /\ locked' = TRUE /\ owner' = Cur(c) /\ m_lock' = None
      /\ mpc' = [mpc EXCEPT ![Cur(c)] = "cs"] /\ UNCHANGED vars
      /\ waiters' = waiters /\ rounds' = rounds
  BY Zenon DEF MutexTake, MAt, TakeGuard, Goto
<1>2. SchedInv' /\ pc' = pc /\ waiting' = waiting
  BY <1>0, <1>1, StutterInv, Zenon DEF vars, callVars
<1>3. Cur(c) \in Thread /\ Cur(c) # None /\ Cur(c) \notin waiting
  BY <1>1, Actor
<1>4. PICK x \in Thread : x = Cur(c)
  BY <1>3, Zenon
<1>5. /\ mpc'[x] = "cs" /\ \A t \in Thread : t # x => mpc'[t] = mpc[t]
      /\ mpc' \in [Thread -> MutexPc]
  <2>1. "cs" \in MutexPc
    BY Zenon DEF MutexPc
  <2>. QED BY <1>0, <1>1, <1>4, <2>1, Moved, Zenon
<1>6. MutexTypeOK'
  BY <1>0, <1>1, <1>2, <1>3, <1>5, Zenon DEF MutexTypeOK, SchedInv
<1>7. SpinInv'
  BY <1>0, <1>1, <1>3, <1>4, <1>5, SpinFrame, Zenon
<1>8. WindowInv'
  BY <1>0, <1>1, <1>2, <1>4, <1>5, Zenon DEF WindowInv
<1>9. RoundsInv'
  BY <1>0, <1>1, <1>4, <1>5, Zenon DEF RoundsInv
<1>10. MutualExclusion'
  <2>1. \A t \in Thread : ~Holding(t)
    BY <1>0, <1>1, Zenon DEF MutualExclusion
  <2>2. \A t \in Thread : Holding(t)' <=> t = x
    BY <1>5, <2>1, Zenon DEF Holding
  <2>. QED BY <1>1, <1>4, <2>2, Zenon DEF MutualExclusion
<1>11. NoStrandedWaiter'
  <2>1. \A t \in waiting : t \in Thread /\ mpc'[t] \in {"nap", "sleep", "lock"}
    BY <1>0, <1>3, <1>4, <1>5, Zenon DEF MutexTypeOK, TypeOK, NoStrandedWaiter
  <2>. QED BY <1>0, <1>1, <1>2, <1>6, <2>1, WaitFrame, Zenon
<1>. QED BY <1>2, <1>6, <1>7, <1>8, <1>9, <1>10, <1>11, Zenon DEF MutexInv

(* A thread that is not on a list goes to its front. *)
LEMMA PushFront ==
  ASSUME NEW q \in Seq(Thread), NEW x \in Thread, NEW w, NEW p, p = <<x>> \o q,
         \A i, j \in 1..Len(q) : q[i] = q[j] => i = j,
         {q[i] : i \in 1..Len(q)} = w, x \notin w
  PROVE  /\ p \in Seq(Thread) /\ \A i, j \in 1..Len(p) : p[i] = p[j] => i = j
         /\ {p[i] : i \in 1..Len(p)} = w \cup {x}
<1>1. /\ p \in Seq(Thread) /\ Len(p) = Len(q) + 1 /\ Len(q) \in Nat /\ p[1] = x
      /\ \A i \in 2..Len(p) : i - 1 \in 1..Len(q) /\ p[i] = q[i - 1]
      /\ \A i \in 1..Len(q) : i + 1 \in 2..Len(p) /\ p[i + 1] = q[i]
  BY SMTT(40)
<1>2. \A i \in 1..Len(q) : q[i] \in w /\ q[i] # x
  BY Zenon
<1>3. ASSUME NEW i \in 1..Len(p), NEW j \in 1..Len(p), p[i] = p[j] PROVE i = j
  <2>1. CASE i = 1 \/ j = 1
    BY <1>1, <1>2, <1>3, <2>1, SMTT(40)
  <2>2. CASE i # 1 /\ j # 1
    <3>1. i - 1 \in 1..Len(q) /\ j - 1 \in 1..Len(q) /\ q[i - 1] = q[j - 1]
      BY <1>1, <1>3, <2>2, SMTT(40)
    <3>2. i - 1 = j - 1
      BY <3>1, Zenon
    <3>. QED BY <1>1, <3>2, SMTT(40)
  <2>. QED BY <2>1, <2>2, Zenon
<1>4. ASSUME NEW t PROVE t \in {p[i] : i \in 1..Len(p)} <=> t \in w \cup {x}
  <2>1. ASSUME NEW i \in 1..Len(p) PROVE p[i] \in w \cup {x}
    <3>1. i = 1 \/ i \in 2..Len(p)
      BY <1>1, SMTT(40)
    <3>. QED BY <1>1, <1>2, <3>1, Zenon
  <2>2. 1 \in 1..Len(p)
    BY <1>1, SMTT(40)
  <2>3. ASSUME NEW i \in 1..Len(q) PROVE \E j \in 1..Len(p) : p[j] = q[i]
    <3>1. i + 1 \in 1..Len(p)
      BY <1>1, SMTT(40)
    <3>. QED BY <1>1, <3>1, Zenon
  <2>4. t \in w => \E i \in 1..Len(q) : t = q[i]
    BY Zenon
  <2>5. t \in w \cup {x} => \E j \in 1..Len(p) : p[j] = t
    <3>1. p[1] = x
      BY <1>1, Zenon
    <3>2. t = x => \E j \in 1..Len(p) : p[j] = t
      BY <2>2, <3>1, Zenon
    <3>3. t \in w => \E j \in 1..Len(p) : p[j] = t
      BY <2>3, <2>4, Zenon
    <3>. QED BY <3>2, <3>3, Zenon
  <2>. QED BY <2>1, <2>5, Zenon
<1>. QED BY <1>1, <1>3, <1>4, Zenon

(* mutex_lock finds the mutex taken and queues the caller. *)
LEMMA WaitInv ==
  ASSUME MutexInv, NEW c \in CPU, MutexWait(c)
  PROVE  MutexInv'
<1>0. /\ SchedInv /\ TypeOK /\ MutexTypeOK /\ SpinInv /\ WindowInv /\ RoundsInv
      /\ MutualExclusion /\ NoStrandedWaiter
  BY Zenon DEF MutexInv, SchedInv
<1>1. /\ At(c, "run") /\ Block(c) /\ mpc[Cur(c)] = "test" /\ locked
      /\ waiters' = <<Cur(c)>> \o waiters /\ mpc' = [mpc EXCEPT ![Cur(c)] = "nap"]
      /\ m_lock' = m_lock /\ locked' = locked /\ owner' = owner /\ rounds' = rounds
  BY Zenon DEF MutexWait, MAt, Goto
<1>2. /\ SchedInv' /\ pc' = [pc EXCEPT ![Cur(c)] = "window"]
      /\ waiting' = waiting \cup {Cur(c)}
  BY <1>0, <1>1, BlockInv, Zenon DEF Block
<1>3. Cur(c) \in Thread /\ Cur(c) # None /\ Cur(c) \notin waiting
  BY <1>1, Actor
<1>4. PICK x \in Thread : x = Cur(c)
  BY <1>3, Zenon
<1>5. /\ mpc'[x] = "nap" /\ \A t \in Thread : t # x => mpc'[t] = mpc[t]
      /\ mpc' \in [Thread -> MutexPc]
  <2>1. "nap" \in MutexPc
    BY Zenon DEF MutexPc
  <2>. QED BY <1>0, <1>1, <1>4, <2>1, Moved, Zenon
<1>6. pc'[x] = "window" /\ \A t \in Thread : t # x => pc'[t] = pc[t]
  BY <1>0, <1>2, <1>4, Zenon DEF TypeOK
<1>7. /\ waiters \in Seq(Thread) /\ {waiters[i] : i \in 1..Len(waiters)} = waiting
      /\ \A i, j \in 1..Len(waiters) : waiters[i] = waiters[j] => i = j
  BY <1>0, Zenon DEF NoStrandedWaiter, MutexTypeOK
<1>8. /\ waiters' \in Seq(Thread) /\ {waiters'[i] : i \in 1..Len(waiters')} = waiting'
      /\ \A i, j \in 1..Len(waiters') : waiters'[i] = waiters'[j] => i = j
  <2>1. waiters' = <<x>> \o waiters /\ x \notin waiting /\ waiting' = waiting \cup {x}
    BY <1>1, <1>2, <1>3, <1>4, Zenon
  <2>. QED BY ONLY <1>7, <2>1, PushFront, SMTT(40)
<1>9. MutexTypeOK'
  BY <1>0, <1>1, <1>2, <1>5, <1>8, Zenon DEF MutexTypeOK, SchedInv
<1>10. SpinInv'
  BY <1>0, <1>1, <1>3, <1>4, <1>5, SpinFrame, Zenon
<1>11. WindowInv'
  <2>1. ASSUME NEW t \in Thread PROVE pc'[t] = "window" <=> mpc'[t] \in {"nap", "sleep"}
    <3>1. CASE t = x
      BY <1>5, <1>6, <3>1, Zenon
    <3>2. CASE t # x
      BY <1>0, <1>5, <1>6, <3>2, Zenon DEF WindowInv
    <3>. QED BY <3>1, <3>2, Zenon
  <2>. QED BY <2>1, Zenon DEF WindowInv
<1>12. RoundsInv'
  BY <1>0, <1>1, <1>4, <1>5, Zenon DEF RoundsInv
<1>13. MutualExclusion'
  <2>1. ASSUME NEW t \in Thread PROVE Holding(t)' <=> Holding(t)
    BY <1>1, <1>4, <1>5, Zenon DEF Holding
  <2>. QED BY <1>0, <1>1, <2>1, HoldFrame, Zenon
<1>14. NoStrandedWaiter'
  <2>1. ASSUME NEW t \in waiting' PROVE mpc'[t] \in {"nap", "sleep", "lock"}
    <3>1. CASE t = x
      BY <1>5, <3>1, Zenon
    <3>2. CASE t # x
      BY <1>0, <1>2, <1>4, <1>5, <2>1, <3>2, Zenon DEF NoStrandedWaiter, TypeOK
    <3>. QED BY <3>1, <3>2, Zenon
  <2>. QED BY <1>1, <1>8, <1>9, <2>1, Zenon DEF NoStrandedWaiter
<1>. QED BY <1>2, <1>9, <1>10, <1>11, <1>12, <1>13, <1>14, Zenon DEF MutexInv

(* mutex_unlock releases the mutex and wakes the newest waiter, which is past its
   window's release of m->lock and so comes back to the test of m->locked. *)
LEMMA UnlockInv ==
  ASSUME MutexInv, NEW c \in CPU, MutexUnlock(c)
  PROVE  MutexInv'
<1>0. /\ SchedInv /\ TypeOK /\ MutexTypeOK /\ SpinInv /\ WindowInv /\ RoundsInv
      /\ MutualExclusion /\ NoStrandedWaiter
  BY Zenon DEF MutexInv, SchedInv
<1>1. /\ At(c, "run") /\ mpc[Cur(c)] = "free" /\ locked' = FALSE /\ owner' = None /\ m_lock' = None
      /\ rounds' = [rounds EXCEPT ![Cur(c)] = @ - 1] /\ mpc' = [mpc EXCEPT ![Cur(c)] = "out"]
      /\ \/ waiters = <<>> /\ UNCHANGED vars /\ waiters' = waiters
         \/ waiters # <<>> /\ WakeCall(c, Head(waiters)) /\ waiters' = Tail(waiters)
  BY Zenon DEF MutexUnlock, MAt, Goto
<1>2. Cur(c) \in Thread /\ Cur(c) # None /\ pc[Cur(c)] = "run" /\ Cur(c) \notin waiting
  BY <1>1, Actor
<1>3. PICK x \in Thread : x = Cur(c)
  BY <1>2, Zenon
<1>4. /\ mpc'[x] = "out" /\ \A t \in Thread : t # x => mpc'[t] = mpc[t]
      /\ mpc' \in [Thread -> MutexPc]
  <2>1. "out" \in MutexPc
    BY Zenon DEF MutexPc
  <2>. QED BY <1>0, <1>1, <1>3, <2>1, Moved, Zenon
<1>5. /\ rounds' \in [Thread -> 0..Rounds] /\ rounds[x] > 0
      /\ \A t \in Thread : rounds'[t] > 0 => rounds[t] > 0
      /\ \A t \in Thread : t # x => rounds'[t] = rounds[t]
  <2>1. rounds \in [Thread -> 0..Rounds] /\ rounds[x] > 0 /\ mpc[x] = "free"
    BY <1>0, <1>1, <1>3, Zenon DEF MutexTypeOK, RoundsInv
  <2>. HIDE <1>0
  <2>. QED BY <1>1, <1>3, <2>1, MutexConstants, SMTT(40)
<1>6. SpinInv'
  BY <1>0, <1>1, <1>2, <1>3, <1>4, SpinFrame, Zenon
<1>7. RoundsInv'
  BY <1>0, <1>3, <1>4, <1>5, Zenon DEF RoundsInv
<1>8. MutualExclusion'
  <2>1. ASSUME NEW t \in Thread PROVE ~Holding(t)'
    BY <1>0, <1>1, <1>3, <1>4, Zenon DEF MutualExclusion, Holding
  <2>. QED BY <1>1, <2>1, Zenon DEF MutualExclusion
<1>9. ASSUME NEW t \in Thread, t \in waiting PROVE t # x /\ mpc'[t] \in {"nap", "sleep", "lock"}
  BY <1>0, <1>2, <1>3, <1>4, <1>9, Zenon DEF NoStrandedWaiter
<1>10. CASE waiters = <<>> /\ UNCHANGED vars /\ waiters' = waiters
  <2>1. SchedInv' /\ pc' = pc /\ waiting' = waiting
    BY <1>0, <1>10, StutterInv, Zenon DEF vars, callVars
  <2>2. MutexTypeOK'
    BY <1>0, <1>1, <1>4, <1>5, <1>10, <2>1, Zenon DEF MutexTypeOK, SchedInv
  <2>3. WindowInv'
    BY <1>0, <1>1, <1>3, <1>4, <2>1, Zenon DEF WindowInv
  <2>4. /\ \A i, j \in 1..Len(waiters') : waiters'[i] = waiters'[j] => i = j
        /\ {waiters'[i] : i \in 1..Len(waiters')} = waiting'
    <3>1. waiters' = waiters /\ waiting' = waiting
      BY <1>10, <2>1, Zenon
    <3>2. /\ \A i, j \in 1..Len(waiters) : waiters[i] = waiters[j] => i = j
          /\ {waiters[i] : i \in 1..Len(waiters)} = waiting
      BY <1>0, Zenon DEF NoStrandedWaiter
    <3>. QED BY ONLY <3>1, <3>2, SMTT(40)
  <2>5. \A t \in waiting' : mpc'[t] \in {"nap", "sleep", "lock"}
    BY <1>0, <1>9, <2>1, Zenon DEF TypeOK
  <2>6. NoStrandedWaiter'
    BY <1>10, <2>2, <2>4, <2>5, Zenon DEF NoStrandedWaiter
  <2>. QED BY <1>6, <1>7, <1>8, <2>1, <2>2, <2>3, <2>6, Zenon DEF MutexInv
<1>11. CASE waiters # <<>> /\ WakeCall(c, Head(waiters)) /\ waiters' = Tail(waiters)
  <2>1. /\ waiters \in Seq(Thread) /\ {waiters[i] : i \in 1..Len(waiters)} = waiting
        /\ \A i, j \in 1..Len(waiters) : waiters[i] = waiters[j] => i = j
    BY <1>0, Zenon DEF NoStrandedWaiter, MutexTypeOK
  <2>2. PICK h \in Thread : h = Head(waiters)
    BY <1>11, <2>1, TakeHead, Zenon
  <2>3. /\ h \in waiting /\ waiting' = waiting \ {h} /\ h \in Worker
        /\ pc' = [pc EXCEPT ![x] = "wake"]
    BY <1>0, <1>3, <1>11, <2>2, Zenon DEF WakeCall, SchedInv, CallInv
  <2>4. SchedInv'
    BY <1>0, <1>11, <2>2, <2>3, WakeCallInv, Zenon
  <2>5. pc'[x] = "wake" /\ \A t \in Thread : t # x => pc'[t] = pc[t]
    BY <1>0, <2>3, Zenon DEF TypeOK
  <2>6. WindowInv'
    <3>1. ASSUME NEW t \in Thread PROVE pc'[t] = "window" <=> mpc'[t] \in {"nap", "sleep"}
      <4>1. CASE t = x
        BY <1>4, <2>5, <4>1, Zenon
      <4>2. CASE t # x
        BY <1>0, <1>4, <2>5, <4>2, Zenon DEF WindowInv
      <4>. QED BY <4>1, <4>2, Zenon
    <3>. QED BY <3>1, Zenon DEF WindowInv
  <2>7. /\ waiters' \in Seq(Thread)
        /\ \A i, j \in 1..Len(waiters') : waiters'[i] = waiters'[j] => i = j
        /\ \A t \in Thread : (\E i \in 1..Len(waiters') : waiters'[i] = t) <=> t \in waiting'
    <3>1. /\ Tail(waiters) \in Seq(Thread)
          /\ \A i, j \in 1..Len(Tail(waiters)) : Tail(waiters)[i] = Tail(waiters)[j] => i = j
          /\ \A t \in Thread : (\E i \in 1..Len(Tail(waiters)) : Tail(waiters)[i] = t)
                                 <=> (\E i \in 1..Len(waiters) : waiters[i] = t) /\ t # h
      BY <1>11, <2>1, <2>2, TakeHead, Zenon
    <3>2. \A t \in Thread : (\E i \in 1..Len(waiters) : waiters[i] = t) <=> t \in waiting
      BY <2>1, Zenon
    <3>. QED BY <1>11, <2>3, <3>1, <3>2, Zenon
  <2>8. {waiters'[i] : i \in 1..Len(waiters')} = waiting'
    <3>1. \A i \in 1..Len(waiters') : waiters'[i] \in Thread
      BY <2>7, SMTT(40)
    <3>2. waiting' \subseteq Thread
      BY <1>0, <2>3, Zenon DEF TypeOK
    <3>3. ASSUME NEW t PROVE t \in {waiters'[i] : i \in 1..Len(waiters')} <=> t \in waiting'
      <4>1. t \in {waiters'[i] : i \in 1..Len(waiters')}
              <=> \E i \in 1..Len(waiters') : waiters'[i] = t
        BY Zenon
      <4>. QED BY <2>7, <3>1, <3>2, <4>1, Zenon
    <3>. QED BY <3>3, Zenon
  <2>9. MutexTypeOK'
    BY <1>0, <1>1, <1>4, <1>5, <2>4, <2>7, Zenon DEF MutexTypeOK, SchedInv
  <2>10. \A t \in waiting' : mpc'[t] \in {"nap", "sleep", "lock"}
    BY <1>0, <1>9, <2>3, Zenon DEF TypeOK
  <2>11. h \in Client /\ OnItsWay(h)'
    <3>1. h # x /\ mpc'[h] = mpc[h] /\ mpc[h] \in {"nap", "sleep", "lock"}
      BY <1>4, <1>9, <2>3, Zenon
    <3>2. m_lock = x /\ mpc[h] # "nap"
      BY <1>0, <1>1, <1>3, <3>1, Zenon DEF SpinInv
    <3>3. h \in Client
      BY <1>0, <3>1, Zenon DEF RoundsInv
    <3>4. h \notin waiting'
      BY <2>3, Zenon
    <3>. QED BY <3>1, <3>2, <3>3, <3>4, Zenon DEF OnItsWay
  <2>12. NoStrandedWaiter'
    BY <2>7, <2>8, <2>9, <2>10, <2>11, Zenon DEF NoStrandedWaiter
  <2>. QED BY <1>6, <1>7, <1>8, <2>4, <2>6, <2>9, <2>12, Zenon DEF MutexInv
<1>. QED BY <1>1, <1>10, <1>11, Zenon

(* The scheduler's own steps, and the exit of a client that is done. *)
LEMMA SchedStepInv ==
  ASSUME MutexInv, NEW c \in CPU, SchedStep(c) \/ MutexExit(c)
  PROVE  MutexInv'
<1>0. SchedInv /\ TypeOK
  BY Zenon DEF MutexInv, SchedInv
<1>1. mutexVars' = mutexVars
  BY Zenon DEF SchedStep, MutexExit
<1>2. CASE SchedApEnter(c) \/ AcquireRq(c) \/ Timer(c) \/ SchedTick(c) \/ SwitchStack(c) \/ ThreadExit(c)
  <2>1. SchedInv'
    BY <1>0, <1>2, ApEnterInv, AcquireInv, TimerInv, TickInv, SwitchInv, ExitInv, Zenon
  <2>2. pc' = pc /\ waiting' = waiting
    BY <1>2, Zenon DEF SchedApEnter, AcquireRq, Timer, SchedTick, SwitchStack, ThreadExit, EnterIsr,
                       callVars
  <2>. QED BY <1>1, <2>1, <2>2, SchedFrame, Zenon
<1>3. CASE WakeSpin(c) \/ SchedWake(c)
  <2>1. SchedInv'
    BY <1>0, <1>3, WakeSpinInv, WakeInv, Zenon
  <2>2. PICK label \in {"wake", "ready"}, m \in {"ready", "run"} :
          At(c, label) /\ pc' = [pc EXCEPT ![Cur(c)] = m] /\ waiting' = waiting
    BY <1>3, Zenon DEF WakeSpin, SchedWake
  <2>3. Cur(c) \in Thread /\ pc[Cur(c)] = label
    BY <2>2, Actor, Zenon
  <2>4. ASSUME NEW t \in Thread PROVE pc'[t] = "window" <=> pc[t] = "window"
    <3>1. CASE t = Cur(c)
      BY <1>0, <2>2, <2>3, <3>1, Zenon DEF TypeOK
    <3>2. CASE t # Cur(c)
      BY <1>0, <2>2, <3>2, Zenon DEF TypeOK
    <3>. QED BY <3>1, <3>2, Zenon
  <2>. QED BY <1>1, <2>1, <2>2, <2>4, SchedFrame, Zenon
<1>. QED BY <1>2, <1>3, Zenon DEF SchedStep, MutexExit

(* Every step of the mutex's clients and of the scheduler under them preserves
   MutexInv. *)
LEMMA MutexNextInv ==
  ASSUME MutexInv, [MutexNext]_allVars
  PROVE  MutexInv'
<1>1. CASE UNCHANGED allVars
  <2>1. UNCHANGED vars /\ UNCHANGED mutexVars /\ pc' = pc /\ waiting' = waiting
    BY <1>1, Zenon DEF allVars, vars, callVars
  <2>2. SchedInv'
    BY <2>1, StutterInv, Zenon DEF MutexInv
  <2>. QED BY <2>1, <2>2, SchedFrame, Zenon
<1>2. ASSUME NEW c \in CPU, SchedStep(c) \/ MutexStep(c) PROVE MutexInv'
  BY <1>2, SchedStepInv, CallInvM, AcquireMInv, TakeInv, TryFailInv, WaitInv, DropInv, SleepInv,
     UnlockInv, Zenon DEF MutexStep
<1>. QED BY <1>1, <1>2, Zenon DEF MutexNext

(* The state kernel_main hands to the clients satisfies MutexInv. *)
LEMMA MutexInitInv == MutexInit => MutexInv
<1>. SUFFICES ASSUME MutexInit PROVE MutexInv
  BY Zenon
<1>1. /\ Init /\ m_lock = None /\ locked = FALSE /\ owner = None /\ waiters = <<>>
      /\ mpc = [t \in Thread |-> "out"]
      /\ rounds = [t \in Thread |-> IF t \in Client THEN Rounds ELSE 0]
  BY Zenon DEF MutexInit
<1>2. SchedInv
  BY <1>1, InitInv, Zenon
<1>3. /\ \A t \in Thread : mpc[t] = "out" /\ pc[t] = "run"
      /\ None \notin Thread /\ waiting = {}
  BY <1>1, SchedConstants, Zenon DEF Init
<1>4. MutexTypeOK
  <2>1. mpc \in [Thread -> MutexPc]
    BY <1>1, Zenon DEF MutexPc
  <2>2. rounds \in [Thread -> 0..Rounds]
    BY <1>1, MutexConstants, SMTT(40)
  <2>3. waiters \in Seq(Thread)
    BY <1>1, SMTT(40)
  <2>. QED BY <1>1, <1>2, <2>1, <2>2, <2>3, Zenon DEF MutexTypeOK, SchedInv
<1>5. SpinInv /\ WindowInv /\ MutualExclusion
  BY <1>1, <1>3, Zenon DEF SpinInv, WindowInv, MutualExclusion, Holding
<1>6. RoundsInv
  BY <1>1, <1>3, SMTT(40) DEF RoundsInv
<1>7. NoStrandedWaiter
  BY <1>1, <1>3, <1>4, SMTT(40) DEF NoStrandedWaiter
<1>. QED BY <1>2, <1>4, <1>5, <1>6, <1>7, Zenon DEF MutexInv

(* The mutex's invariant, with the scheduler's own under it, holds in every state
   of any number of clients on any number of CPUs. *)
THEOREM MutexInvariant == MutexSpec => []MutexInv
<1>1. MutexInit => MutexInv
  BY MutexInitInv, Zenon
<1>2. MutexInv /\ [MutexNext]_allVars => MutexInv'
  BY MutexNextInv, Zenon
<1>. QED BY <1>1, <1>2, PTL DEF MutexSpec

(* mutex_lock and mutex_try_lock admit one thread at a time, and m->owner names
   it. *)
THEOREM MutualExclusionHolds == MutexSpec => []MutualExclusion
<1>1. MutexInv => MutualExclusion
  BY Zenon DEF MutexInv
<1>. QED BY <1>1, MutexInvariant, PTL

(* mutex_unlock loses no wakeup: when the mutex is free and somebody is queued on
   it, some client is on its way to take it. *)
THEOREM NoStrandedWaiterHolds == MutexSpec => []NoStrandedWaiter
<1>1. MutexInv => NoStrandedWaiter
  BY Zenon DEF MutexInv
<1>. QED BY <1>1, MutexInvariant, PTL

(* The mutex uses the scheduler only through its entry points: every behaviour of
   the clients is a behaviour of Sched, so what is proved of Sched holds under
   mutex.c. *)
THEOREM MutexUsesSched == MutexSpec => Spec
<1>1. MutexInit => Init
  BY Zenon DEF MutexInit
<1>2. ASSUME MutexInv, [MutexNext]_allVars PROVE [Next]_vars
  <2>1. CASE UNCHANGED allVars
    BY <2>1, Zenon DEF allVars
  <2>2. ASSUME NEW c \in CPU, SchedStep(c) PROVE Next
    BY <2>2, Zenon DEF SchedStep, Next, ThreadStep, InterruptStep
  <2>3. ASSUME NEW c \in CPU, MutexStep(c) PROVE Next \/ UNCHANGED vars
    <3>1. CASE MutexCall(c) \/ AcquireM(c) \/ MutexTake(c) \/ MutexTryFail(c) \/ MutexDrop(c)
      BY <3>1, Zenon DEF MutexCall, AcquireM, MutexTake, MutexTryFail, MutexDrop
    <3>2. CASE MutexWait(c) \/ MutexSleep(c) \/ MutexExit(c)
      BY <3>2, Zenon DEF MutexWait, MutexSleep, MutexExit, Next, ThreadStep, InterruptStep
    <3>3. CASE MutexUnlock(c)
      <4>1. CASE WakeCall(c, Head(waiters))
        <5>1. Head(waiters) \in Worker
          BY <1>2, <4>1, Zenon DEF WakeCall, MutexInv, SchedInv, CallInv
        <5>. QED BY <4>1, <5>1, Zenon DEF Next, ThreadStep
      <4>. QED BY <3>3, <4>1, Zenon DEF MutexUnlock
    <3>. QED BY <2>3, <3>1, <3>2, <3>3, Zenon DEF MutexStep
  <2>. QED BY <1>2, <2>1, <2>2, <2>3, Zenon DEF MutexNext
<1>. QED BY <1>1, <1>2, MutexInvariant, PTL DEF MutexSpec, Spec

============================================================================
