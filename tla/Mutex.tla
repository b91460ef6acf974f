------------------------------- MODULE Mutex -------------------------------
(***************************************************************************)
(* kernel/sync/mutex.c on top of the scheduler: a sleeping mutex whose     *)
(* state is guarded by a plain spinlock m->lock.  Each step of a mutex     *)
(* operation is taken by the thread that is current on some CPU, so the    *)
(* timer can take the CPU away between any two of them.  The clients run   *)
(* the loop of kernel/test/test_sched.c's mutex_thread.                    *)
(***************************************************************************)
EXTENDS Sched

CONSTANTS
  Client,   \* the threads that use the mutex
  Rounds    \* lock/unlock pairs each client performs

ASSUME MutexConstants == Client \subseteq Worker \ {Boot} /\ Rounds \in Nat

VARIABLES
  m_lock,   \* holder of m->lock, or None
  locked,   \* m->locked
  owner,    \* m->owner
  waiters,  \* m->waiters: newest first
  mpc,      \* where each thread is in the mutex operations
  rounds    \* lock/unlock pairs still to do

mutexVars == <<m_lock, locked, owner, waiters, mpc, rounds>>
allVars == <<vars, mutexVars>>

MutexPc == {"out", "lock", "test", "nap", "sleep", "cs", "unlock", "free", "try", "trytest"}

(* Every field of the mutex, and every client's position in mutex.c, stays within
   its range, on top of the scheduler's own type invariant. *)
MutexTypeOK ==
  /\ TypeOK
  /\ m_lock \in Thread \cup {None}
  /\ locked \in BOOLEAN
  /\ owner \in Thread \cup {None}
  /\ waiters \in Seq(Thread)
  /\ mpc \in [Thread -> MutexPc]
  /\ rounds \in [Thread -> 0..Rounds]

MutexInit ==
  /\ Init
  /\ m_lock = None
  /\ locked = FALSE
  /\ owner = None
  /\ waiters = <<>>
  /\ mpc = [t \in Thread |-> "out"]
  /\ rounds = [t \in Thread |-> IF t \in Client THEN Rounds ELSE 0]

(* The current thread of c executes mutex code at label m. *)
MAt(c, m) == At(c, "run") /\ mpc[Cur(c)] = m

Goto(c, m) == mpc' = [mpc EXCEPT ![Cur(c)] = m]

-----------------------------------------------------------------------------
(* Entering mutex_lock, mutex_try_lock or mutex_unlock. *)
MutexCall(c) ==
  /\ \/ /\ MAt(c, "out") /\ rounds[Cur(c)] > 0
        /\ Goto(c, "lock") \/ Goto(c, "try")
     \/ MAt(c, "cs") /\ Goto(c, "unlock")
  /\ UNCHANGED <<vars, m_lock, locked, owner, waiters, rounds>>

(* spinlock_acquire(&m->lock), interrupts left enabled. *)
AcquireM(c) ==
  /\ \/ MAt(c, "lock") /\ Goto(c, "test")
     \/ MAt(c, "try") /\ Goto(c, "trytest")
     \/ MAt(c, "unlock") /\ Goto(c, "free")
  /\ m_lock = None
  /\ m_lock' = Cur(c)
  /\ UNCHANGED <<vars, locked, owner, waiters, rounds>>

TakeGuard_NoTest == TRUE

(* The exit condition of mutex_lock's while loop, and mutex_try_lock's test. *)
TakeGuard == ~locked

(* mutex_lock's exit from its loop, and mutex_try_lock's success. *)
MutexTake(c) ==
  /\ MAt(c, "test") \/ MAt(c, "trytest")
  /\ TakeGuard
  /\ locked' = TRUE
  /\ owner' = Cur(c)
  /\ m_lock' = None
  /\ Goto(c, "cs")
  /\ UNCHANGED <<vars, waiters, rounds>>

MutexTryFail(c) ==
  /\ MAt(c, "trytest")
  /\ locked
  /\ m_lock' = None
  /\ Goto(c, "out")
  /\ UNCHANGED <<vars, locked, owner, waiters, rounds>>

(* The loop body of mutex_lock up to state = BLOCKED, m->lock still held. *)
MutexWait(c) ==
  /\ MAt(c, "test")
  /\ locked
  /\ Block(c)
  /\ waiters' = <<Cur(c)>> \o waiters
  /\ Goto(c, "nap")
  /\ UNCHANGED <<m_lock, locked, owner, rounds>>

(* spinlock_release before going to sleep. *)
MutexDrop(c) ==
  /\ At(c, "window") /\ mpc[Cur(c)] = "nap"
  /\ m_lock' = None
  /\ Goto(c, "sleep")
  /\ UNCHANGED <<vars, locked, owner, waiters, rounds>>

(* cli; int $0x20; and, once resumed, sti and back to spinlock_acquire. *)
MutexSleep(c) ==
  /\ At(c, "window") /\ mpc[Cur(c)] = "sleep"
  /\ Yield(c)
  /\ Goto(c, "lock")
  /\ UNCHANGED <<m_lock, locked, owner, waiters, rounds>>

MutexUnlock_NoWake(c) ==
  /\ MAt(c, "free")
  /\ locked' = FALSE
  /\ owner' = None
  /\ m_lock' = None
  /\ rounds' = [rounds EXCEPT ![Cur(c)] = @ - 1]
  /\ Goto(c, "out")
  /\ UNCHANGED <<vars, waiters>>

(* The locked body of mutex_unlock, its release, and the call to sched_wake. *)
MutexUnlock(c) ==
  /\ MAt(c, "free")
  /\ locked' = FALSE
  /\ owner' = None
  /\ m_lock' = None
  /\ rounds' = [rounds EXCEPT ![Cur(c)] = @ - 1]
  /\ Goto(c, "out")
  /\ IF waiters = <<>>
       THEN UNCHANGED <<vars, waiters>>
       ELSE WakeCall(c, Head(waiters)) /\ waiters' = Tail(waiters)

MutexExit(c) ==
  /\ Cur(c) \in Client /\ mpc[Cur(c)] = "out" /\ rounds[Cur(c)] = 0
  /\ ThreadExit(c)
  /\ UNCHANGED mutexVars

-----------------------------------------------------------------------------
(* What the scheduler does by itself. *)
SchedStep(c) ==
  /\ \/ SchedApEnter(c)
     \/ AcquireRq(c) \/ WakeSpin(c) \/ SchedWake(c)
     \/ Timer(c) \/ SchedTick(c) \/ SwitchStack(c)
  /\ UNCHANGED mutexVars

MutexStep(c) ==
  \/ MutexCall(c) \/ AcquireM(c) \/ MutexTake(c) \/ MutexTryFail(c)
  \/ MutexWait(c) \/ MutexDrop(c) \/ MutexSleep(c) \/ MutexUnlock(c)
  \/ MutexExit(c)

MutexNext == \E c \in CPU : SchedStep(c) \/ MutexStep(c)

MutexSpec == MutexInit /\ [][MutexNext]_allVars

(* Thread code that holds a CPU keeps executing, and so does the ISR. *)
MutexFairSpec ==
  /\ MutexSpec
  /\ \A c \in CPU : /\ WF_allVars(Timer(c) /\ UNCHANGED mutexVars)
                    /\ WF_allVars(SchedTick(c) /\ UNCHANGED mutexVars)
                    /\ WF_allVars(SwitchStack(c) /\ UNCHANGED mutexVars)
                    /\ SF_allVars(AcquireRq(c) /\ UNCHANGED mutexVars)
                    /\ SF_allVars(WakeSpin(c) /\ UNCHANGED mutexVars)
                    /\ SF_allVars(SchedWake(c) /\ UNCHANGED mutexVars)
                    /\ SF_allVars(MutexStep(c))

-----------------------------------------------------------------------------
(* Properties *)

Holding(t) == mpc[t] \in {"cs", "unlock", "free"}

(* At most one thread is between a successful lock and its unlock, and m->locked
   and m->owner say which. *)
MutualExclusion ==
  /\ \A t, u \in Thread : Holding(t) /\ Holding(u) => t = u
  /\ \A t \in Thread : Holding(t) <=> (locked /\ owner = t)

(* A thread that mutex_unlock took off the wait list and that has not yet been
   back to the test of m->locked. *)
OnItsWay(t) == mpc[t] \in {"sleep", "lock", "test"} /\ t \notin waiting

(* No wakeup is lost: the wait list holds each waiting thread once, exactly the
   ones mutex_unlock has still to wake, and when the mutex is free and someone
   waits for it, some thread is on its way to take it. *)
NoStrandedWaiter ==
  /\ MutexTypeOK
  /\ \A i, j \in 1..Len(waiters) : waiters[i] = waiters[j] => i = j
  /\ {waiters[i] : i \in 1..Len(waiters)} = waiting
  /\ \A t \in waiting : mpc[t] \in {"nap", "sleep", "lock"}
  /\ ~locked /\ waiters # <<>> => \E t \in Client : OnItsWay(t)

(* test_sched.c: every client completes all its critical sections. *)
AllRoundsDone == <>(\A t \in Client : rounds[t] = 0)

-----------------------------------------------------------------------------
(* The inductive invariant behind MutualExclusion and NoStrandedWaiter. *)

(* m->lock is held by exactly the thread that is inside its critical section. *)
SpinInv ==
  \A t \in Thread : m_lock = t <=> mpc[t] \in {"test", "nap", "free", "trytest"}

(* A thread is between state = BLOCKED and its int $0x20 in mutex_lock only. *)
WindowInv == \A t \in Thread : pc[t] = "window" <=> mpc[t] \in {"nap", "sleep"}

(* Only a client that still has rounds to do is inside a mutex operation. *)
RoundsInv ==
  \A t \in Thread : /\ mpc[t] # "out" => rounds[t] > 0
                    /\ rounds[t] > 0 => t \in Client

(* With the scheduler's own invariant, every step preserves these. *)
MutexInv ==
  /\ SchedInv /\ MutexTypeOK
  /\ SpinInv /\ WindowInv /\ RoundsInv
  /\ MutualExclusion /\ NoStrandedWaiter
=============================================================================
