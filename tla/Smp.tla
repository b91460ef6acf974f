-------------------------------- MODULE Smp --------------------------------
(* The start of the application processors (arch/x86_64/smp.c and
   smp_trampoline.asm): smp_init wakes them one after the other through one page of
   boot data, and gives up on one that does not answer in time.  A startup IPI may
   be missed; how fast an AP goes through the trampoline is up to the hardware.  A
   stack and an idle thread are named by the AP they were made for. *)
EXTENDS Naturals, Sequences

CONSTANTS
  Madt,      \* the LAPIC ids of the MADT, in order
  BspId,
  MaxCpus    \* MAX_CPUS

(* The MADT lists a LAPIC once. *)
ASSUME SmpConstants ==
  /\ Madt \in Seq(Nat) /\ BspId \in Nat /\ MaxCpus \in Nat
  /\ \A i, j \in 1..Len(Madt) : Madt[i] = Madt[j] => i = j

VARIABLES
  turn,      \* the index of smp_init's loop
  bsp,       \* where the BSP is in it
  ap_stack, ap_ready,  \* the boot data at 0x8F10 and 0x8F18
  ap,        \* where an AP is
  rsp,       \* the stack it runs on
  cpu_idle,  \* the APs that have an idle thread
  started,   \* the APs smp_init reports online
  missed     \* the APs it has given up on

smpVars == <<turn, bsp, ap_stack, ap_ready, ap, rsp, cpu_idle, started, missed>>

Cpus == {Madt[i] : i \in 1..Len(Madt)}
NoStack == MaxCpus

SmpInit ==
  /\ turn = 1 /\ bsp = "loop"
  /\ ap_stack = NoStack /\ ap_ready = FALSE
  /\ ap = [c \in Cpus |-> "reset"] /\ rsp = [c \in Cpus |-> NoStack]
  /\ cpu_idle = {} /\ started = {} /\ missed = {}

Target == Madt[turn]
Skipped(id) == id = BspId \/ id >= MaxCpus

SkipCpu ==
  /\ bsp = "loop" /\ turn <= Len(Madt) /\ Skipped(Target)
  /\ turn' = turn + 1
  /\ UNCHANGED <<bsp, ap_stack, ap_ready, ap, rsp, cpu_idle, started, missed>>

(* kmalloc of the stack (a failure is a panic), sched_ap_prepare, and the first half
   of the boot data. *)
FillBootData ==
  /\ bsp = "loop" /\ turn <= Len(Madt) /\ ~Skipped(Target)
  /\ cpu_idle' = cpu_idle \cup {Target}
  /\ ap_stack' = Target
  /\ bsp' = "filled"
  /\ UNCHANGED <<turn, ap_ready, ap, rsp, started, missed>>

ReadyCleared_Not == ap_ready
ReadyCleared == FALSE

(* The ready flag is cleared and the INIT IPI sent; the AP waits for a SIPI. *)
SendInit ==
  /\ bsp = "filled"
  /\ ap_ready' = ReadyCleared
  /\ ap' = [ap EXCEPT ![Target] = "init"]
  /\ bsp' = "sipi"
  /\ UNCHANGED <<turn, ap_stack, rsp, cpu_idle, started, missed>>

(* A startup IPI: an AP that is not waiting for one ignores it, one that is may miss
   it. *)
Sipi ==
  \/ ap[Target] = "init" /\ ap' = [ap EXCEPT ![Target] = "real"]
  \/ UNCHANGED ap

FirstSipi ==
  /\ bsp = "sipi"
  /\ Sipi
  /\ bsp' = "sent"
  /\ UNCHANGED <<turn, ap_stack, ap_ready, rsp, cpu_idle, started, missed>>

Online ==
  /\ ap_ready
  /\ started' = started \cup {Target}
  /\ turn' = turn + 1
  /\ bsp' = "loop"
  /\ UNCHANGED <<ap_stack, ap_ready, ap, rsp, cpu_idle, missed>>

(* After a first delay: done, or the second IPI. *)
SecondSipi ==
  /\ bsp = "sent"
  /\ \/ Online
     \/ /\ ~ap_ready
        /\ Sipi
        /\ bsp' = "wait"
        /\ UNCHANGED <<turn, ap_stack, ap_ready, rsp, cpu_idle, started, missed>>

(* The wait of about a second. *)
AwaitReady ==
  /\ bsp = "wait"
  /\ \/ Online
     \/ /\ ~ap_ready
        /\ missed' = missed \cup {Target}
        /\ turn' = turn + 1
        /\ bsp' = "loop"
        /\ UNCHANGED <<ap_stack, ap_ready, ap, rsp, cpu_idle, started>>

-----------------------------------------------------------------------------

ApStep(c, from, to) == ap[c] = from /\ ap' = [ap EXCEPT ![c] = to]

(* The trampoline up to 64-bit mode ends with the load of the stack pointer; ... *)
LoadStack(c) ==
  /\ ApStep(c, "real", "stacked")
  /\ rsp' = [rsp EXCEPT ![c] = ap_stack]
  /\ UNCHANGED <<turn, bsp, ap_stack, ap_ready, cpu_idle, started, missed>>

(* ... then the AP signals, and goes to ap_entry, ... *)
SignalReady(c) ==
  /\ ApStep(c, "stacked", "entry")
  /\ ap_ready' = TRUE
  /\ UNCHANGED <<turn, bsp, ap_stack, rsp, cpu_idle, started, missed>>

(* ... where sched_ap_enter takes the idle thread that was made for it. *)
ApEntry(c) ==
  /\ ApStep(c, "entry", "idle")
  /\ cpu_idle' = cpu_idle \cup {c}
  /\ UNCHANGED <<turn, bsp, ap_stack, ap_ready, rsp, started, missed>>

SmpNext ==
  \/ SkipCpu \/ FillBootData \/ SendInit \/ FirstSipi \/ SecondSipi \/ AwaitReady
  \/ \E c \in Cpus : LoadStack(c) \/ SignalReady(c) \/ ApEntry(c)

SmpSpec == SmpInit /\ [][SmpNext]_smpVars

-----------------------------------------------------------------------------

(* No AP has come up after smp_init gave up on it. *)
NoneLate == \A c \in missed : ap[c] = "init"

(* Every AP that runs has the stack and the idle thread smp_init made for it, and the
   APs it reports online are those that run, though all of them read the same boot
   data and set the same flag at a moment of their own.  It holds as long as no AP
   comes up after smp_init has given up on it. *)
ApsApart ==
  NoneLate =>
    /\ \A c \in Cpus : ap[c] \in {"stacked", "entry", "idle"} => rsp[c] = c /\ c \in cpu_idle
    /\ \A c \in started : ap[c] \in {"entry", "idle"}
    /\ \A c \in Cpus : ap[c] \in {"entry", "idle"} => c \in started \/ (turn <= Len(Madt) /\ c = Target)

(* The inductive invariant behind it: the boot data belongs to the AP whose turn it
   is, and the APs to come are in reset; ... *)
TurnInv ==
  /\ turn \in 1..Len(Madt) + 1 /\ bsp \in {"loop", "filled", "sipi", "sent", "wait"}
  /\ ap \in [Cpus -> {"reset", "init", "real", "stacked", "entry", "idle"}]
  /\ rsp \in [Cpus -> Cpus \cup {NoStack}] /\ started \subseteq Cpus /\ missed \subseteq Cpus
  /\ ap_stack \in Cpus \cup {NoStack} /\ ap_ready \in BOOLEAN
  /\ bsp # "loop" => turn <= Len(Madt) /\ ap_stack = Target /\ Target \in cpu_idle
  /\ \A c \in missed \cup started : \A i \in turn..Len(Madt) : c # Madt[i]
  /\ \A i \in turn..Len(Madt) : i > turn \/ bsp \in {"loop", "filled"} => ap[Madt[i]] = "reset"

Awaited(c) == bsp \in {"sent", "wait"} /\ c = Target

(* ... of the APs that were not given up only that one can be in the trampoline, and
   the flag is its own. *)
BootInv ==
  /\ \A c \in Cpus : ap[c] \in {"stacked", "entry", "idle"} => rsp[c] = c /\ c \in cpu_idle
  /\ \A c \in started : ap[c] \in {"entry", "idle"}
  /\ \A c \in Cpus : ap[c] \in {"real", "stacked"} => Awaited(c)
  /\ \A c \in Cpus : ap[c] \in {"entry", "idle"} => c \in started \/ Awaited(c)
  /\ ap_ready /\ bsp \in {"sipi", "sent", "wait"} => ap[Target] \in {"entry", "idle"}

SmpInv == TurnInv /\ (NoneLate => BootInv)
=============================================================================
