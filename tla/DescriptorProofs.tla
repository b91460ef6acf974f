-------------------------- MODULE DescriptorProofs --------------------------
(* Proofs about Descriptors and Pipeline, for any number of processes, descriptors,
   open files, sockets and pipes: a slot of a global table is held once, and an end of
   a pipe is open as long as one descriptor stands for it. *)
EXTENDS Pipeline, TLAPS, WellFoundedInduction

(* What the proofs need to know of sequences. *)
LEMMA SeqLen ==
  ASSUME NEW S, NEW s \in Seq(S)
  PROVE  Len(s) \in Nat /\ DOMAIN s = 1..Len(s) /\ \A i \in 1..Len(s) : s[i] \in S
BY SMTT(20)

LEMMA SeqNone == \A S : <<>> \in Seq(S) /\ Len(<<>>) = 0
BY SMTT(20)

LEMMA SeqJoin ==
  ASSUME NEW S, NEW s \in Seq(S), NEW t \in Seq(S)
  PROVE  s \o t \in Seq(S) /\ Len(s \o t) = Len(s) + Len(t)
BY SMTT(20)

LEMMA SeqRest ==
  ASSUME NEW S, NEW s \in Seq(S), s # <<>>
  PROVE  Head(s) \in S /\ Tail(s) \in Seq(S)
BY SMTT(20)

LEMMA SeqMade ==
  ASSUME NEW S, NEW n \in Nat, NEW d \in [1..n -> S]
  PROVE  d \in Seq(S)
BY SMTT(20)

(* The first free entry or slot of a table. *)
LEMMA LowestIn ==
  ASSUME NEW S, S \subseteq Nat, S # {}
  PROVE  Lowest(S) \in S /\ \A j \in S : Lowest(S) <= j
<1>1. IsWellFoundedOn(OpToRel(<, Nat), Nat)
  BY NatLessThanWellFounded, Zenon
<1>2. PICK x \in S : \A y \in S : ~(<<y, x>> \in OpToRel(<, Nat))
  BY <1>1, WFMin, Zenon
<1>3. ASSUME NEW y \in S PROVE ~(y < x)
  BY <1>2, Zenon DEF OpToRel
<1>4. \A y \in S : x <= y
  BY <1>3, SMTT(40)
<1>. QED BY <1>4, Zenon DEF Lowest

LEMMA Numbers ==
  /\ Fd \subseteq Nat /\ NoFd \notin Fd /\ FreeFiles \subseteq Nat /\ FreeSocks \subseteq Nat
  /\ 0 \in Fd /\ 1 \in Fd /\ \A f \in Fd : f + 1 \in 0..MaxFds /\ f \in 0..MaxFds
<1>1. MaxFds \in Nat /\ MaxFds > 3
  BY DescConstants, Zenon
<1>2. /\ Fd \subseteq Nat /\ NoFd \notin Fd
      /\ 0 \in Fd /\ 1 \in Fd /\ \A f \in Fd : f + 1 \in 0..MaxFds /\ f \in 0..MaxFds
  BY <1>1, SMTT(40) DEF Fd, NoFd
<1>3. FreeFiles \subseteq Nat /\ FreeSocks \subseteq Nat
  BY DescConstants, Zenon DEF FreeFiles, FreeSocks
<1>. QED BY <1>2, <1>3, Zenon

----------------------------------------------------------------------------
(* Who refers to what, before and after a step. *)

(* No new reference, and those that stay have their slot. *)
LEMMA KeepExclusive ==
  ASSUME NEW type, Exclusive(type),
         \A q \in Proc, f \in Place : Refers(type, q, f)' =>
           Refers(type, q, f) /\ Slot(q, f)' = Slot(q, f) /\ Slot(q, f) \in Taken(type)'
  PROVE  Exclusive(type)'
<1>1. ASSUME NEW p \in Proc, NEW f \in Place, Refers(type, p, f)',
             NEW q \in Proc, NEW g \in Place, Refers(type, q, g)', Slot(q, g)' = Slot(p, f)'
      PROVE  q = p /\ g = f
  <2>1. Refers(type, p, f) /\ Refers(type, q, g) /\ Slot(q, g) = Slot(p, f)
    BY <1>1, Zenon
  <2>. QED BY <2>1, Zenon DEF Exclusive
<1>2. ASSUME NEW p \in Proc, NEW f \in Place, Refers(type, p, f)'
      PROVE  Slot(p, f)' \in Taken(type)'
  BY <1>2, Zenon
<1>. QED BY <1>1, <1>2, Zenon DEF Exclusive, Place, Fd

(* One new reference, to a slot nobody else refers to. *)
LEMMA AddExclusive ==
  ASSUME NEW type, Exclusive(type), NEW p \in Proc, NEW g \in Place,
         Slot(p, g)' \in Taken(type)',
         \A q \in Proc, f \in Place : Refers(type, q, f)' =>
           \/ q = p /\ f = g
           \/ /\ Refers(type, q, f) /\ Slot(q, f)' = Slot(q, f)
              /\ Slot(q, f) \in Taken(type)' /\ Slot(q, f) # Slot(p, g)'
  PROVE  Exclusive(type)'
<1>1. ASSUME NEW q \in Proc, NEW f \in Place, Refers(type, q, f)',
             NEW r \in Proc, NEW h \in Place, Refers(type, r, h)', Slot(r, h)' = Slot(q, f)'
      PROVE  r = q /\ h = f
  <2>1. CASE (q = p /\ f = g) \/ (r = p /\ h = g)
    BY <1>1, <2>1, Zenon
  <2>2. CASE ~(q = p /\ f = g) /\ ~(r = p /\ h = g)
    <3>1. Refers(type, q, f) /\ Refers(type, r, h) /\ Slot(r, h) = Slot(q, f)
      BY <1>1, <2>2, Zenon
    <3>. QED BY <3>1, Zenon DEF Exclusive
  <2>. QED BY <2>1, <2>2, Zenon
<1>2. ASSUME NEW q \in Proc, NEW f \in Place, Refers(type, q, f)'
      PROVE  Slot(q, f)' \in Taken(type)'
  BY <1>2, Zenon
<1>. QED BY <1>1, <1>2, Zenon DEF Exclusive, Place, Fd

(* The references that go are those to slots that go. *)
LEMMA KeepCovered ==
  ASSUME NEW type, Covered(type), Taken(type)' \subseteq Taken(type),
         \A q \in Proc, f \in Place : Refers(type, q, f) /\ Slot(q, f) \in Taken(type)' =>
           Refers(type, q, f)' /\ Slot(q, f)' = Slot(q, f)
  PROVE  Covered(type)'
BY ZenonT(40) DEF Covered

LEMMA AddCovered ==
  ASSUME NEW type, Covered(type), NEW p \in Proc, NEW g \in Place, Refers(type, p, g)',
         \A i \in Taken(type)' : i \in Taken(type) \/ i = Slot(p, g)',
         \A q \in Proc, f \in Place : Refers(type, q, f) /\ Slot(q, f) # Slot(p, g)' =>
           Refers(type, q, f)' /\ Slot(q, f)' = Slot(q, f)
  PROVE  Covered(type)'
<1>1. ASSUME NEW i \in Taken(type)'
      PROVE  \E q \in Proc, f \in Place : Refers(type, q, f)' /\ Slot(q, f)' = i
  <2>1. CASE i = Slot(p, g)'
    BY <2>1, Zenon
  <2>2. CASE i # Slot(p, g)'
    <3>1. PICK q \in Proc, f \in Place : Refers(type, q, f) /\ Slot(q, f) = i
      BY <1>1, <2>2, Zenon DEF Covered
    <3>. QED BY <2>2, <3>1, Zenon
  <2>. QED BY <2>1, <2>2, Zenon
<1>. QED BY <1>1, Zenon DEF Covered

(* What a step has to leave of one process for its references to be old ones. *)
Kept(type, q, f) ==
  Refers(type, q, f)' => Refers(type, q, f) /\ Slot(q, f)' = Slot(q, f)

Same(q) ==
  /\ life'[q] = life[q] /\ pc'[q] = pc[q] /\ fds'[q] = fds[q]
  /\ obj'[q] = obj[q] /\ at'[q] = at[q] /\ vic'[q] = vic[q]

LEMMA SameRefs ==
  ASSUME NEW q, Same(q), NEW type, NEW f
  PROVE  /\ (Refers(type, q, f)' <=> Refers(type, q, f)) /\ Slot(q, f)' = Slot(q, f)
         /\ Kept(type, q, f)
BY Zenon DEF Same, Refers, Slot, BeingClosed, Kept

LEMMA FdKept ==
  ASSUME NEW q, NEW type, NEW f \in Fd,
         life'[q] = "live" /\ fds'[q][f].type = type =>
           life[q] = "live" /\ fds'[q][f] = fds[q][f] /\ (BeingClosed(q, f) => BeingClosed(q, f)')
  PROVE  Kept(type, q, f)
<1>1. f # NoFd
  BY Numbers, Zenon
<1>. QED BY <1>1, Zenon DEF Refers, Slot, Kept

LEMMA CallKept ==
  ASSUME NEW q, NEW type,
         life'[q] = "live" /\ pc'[q] \in Taking(type) =>
           life[q] = "live" /\ pc'[q] = pc[q] /\ obj'[q] = obj[q]
  PROVE  Kept(type, q, NoFd)
BY Zenon DEF Refers, Slot, Kept, Taking

LEMMA QuietExclusive ==
  ASSUME NEW type, Exclusive(type), Taken(type) \subseteq Taken(type)',
         \A q \in Proc, f \in Place : Kept(type, q, f)
  PROVE  Exclusive(type)'
<1>1. ASSUME NEW q \in Proc, NEW f \in Place, Refers(type, q, f)'
      PROVE  Refers(type, q, f) /\ Slot(q, f)' = Slot(q, f) /\ Slot(q, f) \in Taken(type)'
  BY <1>1, Zenon DEF Kept, Exclusive
<1>. QED BY <1>1, KeepExclusive, Zenon

LEMMA DropExclusive ==
  ASSUME NEW type, Exclusive(type), NEW p \in Proc, NEW g \in Place,
         Refers(type, p, g), ~Refers(type, p, g)',
         \A i \in Taken(type) : i # Slot(p, g) => i \in Taken(type)',
         \A q \in Proc, f \in Place : Kept(type, q, f)
  PROVE  Exclusive(type)'
<1>1. ASSUME NEW q \in Proc, NEW f \in Place, Refers(type, q, f)'
      PROVE  Refers(type, q, f) /\ Slot(q, f)' = Slot(q, f) /\ Slot(q, f) \in Taken(type)'
  <2>1. Refers(type, q, f) /\ Slot(q, f)' = Slot(q, f) /\ ~(q = p /\ f = g)
    BY <1>1, Zenon DEF Kept
  <2>2. Slot(q, f) \in Taken(type) /\ Slot(q, f) # Slot(p, g)
    BY <2>1, Zenon DEF Exclusive
  <2>. QED BY <2>1, <2>2, Zenon
<1>. QED BY <1>1, KeepExclusive, Zenon

(* A system call takes a free slot. *)
LEMMA TakeExclusive ==
  ASSUME NEW type, Exclusive(type), NEW p \in Proc,
         obj'[p] \notin Taken(type), obj'[p] \in Taken(type)', Taken(type) \subseteq Taken(type)',
         \A q \in Proc, f \in Place : ~(q = p /\ f = NoFd) => Kept(type, q, f)
  PROVE  Exclusive(type)'
<1>1. Slot(p, NoFd)' = obj'[p] /\ NoFd \in Place
  BY Zenon DEF Slot, Place
<1>2. ASSUME NEW q \in Proc, NEW f \in Place, Refers(type, q, f)', ~(q = p /\ f = NoFd)
      PROVE  /\ Refers(type, q, f) /\ Slot(q, f)' = Slot(q, f)
             /\ Slot(q, f) \in Taken(type)' /\ Slot(q, f) # Slot(p, NoFd)'
  <2>1. Refers(type, q, f) /\ Slot(q, f)' = Slot(q, f)
    BY <1>2, Zenon DEF Kept
  <2>2. Slot(q, f) \in Taken(type)
    BY <2>1, Zenon DEF Exclusive
  <2>. QED BY <1>1, <2>1, <2>2, Zenon
<1>. QED BY <1>1, <1>2, AddExclusive, Zenon

(* It hands the slot over to a descriptor. *)
LEMMA MoveExclusive ==
  ASSUME NEW type, Exclusive(type), NEW p \in Proc, NEW g \in Fd,
         Refers(type, p, NoFd), ~Refers(type, p, NoFd)', fds'[p][g].id = obj[p],
         Taken(type) \subseteq Taken(type)',
         \A q \in Proc, f \in Place : ~(q = p /\ f \in {g, NoFd}) => Kept(type, q, f)
  PROVE  Exclusive(type)'
<1>1. /\ g # NoFd /\ NoFd \in Place /\ g \in Place
      /\ Slot(p, g)' = obj[p] /\ Slot(p, NoFd) = obj[p]
  BY Numbers, Zenon DEF Slot, Place
<1>2. ASSUME NEW q \in Proc, NEW f \in Place, Refers(type, q, f)', ~(q = p /\ f = g)
      PROVE  /\ Refers(type, q, f) /\ Slot(q, f)' = Slot(q, f)
             /\ Slot(q, f) \in Taken(type)' /\ Slot(q, f) # Slot(p, g)'
  <2>1. ~(q = p /\ f = NoFd)
    BY <1>2, Zenon
  <2>2. Refers(type, q, f) /\ Slot(q, f)' = Slot(q, f)
    BY <1>2, <2>1, Zenon DEF Kept
  <2>. QED BY <1>1, <2>1, <2>2, Zenon DEF Exclusive
<1>3. Slot(p, g)' \in Taken(type)'
  <2>1. Slot(p, NoFd) \in Taken(type)
    BY <1>1, Zenon DEF Exclusive
  <2>. QED BY <1>1, <2>1, Zenon
<1>. QED BY <1>1, <1>2, <1>3, AddExclusive, Zenon

LEMMA OneProcess ==
  ASSUME NEW p \in Proc, NEW type, \A q \in Proc \ {p} : Same(q),
         Kept(type, p, NoFd), \A f \in Fd : Kept(type, p, f)
  PROVE  \A q \in Proc, f \in Place : Kept(type, q, f)
BY SameRefs, Zenon DEF Place

----------------------------------------------------------------------------
(* Open files and sockets: one lemma per kind of step *)

Slots == Exclusive("FD_FILE") /\ Exclusive("FD_SOCKET")

LEMMA TakingLabels ==
  /\ Taking("FD_FILE") = {"open", "spawn"} /\ Taking("FD_SOCKET") = {"socket"}
  /\ Taking("FD_PIPE_READ") = {"pipe"} /\ Taking("FD_PIPE_WRITE") = {"pipe"}
  /\ Taken("FD_FILE") = s_files /\ Taken("FD_SOCKET") = s_used
  /\ Taken("FD_FILE")' = s_files' /\ Taken("FD_SOCKET")' = s_used'
  /\ \A type : Taking(type) \subseteq {"open", "spawn", "socket", "pipe"}
BY Zenon DEF Taking, Taken

(* A system call begins. *)
LEMMA EnterKept ==
  ASSUME NEW p \in Proc, NEW type, At(p, "user"), UNCHANGED <<fds, life>>
  PROVE  /\ \A f \in Fd : Kept(type, p, f)
         /\ pc'[p] \notin Taking(type) => Kept(type, p, NoFd)
<1>1. ASSUME NEW f \in Fd PROVE ~BeingClosed(p, f)
  BY Zenon DEF BeingClosed, At
<1>. QED BY <1>1, FdKept, CallKept, Zenon

(* A system call returns; it may have installed descriptors of another type. *)
LEMMA LeaveKept ==
  ASSUME NEW p \in Proc, NEW type, life[p] = "live", pc[p] \notin {"closed", "clear"}, pc'[p] = "user"
  PROVE  /\ Kept(type, p, NoFd)
         /\ \A f \in Fd : fds'[p][f] = fds[p][f] \/ fds'[p][f].type # type => Kept(type, p, f)
<1>1. ASSUME NEW f \in Fd PROVE ~BeingClosed(p, f)
  BY Zenon DEF BeingClosed
<1>2. "user" \notin Taking(type)
  BY TakingLabels, Zenon
<1>. QED BY <1>1, <1>2, FdKept, CallKept, Zenon

LEMMA ReturnFrame ==
  ASSUME DescTypeOK, NEW p \in Proc, Return(p)
  PROVE  /\ pc'[p] = "user" /\ obj'[p] = 0 /\ at'[p] = 0 /\ vic'[p] = p
         /\ \A q \in Proc \ {p} : pc'[q] = pc[q] /\ obj'[q] = obj[q] /\ at'[q] = at[q] /\ vic'[q] = vic[q]
BY Zenon DEF DescTypeOK, Return, Goto

LEMMA OpenSlots ==
  ASSUME DescTypeOK, Slots, NEW p \in Proc, SysOpen(p) \/ SysSpawn(p)
  PROVE  Slots'
<1>. DEFINE i == Lowest(FreeFiles)
<1>1. /\ At(p, "user") /\ FreeFiles # {} /\ s_files' = s_files \cup {i} /\ obj' = [obj EXCEPT ![p] = i]
      /\ pc'[p] \in {"open", "spawn"} /\ \A q \in Proc \ {p} : pc'[q] = pc[q]
      /\ UNCHANGED <<fds, life, s_used, at, vic>>
  <2>1. CASE SysOpen(p)
    BY <2>1, Zenon DEF SysOpen, Hold, Goto, DescTypeOK
  <2>2. CASE SysSpawn(p)
    BY <2>2, Zenon DEF SysSpawn, Hold, Goto, DescTypeOK
  <2>. QED BY <2>1, <2>2, Zenon
<1>2. i \in Files \ s_files
  BY <1>1, Numbers, LowestIn, Zenon DEF FreeFiles
<1>. HIDE DEF i
<1>3. obj'[p] = i /\ \A q \in Proc \ {p} : Same(q)
  BY <1>1, Zenon DEF Same, DescTypeOK
<1>4. Exclusive("FD_FILE")'
  <2>1. \A f \in Fd : Kept("FD_FILE", p, f)
    BY <1>1, EnterKept, Zenon
  <2>2. \A q \in Proc, f \in Place : ~(q = p /\ f = NoFd) => Kept("FD_FILE", q, f)
    BY <1>3, <2>1, SameRefs, Zenon DEF Place
  <2>3. obj'[p] \notin Taken("FD_FILE") /\ obj'[p] \in Taken("FD_FILE")' /\ Taken("FD_FILE") \subseteq Taken("FD_FILE")'
    BY <1>1, <1>2, <1>3, TakingLabels, Zenon
  <2>. QED BY <2>2, <2>3, TakeExclusive, Zenon DEF Slots
<1>5. Exclusive("FD_SOCKET")'
  <2>1. \A q \in Proc, f \in Place : Kept("FD_SOCKET", q, f)
    BY <1>1, <1>3, EnterKept, OneProcess, TakingLabels, Zenon
  <2>. QED BY <1>1, <2>1, QuietExclusive, TakingLabels, Zenon DEF Slots
<1>. QED BY <1>4, <1>5, Zenon DEF Slots

LEMMA SocketSlots ==
  ASSUME DescTypeOK, Slots, NEW p \in Proc, SysSocket(p)
  PROVE  Slots'
<1>. DEFINE i == Lowest(FreeSocks)
<1>1. /\ At(p, "user") /\ FreeSocks # {} /\ s_used' = s_used \cup {i} /\ obj' = [obj EXCEPT ![p] = i]
      /\ pc'[p] = "socket" /\ \A q \in Proc \ {p} : pc'[q] = pc[q]
      /\ UNCHANGED <<fds, life, s_files, at, vic>>
  BY Zenon DEF SysSocket, Hold, Goto, DescTypeOK
<1>2. i \in Socks \ s_used
  BY <1>1, Numbers, LowestIn, Zenon DEF FreeSocks
<1>. HIDE DEF i
<1>3. obj'[p] = i /\ \A q \in Proc \ {p} : Same(q)
  BY <1>1, Zenon DEF Same, DescTypeOK
<1>4. Exclusive("FD_SOCKET")'
  <2>1. \A f \in Fd : Kept("FD_SOCKET", p, f)
    BY <1>1, EnterKept, Zenon
  <2>2. \A q \in Proc, f \in Place : ~(q = p /\ f = NoFd) => Kept("FD_SOCKET", q, f)
    BY <1>3, <2>1, SameRefs, Zenon DEF Place
  <2>3. obj'[p] \notin Taken("FD_SOCKET") /\ obj'[p] \in Taken("FD_SOCKET")' /\ Taken("FD_SOCKET") \subseteq Taken("FD_SOCKET")'
    BY <1>1, <1>2, <1>3, TakingLabels, Zenon
  <2>. QED BY <2>2, <2>3, TakeExclusive, Zenon DEF Slots
<1>5. Exclusive("FD_FILE")'
  <2>1. \A q \in Proc, f \in Place : Kept("FD_FILE", q, f)
    BY <1>1, <1>3, EnterKept, OneProcess, TakingLabels, Zenon
  <2>. QED BY <1>1, <2>1, QuietExclusive, TakingLabels, Zenon DEF Slots
<1>. QED BY <1>4, <1>5, Zenon DEF Slots

(* The other calls take none of these slots. *)
LEMMA EnterSlots ==
  ASSUME DescTypeOK, Slots, NEW p \in Proc, At(p, "user"),
         pc'[p] \in {"user", "pipe", "read", "write", "loop"}, \A q \in Proc \ {p} : Same(q),
         UNCHANGED <<fds, life, s_files, s_used>>
  PROVE  Slots'
<1>1. ASSUME NEW type \in {"FD_FILE", "FD_SOCKET"} PROVE Exclusive(type)'
  <2>1. pc'[p] \notin Taking(type) /\ Taken(type)' = Taken(type)
    BY TakingLabels, Zenon
  <2>2. \A q \in Proc, f \in Place : Kept(type, q, f)
    BY <2>1, EnterKept, OneProcess, Zenon
  <2>. QED BY <2>1, <2>2, QuietExclusive, Zenon DEF Slots
<1>. QED BY <1>1, Zenon DEF Slots

(* A call returns having installed nothing of this type, and gives nothing back. *)
LEMMA LeaveQuiet ==
  ASSUME DescTypeOK, NEW type, Exclusive(type), NEW p \in Proc, life[p] = "live",
         pc[p] \notin {"closed", "clear"}, pc'[p] = "user", \A q \in Proc \ {p} : Same(q),
         \A f \in Fd : fds'[p][f] = fds[p][f] \/ fds'[p][f].type # type,
         Taken(type)' = Taken(type)
  PROVE  Exclusive(type)'
<1>1. \A q \in Proc, f \in Place : Kept(type, q, f)
  BY LeaveKept, OneProcess, Zenon
<1>. QED BY <1>1, QuietExclusive, Zenon

(* A call gives back the slot it has taken, on an error path. *)
LEMMA LeaveDrop ==
  ASSUME DescTypeOK, NEW type, Exclusive(type), NEW p \in Proc, life[p] = "live",
         pc[p] \in Taking(type), pc'[p] = "user",
         \A q \in Proc \ {p}, f \in Place : Kept(type, q, f), fds'[p] = fds[p],
         Taken(type)' = Taken(type) \ {obj[p]}
  PROVE  Exclusive(type)'
<1>1. pc[p] \notin {"closed", "clear"} /\ pc'[p] \notin Taking(type)
  BY TakingLabels, Zenon
<1>2. \A q \in Proc, f \in Place : Kept(type, q, f)
  BY <1>1, LeaveKept, Zenon DEF Place
<1>3. Refers(type, p, NoFd) /\ ~Refers(type, p, NoFd)' /\ Slot(p, NoFd) = obj[p] /\ NoFd \in Place
  BY <1>1, Zenon DEF Refers, Slot, Place
<1>. QED BY <1>2, <1>3, DropExclusive, Zenon

(* A call installs the slot it has taken. *)
LEMMA LeaveMove ==
  ASSUME DescTypeOK, NEW type, Exclusive(type), NEW p \in Proc, life[p] = "live",
         pc[p] \in Taking(type), pc'[p] = "user", \A q \in Proc \ {p} : Same(q), NEW g \in Fd,
         fds'[p] = [fds[p] EXCEPT ![g] = [type |-> type, id |-> obj[p]]],
         Taken(type)' = Taken(type)
  PROVE  Exclusive(type)'
<1>1. pc[p] \notin {"closed", "clear"} /\ pc'[p] \notin Taking(type)
  BY TakingLabels, Zenon
<1>2. fds'[p][g].id = obj[p] /\ \A f \in Fd : f # g => fds'[p][f] = fds[p][f]
  <2>1. fds[p] \in [Fd -> Entry]
    BY Zenon DEF DescTypeOK
  <2>. QED BY <2>1, SMTT(40)
<1>3. \A q \in Proc, f \in Place : ~(q = p /\ f \in {g, NoFd}) => Kept(type, q, f)
  BY <1>1, <1>2, LeaveKept, SameRefs, Zenon DEF Place
<1>4. Refers(type, p, NoFd) /\ ~Refers(type, p, NoFd)'
  BY <1>1, Zenon DEF Refers
<1>. QED BY <1>2, <1>3, <1>4, MoveExclusive, Zenon

(* fd_alloc, fd_alloc_socket and fd_alloc_pipe take an unused entry. *)
LEMMA UnopenedIs ==
  ASSUME NEW tab, NEW from, Unopened(tab, from) # {}
  PROVE  LET g == Lowest(Unopened(tab, from)) IN g \in Fd /\ g >= from /\ tab[g].type = "FD_NONE"
<1>1. Unopened(tab, from) \subseteq Nat
  BY Numbers, Zenon DEF Unopened
<1>2. Lowest(Unopened(tab, from)) \in Unopened(tab, from)
  BY <1>1, LowestIn, Zenon
<1>. QED BY <1>2, Zenon DEF Unopened

LEMMA ReturnSame ==
  ASSUME DescTypeOK, NEW p \in Proc, Return(p), life' = life,
         fds' = fds \/ \E tab : SetFds(p, tab)
  PROVE  \A q \in Proc \ {p} : Same(q)
<1>1. \A q \in Proc \ {p} : fds'[q] = fds[q]
  BY Zenon DEF SetFds, DescTypeOK
<1>. QED BY <1>1, ReturnFrame, Zenon DEF Same

LEMMA OpenInstallSlots ==
  ASSUME DescTypeOK, Slots, NEW p \in Proc, OpenInstall(p)
  PROVE  Slots'
<1>. DEFINE room == Unopened(fds[p], FirstFile)
           g == Lowest(room)
<1>1. life[p] = "live" /\ pc[p] = "open" /\ Return(p) /\ life' = life /\ s_used' = s_used
  BY Zenon DEF OpenInstall, At
<1>2. pc'[p] = "user"
  BY <1>1, ReturnFrame, Zenon
<1>3. pc[p] \notin {"closed", "clear"} /\ pc[p] \in Taking("FD_FILE")
  BY <1>1, TakingLabels, Zenon
<1>4. CASE room # {}
  <2>1. SetFds(p, [fds[p] EXCEPT ![g] = [type |-> "FD_FILE", id |-> obj[p]]]) /\ s_files' = s_files
    BY <1>4, Zenon DEF OpenInstall, Installed
  <2>2. g \in Fd /\ \A q \in Proc \ {p} : Same(q)
    BY <1>1, <1>4, <2>1, UnopenedIs, ReturnSame, Zenon
  <2>. HIDE DEF g
  <2>3. fds'[p] = [fds[p] EXCEPT ![g] = [type |-> "FD_FILE", id |-> obj[p]]]
    BY <2>1, Zenon DEF SetFds, DescTypeOK
  <2>4. Exclusive("FD_FILE")'
    BY <1>1, <1>2, <1>3, <2>1, <2>2, <2>3, LeaveMove, TakingLabels, Zenon DEF Slots
  <2>5. \A f \in Fd : fds'[p][f] = fds[p][f] \/ fds'[p][f].type # "FD_SOCKET"
    <3>1. fds[p] \in [Fd -> Entry]
      BY Zenon DEF DescTypeOK
    <3>. QED BY <2>2, <2>3, <3>1, SMTT(40)
  <2>6. Exclusive("FD_SOCKET")'
    BY <1>1, <1>2, <1>3, <2>2, <2>5, LeaveQuiet, TakingLabels, Zenon DEF Slots
  <2>. QED BY <2>4, <2>6, Zenon DEF Slots
<1>5. CASE room = {}
  <2>1. s_files' = s_files \ {obj[p]} /\ fds' = fds
    BY <1>5, Zenon DEF OpenInstall
  <2>2. \A q \in Proc \ {p} : Same(q)
    BY <1>1, <2>1, ReturnSame, Zenon
  <2>3. Exclusive("FD_FILE")'
    BY <1>1, <1>2, <1>3, <2>1, <2>2, LeaveDrop, SameRefs, TakingLabels, Zenon DEF Slots
  <2>4. Exclusive("FD_SOCKET")'
    BY <1>1, <1>2, <1>3, <2>1, <2>2, LeaveQuiet, TakingLabels, Zenon DEF Slots
  <2>. QED BY <2>3, <2>4, Zenon DEF Slots
<1>. QED BY <1>4, <1>5, Zenon

LEMMA SocketInstallSlots ==
  ASSUME DescTypeOK, Slots, NEW p \in Proc, SocketInstall(p)
  PROVE  Slots'
<1>. DEFINE room == Unopened(fds[p], FirstSocket)
           g == Lowest(room)
<1>1. life[p] = "live" /\ pc[p] = "socket" /\ Return(p) /\ life' = life /\ s_files' = s_files
  BY Zenon DEF SocketInstall, At
<1>2. pc'[p] = "user"
  BY <1>1, ReturnFrame, Zenon
<1>3. pc[p] \notin {"closed", "clear"} /\ pc[p] \in Taking("FD_SOCKET")
  BY <1>1, TakingLabels, Zenon
<1>4. CASE room # {}
  <2>1. SetFds(p, [fds[p] EXCEPT ![g] = [type |-> "FD_SOCKET", id |-> obj[p]]]) /\ s_used' = s_used
    BY <1>4, Zenon DEF SocketInstall, Installed
  <2>2. g \in Fd /\ \A q \in Proc \ {p} : Same(q)
    BY <1>1, <1>4, <2>1, UnopenedIs, ReturnSame, Zenon
  <2>. HIDE DEF g
  <2>3. fds'[p] = [fds[p] EXCEPT ![g] = [type |-> "FD_SOCKET", id |-> obj[p]]]
    BY <2>1, Zenon DEF SetFds, DescTypeOK
  <2>4. Exclusive("FD_SOCKET")'
    BY <1>1, <1>2, <1>3, <2>1, <2>2, <2>3, LeaveMove, TakingLabels, Zenon DEF Slots
  <2>5. \A f \in Fd : fds'[p][f] = fds[p][f] \/ fds'[p][f].type # "FD_FILE"
    <3>1. fds[p] \in [Fd -> Entry]
      BY Zenon DEF DescTypeOK
    <3>. QED BY <2>2, <2>3, <3>1, SMTT(40)
  <2>6. Exclusive("FD_FILE")'
    BY <1>1, <1>2, <1>3, <2>2, <2>5, LeaveQuiet, TakingLabels, Zenon DEF Slots
  <2>. QED BY <2>4, <2>6, Zenon DEF Slots
<1>5. CASE room = {}
  <2>1. s_used' = s_used \ {obj[p]} /\ fds' = fds
    BY <1>5, Zenon DEF SocketInstall
  <2>2. \A q \in Proc \ {p} : Same(q)
    BY <1>1, <2>1, ReturnSame, Zenon
  <2>3. Exclusive("FD_SOCKET")'
    BY <1>1, <1>2, <1>3, <2>1, <2>2, LeaveDrop, SameRefs, TakingLabels, Zenon DEF Slots
  <2>4. Exclusive("FD_FILE")'
    BY <1>1, <1>2, <1>3, <2>1, <2>2, LeaveQuiet, TakingLabels, Zenon DEF Slots
  <2>. QED BY <2>3, <2>4, Zenon DEF Slots
<1>. QED BY <1>4, <1>5, Zenon

(* Calls that return and leave the tables of files and sockets alone. *)
LEMMA LeaveSlots ==
  ASSUME DescTypeOK, Slots, NEW p \in Proc, life[p] = "live", pc[p] \notin {"closed", "clear"}, Return(p),
         UNCHANGED <<life, s_files, s_used>>, fds' = fds \/ \E tab : SetFds(p, tab),
         \A f \in Fd : fds'[p][f] = fds[p][f] \/ fds'[p][f].type \notin {"FD_FILE", "FD_SOCKET"}
  PROVE  Slots'
<1>1. pc'[p] = "user" /\ \A q \in Proc \ {p} : Same(q)
  BY ReturnFrame, ReturnSame, Zenon
<1>2. ASSUME NEW type \in {"FD_FILE", "FD_SOCKET"} PROVE Exclusive(type)'
  <2>1. Exclusive(type) /\ Taken(type)' = Taken(type)
    BY TakingLabels, Zenon DEF Slots
  <2>2. \A f \in Fd : fds'[p][f] = fds[p][f] \/ fds'[p][f].type # type
    BY Zenon
  <2>. QED BY <1>1, <2>1, <2>2, LeaveQuiet, Zenon
<1>. QED BY <1>2, Zenon DEF Slots

LEMMA SpawnFailsSlots ==
  ASSUME DescTypeOK, Slots, NEW p \in Proc, SpawnFails(p)
  PROVE  Slots'
<1>1. life[p] = "live" /\ pc[p] = "spawn" /\ Return(p) /\ s_files' = s_files \ {obj[p]}
      /\ UNCHANGED <<fds, life, s_used>>
  BY Zenon DEF SpawnFails, At
<1>2. pc'[p] = "user" /\ pc[p] \notin {"closed", "clear"} /\ pc[p] \in Taking("FD_FILE")
      /\ \A q \in Proc \ {p} : Same(q)
  BY <1>1, ReturnFrame, ReturnSame, TakingLabels, Zenon
<1>3. Exclusive("FD_FILE")'
  BY <1>1, <1>2, LeaveDrop, SameRefs, TakingLabels, Zenon DEF Slots
<1>4. Exclusive("FD_SOCKET")'
  BY <1>1, <1>2, LeaveQuiet, TakingLabels, Zenon DEF Slots
<1>. QED BY <1>3, <1>4, Zenon DEF Slots

LEMMA UnusedIs == Unused \in Entry /\ Unused.type = "FD_NONE"
BY SMTT(40) DEF Unused, Entry

(* What a child gets: ends of pipes. *)
LEMMA ChildTypes ==
  ASSUME DescTypeOK, NEW p \in Proc, NEW in, NEW out
  PROVE  /\ ChildFds(p, in, out) \in [Fd -> Entry]
         /\ \A f \in Fd : ChildFds(p, in, out)[f].type \in {"FD_NONE", "FD_PIPE_READ", "FD_PIPE_WRITE"}
         /\ in = NoFd /\ out = NoFd => \A f \in Fd : ChildFds(p, in, out)[f].type = "FD_NONE"
<1>1. Unused \in Entry /\ Unused.type = "FD_NONE"
  BY UnusedIs, Zenon
<1>2. ASSUME NEW x, NEW type \in {"FD_PIPE_READ", "FD_PIPE_WRITE"}, fd_type(p, x) = type
      PROVE  x \in Fd /\ fds[p][x] \in Entry /\ fds[p][x].type = type
  BY <1>2, Zenon DEF fd_type, DescTypeOK
<1>3. ASSUME NEW f \in Fd
      PROVE  /\ ChildFds(p, in, out)[f] \in Entry
             /\ ChildFds(p, in, out)[f].type \in {"FD_NONE", "FD_PIPE_READ", "FD_PIPE_WRITE"}
             /\ in = NoFd /\ out = NoFd => ChildFds(p, in, out)[f].type = "FD_NONE"
  <2>1. ChildFds(p, in, out)[f] = IF f = 0 /\ fd_type(p, in) = "FD_PIPE_READ" THEN fds[p][in]
                                  ELSE IF f = 1 /\ fd_type(p, out) = "FD_PIPE_WRITE" THEN fds[p][out]
                                  ELSE Unused
    BY Zenon DEF ChildFds
  <2>2. CASE f = 0 /\ fd_type(p, in) = "FD_PIPE_READ"
    <3>1. in # NoFd
      BY <1>2, <2>2, Numbers, Zenon
    <3>. QED BY <1>2, <2>1, <2>2, <3>1, Zenon
  <2>3. CASE ~(f = 0 /\ fd_type(p, in) = "FD_PIPE_READ") /\ f = 1 /\ fd_type(p, out) = "FD_PIPE_WRITE"
    <3>1. out # NoFd
      BY <1>2, <2>3, Numbers, Zenon
    <3>. QED BY <1>2, <2>1, <2>3, <3>1, Zenon
  <2>4. CASE ~(f = 0 /\ fd_type(p, in) = "FD_PIPE_READ") /\ ~(f = 1 /\ fd_type(p, out) = "FD_PIPE_WRITE")
    BY <1>1, <2>1, <2>4, Zenon
  <2>. QED BY <2>2, <2>3, <2>4, Zenon
<1>. QED BY <1>3, Zenon DEF ChildFds

LEMMA SpawnFrame ==
  ASSUME DescTypeOK, NEW p \in Proc, NEW q, NEW in, NEW out, SpawnChild(p, q, in, out)
  PROVE  /\ q \in Proc /\ q # p /\ life[p] = "live" /\ life'[p] = "live" /\ pc[p] = "spawn" /\ pc'[p] = "user"
         /\ life[q] = "none" /\ life'[q] = "live" /\ pc'[q] = pc[q]
         /\ fds'[q] = ChildFds(p, in, out) /\ fds'[p] = fds[p]
         /\ \A r \in Proc \ {p, q} : Same(r)
         /\ at'[p] = 0 /\ vic'[p] = p /\ vic'[q] = vic[q]
<1>1. q \in Proc /\ life[q] = "none" /\ life[p] = "live" /\ pc[p] = "spawn" /\ Return(p)
      /\ SetFds(q, ChildFds(p, in, out)) /\ life' = [life EXCEPT ![q] = "live"]
  <2>1. workload.procs \subseteq Proc
    BY DescConstants, SMTT(40) DEF DescTypeOK
  <2>. QED BY <2>1, Zenon DEF SpawnChild, At
<1>2. q # p
  BY <1>1, Zenon
<1>3. fds'[q] = ChildFds(p, in, out) /\ \A r \in Proc \ {q} : fds'[r] = fds[r]
  BY <1>1, Zenon DEF SetFds, DescTypeOK
<1>4. life'[q] = "live" /\ \A r \in Proc \ {q} : life'[r] = life[r]
  BY <1>1, Zenon DEF DescTypeOK
<1>5. pc'[p] = "user" /\ at'[p] = 0 /\ vic'[p] = p
  BY <1>1, ReturnFrame, Zenon
<1>6. ASSUME NEW r \in Proc \ {p}
      PROVE  pc'[r] = pc[r] /\ obj'[r] = obj[r] /\ at'[r] = at[r] /\ vic'[r] = vic[r]
  BY <1>1, <1>6, ReturnFrame, Zenon
<1>7. ASSUME NEW r \in Proc \ {p, q} PROVE Same(r)
  BY <1>3, <1>4, <1>6, Zenon DEF Same
<1>8. pc'[q] = pc[q] /\ vic'[q] = vic[q]
  BY <1>1, <1>2, <1>6, Zenon
<1>9. life'[p] = "live" /\ fds'[p] = fds[p]
  BY <1>1, <1>2, <1>3, <1>4, Zenon
<1>. QED BY <1>1, <1>2, <1>3, <1>4, <1>5, <1>7, <1>8, <1>9, Zenon

LEMMA SpawnChildSlots ==
  ASSUME DescTypeOK, Slots, \A r \in Proc : life[r] = "none" => pc[r] = "user",
         NEW p \in Proc, NEW q, NEW in, NEW out, SpawnChild(p, q, in, out)
  PROVE  Slots'
<1>1. s_files' = s_files \ {obj[p]} /\ s_used' = s_used
  BY Zenon DEF SpawnChild
<1>2. /\ q \in Proc /\ q # p /\ life[p] = "live" /\ life'[p] = "live" /\ pc[p] = "spawn" /\ pc'[p] = "user"
      /\ pc'[q] = "user" /\ fds'[q] = ChildFds(p, in, out) /\ fds'[p] = fds[p]
      /\ \A r \in Proc \ {p, q} : Same(r)
  <2>1. q \in Proc /\ life[q] = "none" /\ pc'[q] = pc[q]
    BY SpawnFrame, SMTT(20)
  <2>2. pc'[q] = "user"
    BY <2>1, Zenon
  <2>. QED BY <2>2, SpawnFrame, SMTT(20)
<1>3. ASSUME NEW type \in {"FD_FILE", "FD_SOCKET"}, NEW r \in Proc \ {p}, NEW f \in Place PROVE Kept(type, r, f)
  <2>1. CASE r # q
    BY <1>2, <2>1, SameRefs, Zenon
  <2>2. CASE r = q /\ f = NoFd
    <3>1. pc'[q] \notin Taking(type)
      BY <1>2, TakingLabels, Zenon
    <3>. QED BY <2>2, <3>1, CallKept, Zenon
  <2>3. CASE r = q /\ f \in Fd
    <3>1. fds'[q][f].type \in {"FD_NONE", "FD_PIPE_READ", "FD_PIPE_WRITE"}
      BY <1>2, <2>3, ChildTypes, SMTT(20)
    <3>. QED BY <2>3, <3>1, FdKept, Zenon
  <2>. QED BY <2>1, <2>2, <2>3, Zenon DEF Place
<1>4. Exclusive("FD_FILE")'
  BY <1>1, <1>2, <1>3, LeaveDrop, TakingLabels, Zenon DEF Slots
<1>5. Exclusive("FD_SOCKET")'
  <2>1. pc[p] \notin {"closed", "clear"}
    BY <1>2, Zenon
  <2>2. \A r \in Proc, f \in Place : Kept("FD_SOCKET", r, f)
    BY <1>2, <1>3, <2>1, LeaveKept, Zenon DEF Place
  <2>. QED BY <1>1, <2>2, QuietExclusive, TakingLabels, Zenon DEF Slots
<1>. QED BY <1>4, <1>5, Zenon DEF Slots

(* sys_close gives the object back before it clears the entry. *)
LEMMA CloseFrame ==
  ASSUME DescTypeOK, NEW p \in Proc, NEW fd, SysClose(p, fd)
  PROVE  /\ fd \in Fd /\ fds[p][fd].type # "FD_NONE" /\ life[p] = "live" /\ pc[p] = "user"
         /\ pc'[p] = "closed" /\ at'[p] = fd /\ fds' = fds /\ life' = life /\ vic' = vic
         /\ CloseObject(fds[p][fd]) /\ workload' = workload /\ obj' = obj
         /\ \A q \in Proc \ {p} : Same(q)
<1>1. fd_type(p, fd) # "FD_NONE" /\ At(p, "user") /\ CloseObject(fds[p][fd]) /\ at' = [at EXCEPT ![p] = fd]
      /\ Goto(p, "closed") /\ UNCHANGED <<workload, fds, life, obj, vic, kbuf>>
  BY Zenon DEF SysClose
<1>2. fd \in Fd /\ fds[p][fd].type # "FD_NONE"
  BY <1>1, Zenon DEF fd_type
<1>3. pc'[p] = "closed" /\ at'[p] = fd /\ \A q \in Proc \ {p} : pc'[q] = pc[q] /\ at'[q] = at[q]
  BY <1>1, Zenon DEF Goto, DescTypeOK
<1>4. \A q \in Proc \ {p} : Same(q)
  BY <1>1, <1>3, Zenon DEF Same
<1>. QED BY <1>1, <1>2, <1>3, <1>4, Zenon DEF At

LEMMA CloseSlots ==
  ASSUME DescTypeOK, Slots, NEW p \in Proc, NEW fd, SysClose(p, fd)
  PROVE  Slots'
<1>1. /\ fd \in Fd /\ life[p] = "live" /\ pc[p] = "user" /\ pc'[p] = "closed" /\ at'[p] = fd
      /\ fds' = fds /\ life' = life /\ CloseObject(fds[p][fd]) /\ \A q \in Proc \ {p} : Same(q)
  BY CloseFrame, SMTT(20)
<1>2. ASSUME NEW type \in {"FD_FILE", "FD_SOCKET"} PROVE Exclusive(type)'
  <2>1. \A q \in Proc, f \in Place : Kept(type, q, f)
    <3>1. At(p, "user") /\ pc'[p] \notin Taking(type)
      BY <1>1, TakingLabels, Zenon DEF At
    <3>2. Kept(type, p, NoFd) /\ \A f \in Fd : Kept(type, p, f)
      BY <1>1, <3>1, EnterKept, Zenon
    <3>. QED BY <1>1, <3>2, OneProcess, Zenon
  <2>2. Exclusive(type)
    BY Zenon DEF Slots
  <2>3. CASE fds[p][fd].type = type
    <3>1. fd # NoFd /\ fd \in Place
      BY <1>1, Numbers, Zenon DEF Place
    <3>2. Refers(type, p, fd) /\ ~Refers(type, p, fd)' /\ Slot(p, fd) = fds[p][fd].id
      BY <1>1, <2>3, <3>1, Zenon DEF Refers, Slot, BeingClosed
    <3>3. Taken(type)' = Taken(type) \ {fds[p][fd].id}
      BY <1>1, <2>3, TakingLabels, Zenon DEF CloseObject
    <3>. QED BY <2>1, <2>2, <3>1, <3>2, <3>3, DropExclusive, Zenon
  <2>4. CASE fds[p][fd].type # type
    <3>1. Taken(type)' = Taken(type)
      BY <1>1, <2>4, TakingLabels, Zenon DEF CloseObject
    <3>. QED BY <2>1, <2>2, <3>1, QuietExclusive, Zenon
  <2>. QED BY <2>3, <2>4, Zenon
<1>. QED BY <1>2, Zenon DEF Slots

(* An entry that is cleared was closed before, or is of a process that is killed. *)
LEMMA ClearKept ==
  ASSUME NEW p \in Proc, NEW v \in Proc, NEW type, type # "FD_NONE", life' = life,
         pc[p] \in {"closed", "clear"}, pc'[p] \in {"user", "loop"}, pc[p] = "closed" => v = p,
         pc[p] = "clear" => vic[p] = v,
         \A q \in Proc \ {p} : pc'[q] = pc[q] /\ obj'[q] = obj[q] /\ at'[q] = at[q] /\ vic'[q] = vic[q],
         \A q \in Proc \ {v} : fds'[q] = fds[q],
         \A f \in Fd : fds'[v][f] = IF f = at[p] THEN Unused ELSE fds[v][f]
  PROVE  \A q \in Proc, f \in Place : Kept(type, q, f)
<1>1. ASSUME NEW q \in Proc PROVE Kept(type, q, NoFd)
  <2>1. pc'[p] \notin Taking(type)
    BY TakingLabels, Zenon
  <2>. QED BY <2>1, CallKept, Zenon
<1>2. ASSUME NEW q \in Proc, NEW f \in Fd PROVE Kept(type, q, f)
  <2>1. CASE q = v /\ f = at[p]
    <3>1. fds'[q][f].type # type
      BY <2>1, UnusedIs, Zenon
    <3>. QED BY <3>1, FdKept, Zenon
  <2>2. CASE ~(q = v /\ f = at[p])
    <3>1. fds'[q][f] = fds[q][f]
      BY <2>2, Zenon
    <3>2. BeingClosed(q, f) => BeingClosed(q, f)'
      BY <2>2, Zenon DEF BeingClosed
    <3>. QED BY <3>1, <3>2, FdKept, Zenon
  <2>. QED BY <2>1, <2>2, Zenon
<1>. QED BY <1>1, <1>2, Zenon DEF Place

LEMMA FreedIs ==
  ASSUME DescTypeOK, NEW v \in Proc, NEW g, SetFds(v, Freed(fds[v], g))
  PROVE  /\ \A q \in Proc \ {v} : fds'[q] = fds[q]
         /\ \A f \in Fd : fds'[v][f] = IF f = g THEN Unused ELSE fds[v][f]
<1>1. fds'[v] = Freed(fds[v], g) /\ \A q \in Proc \ {v} : fds'[q] = fds[q]
  BY Zenon DEF SetFds, DescTypeOK
<1>2. DOMAIN fds[v] = Fd
  BY Zenon DEF DescTypeOK
<1>. QED BY <1>1, <1>2, Zenon DEF Freed

LEMMA ClearSlots ==
  ASSUME DescTypeOK, Slots, NEW p \in Proc, CloseFree(p) \/ WalkClear(p)
  PROVE  Slots'
<1>. DEFINE v == IF pc[p] = "closed" THEN p ELSE vic[p]
<1>1. /\ v \in Proc /\ UNCHANGED <<s_files, s_used, life>> /\ SetFds(v, Freed(fds[v], at[p]))
      /\ pc[p] \in {"closed", "clear"} /\ pc'[p] \in {"user", "loop"}
      /\ \A q \in Proc \ {p} : pc'[q] = pc[q] /\ obj'[q] = obj[q] /\ at'[q] = at[q] /\ vic'[q] = vic[q]
  <2>1. CASE CloseFree(p)
    <3>1. pc[p] = "closed" /\ v = p /\ Return(p) /\ UNCHANGED <<s_files, s_used, life>>
          /\ SetFds(v, Freed(fds[v], at[p]))
      BY <2>1, Zenon DEF CloseFree, At
    <3>. QED BY <3>1, ReturnFrame, Zenon
  <2>2. CASE WalkClear(p)
    <3>1. pc[p] = "clear" /\ v = vic[p]
      BY <2>2, Zenon DEF WalkClear, At
    <3>2. /\ SetFds(vic[p], Freed(fds[vic[p]], at[p])) /\ at' = [at EXCEPT ![p] = @ + 1]
          /\ Goto(p, "loop") /\ UNCHANGED <<s_files, s_used, life, obj, vic>>
      BY <2>2, Zenon DEF WalkClear
    <3>3. pc'[p] = "loop" /\ \A q \in Proc \ {p} : pc'[q] = pc[q] /\ at'[q] = at[q]
      BY <3>2, Zenon DEF Goto, DescTypeOK
    <3>4. vic[p] \in Proc
      BY Zenon DEF DescTypeOK
    <3>. QED BY <3>1, <3>2, <3>3, <3>4, Zenon
  <2>. QED BY <2>1, <2>2, Zenon
<1>2. pc[p] = "closed" => v = p
  BY Zenon
<1>3. pc[p] = "clear" => vic[p] = v
  BY Zenon
<1>. HIDE DEF v
<1>4. /\ \A q \in Proc \ {v} : fds'[q] = fds[q]
      /\ \A f \in Fd : fds'[v][f] = IF f = at[p] THEN Unused ELSE fds[v][f]
  BY <1>1, FreedIs, Zenon
<1>5. ASSUME NEW type \in {"FD_FILE", "FD_SOCKET"} PROVE Exclusive(type)'
  <2>1. \A q \in Proc, f \in Place : Kept(type, q, f)
    BY <1>1, <1>2, <1>3, <1>4, ClearKept, SMTT(20)
  <2>2. Exclusive(type) /\ Taken(type)' = Taken(type)
    BY <1>1, TakingLabels, Zenon DEF Slots
  <2>. QED BY <2>1, <2>2, QuietExclusive, Zenon
<1>. QED BY <1>5, Zenon DEF Slots

LEMMA WalkSlots ==
  ASSUME DescTypeOK, Slots, NEW p \in Proc, WalkClose(p)
  PROVE  Slots'
<1>1. life[p] = "live" /\ pc[p] = "loop" /\ Goto(p, "clear") /\ UNCHANGED <<fds, s_files, s_used, life, obj, vic>>
      /\ at' = [at EXCEPT ![p] = Lowest(StillOpen(vic[p], at[p]))]
  BY Zenon DEF WalkClose, At
<1>2. pc'[p] = "clear" /\ \A q \in Proc \ {p} : pc'[q] = pc[q] /\ at'[q] = at[q]
  BY <1>1, Zenon DEF Goto, DescTypeOK
<1>3. \A q \in Proc \ {p} : Same(q)
  BY <1>1, <1>2, Zenon DEF Same
<1>4. ASSUME NEW type \in {"FD_FILE", "FD_SOCKET"} PROVE Exclusive(type)'
  <2>1. \A f \in Fd : ~BeingClosed(p, f)
    BY <1>1, Zenon DEF BeingClosed
  <2>2. \A f \in Fd : Kept(type, p, f)
    BY <1>1, <2>1, FdKept, Zenon
  <2>3. pc'[p] \notin Taking(type)
    BY <1>2, TakingLabels, Zenon
  <2>4. Kept(type, p, NoFd)
    BY <2>3, CallKept, Zenon
  <2>5. Exclusive(type) /\ Taken(type)' = Taken(type)
    BY <1>1, TakingLabels, Zenon DEF Slots
  <2>. QED BY <1>3, <2>2, <2>4, <2>5, OneProcess, QuietExclusive, Zenon
<1>. QED BY <1>4, Zenon DEF Slots

LEMMA WalkDoneSlots ==
  ASSUME DescTypeOK, Slots, NEW p \in Proc, WalkDone(p)
  PROVE  Slots'
<1>1. life[p] = "live" /\ pc[p] = "loop" /\ UNCHANGED <<fds, s_files, s_used>> /\ Return(p)
      /\ life' = [life EXCEPT ![vic[p]] = "dead"]
  BY Zenon DEF WalkDone, At
<1>2. \A q \in Proc : life'[q] = "live" => life[q] = "live"
  BY <1>1, Zenon DEF DescTypeOK
<1>3. /\ pc'[p] = "user"
      /\ \A q \in Proc \ {p} : pc'[q] = pc[q] /\ obj'[q] = obj[q] /\ at'[q] = at[q] /\ vic'[q] = vic[q]
  BY <1>1, ReturnFrame, Zenon
<1>4. ASSUME NEW type \in {"FD_FILE", "FD_SOCKET"} PROVE Exclusive(type)'
  <2>1. ASSUME NEW q \in Proc, NEW f \in Fd PROVE Kept(type, q, f)
    <3>1. BeingClosed(q, f) => BeingClosed(q, f)'
      BY <1>1, <1>3, Zenon DEF BeingClosed
    <3>. QED BY <1>1, <1>2, <3>1, FdKept, Zenon
  <2>2. ASSUME NEW q \in Proc PROVE Kept(type, q, NoFd)
    <3>1. pc'[p] \notin Taking(type)
      BY <1>3, TakingLabels, Zenon
    <3>. QED BY <1>2, <1>3, <3>1, CallKept, Zenon
  <2>3. Exclusive(type) /\ Taken(type)' = Taken(type)
    BY <1>1, TakingLabels, Zenon DEF Slots
  <2>. QED BY <2>1, <2>2, <2>3, QuietExclusive, Zenon DEF Place
<1>. QED BY <1>4, Zenon DEF Slots

(* sys_pipe installs two entries that were free. *)
EndsAt(p, r, w) ==
  /\ r # w /\ fds[p][r].type = "FD_NONE" /\ fds[p][w].type = "FD_NONE"
  /\ fds'[p][r] = [type |-> "FD_PIPE_READ", id |-> obj[p]]
  /\ fds'[p][w] = [type |-> "FD_PIPE_WRITE", id |-> obj[p]]
  /\ \A f \in Fd : f \notin {r, w} => fds'[p][f] = fds[p][f]

LEMMA PipeInstalled ==
  ASSUME DescTypeOK, NEW p \in Proc, PipeInstall(p)
  PROVE  \E r \in Fd, w \in Fd : EndsAt(p, r, w)
<1>. DEFINE room == Unopened(fds[p], FirstPipe)
           r == Lowest(room)
           tab == Installed(fds[p], FirstPipe, "FD_PIPE_READ", obj[p])
           room2 == Unopened(tab, FirstPipe)
           w == Lowest(room2)
<1>1. (\E i, j \in room : i # j) /\ SetFds(p, Installed(tab, FirstPipe, "FD_PIPE_WRITE", obj[p]))
  BY Zenon DEF PipeInstall
<1>2. room \subseteq Fd
  BY Zenon DEF Unopened
<1>3. room # {}
  BY <1>1, Zenon
<1>4. r \in Fd /\ fds[p][r].type = "FD_NONE" /\ r \in room
  <2>1. r \in room
    BY <1>2, <1>3, Numbers, LowestIn, Zenon
  <2>. QED BY <2>1, Zenon DEF Unopened
<1>5. PICK x \in room : x # r
  BY <1>1, Zenon
<1>. HIDE DEF r
<1>6. fds[p] \in [Fd -> Entry]
  BY Zenon DEF DescTypeOK
<1>7. tab = [fds[p] EXCEPT ![r] = [type |-> "FD_PIPE_READ", id |-> obj[p]]]
  BY Zenon DEF Installed, r
<1>. HIDE DEF tab
<1>8. tab[r] = [type |-> "FD_PIPE_READ", id |-> obj[p]] /\ DOMAIN tab = Fd
      /\ \A f \in Fd : f # r => tab[f] = fds[p][f]
  BY <1>4, <1>6, <1>7, Zenon
<1>9. tab[r].type = "FD_PIPE_READ"
  BY <1>8, SMTT(20)
<1>10. x \in room2
  BY <1>5, <1>8, Zenon DEF Unopened
<1>11. w \in Fd /\ tab[w].type = "FD_NONE"
  BY <1>10, UnopenedIs, Zenon
<1>. HIDE DEF w
<1>12. r # w
  BY <1>9, <1>11, Zenon
<1>13. fds'[p] = [tab EXCEPT ![w] = [type |-> "FD_PIPE_WRITE", id |-> obj[p]]]
  BY <1>1, Zenon DEF SetFds, DescTypeOK, Installed, w
<1>14. fds'[p][w] = [type |-> "FD_PIPE_WRITE", id |-> obj[p]] /\ \A f \in Fd : f # w => fds'[p][f] = tab[f]
  BY <1>8, <1>11, <1>13, Zenon
<1>15. fds[p][w].type = "FD_NONE" /\ fds'[p][r] = [type |-> "FD_PIPE_READ", id |-> obj[p]]
  BY <1>4, <1>8, <1>11, <1>12, <1>14, Zenon
<1>16. \A f \in Fd : f \notin {r, w} => fds'[p][f] = fds[p][f]
  BY <1>8, <1>14, Zenon
<1>. QED BY <1>4, <1>11, <1>12, <1>14, <1>15, <1>16, Zenon DEF EndsAt

(* Every step of a process, inherited ends, reads and writes included. *)
DescStep(p) ==
  \/ ProcStep(p)
  \/ SysRead(p) \/ ReadTry(p) \/ WriteTry(p)
  \/ \E data \in Seq(Byte) : SysWrite(p, data)
  \/ \E q \in Proc : \E in, out : SpawnChild(p, q, in, out)

LEMMA EnterSame ==
  ASSUME DescTypeOK, NEW p \in Proc, UNCHANGED <<fds, life>>,
         pc' = pc \/ \E l : Goto(p, l), obj' = obj \/ \E x : Hold(p, x),
         at' = at \/ \E x : at' = [at EXCEPT ![p] = x], vic' = vic \/ \E x : vic' = [vic EXCEPT ![p] = x]
  PROVE  \A q \in Proc \ {p} : Same(q)
<1>. SUFFICES ASSUME NEW q \in Proc \ {p} PROVE Same(q)
  BY Zenon
<1>1. pc'[q] = pc[q]
  BY Zenon DEF Goto, DescTypeOK
<1>2. obj'[q] = obj[q]
  BY Zenon DEF Hold, DescTypeOK
<1>3. at'[q] = at[q]
  BY Zenon DEF DescTypeOK
<1>4. vic'[q] = vic[q]
  BY Zenon DEF DescTypeOK
<1>. QED BY <1>1, <1>2, <1>3, <1>4, Zenon DEF Same

LEMMA EnterActions ==
  ASSUME DescTypeOK, NEW p \in Proc,
         SysPipe(p) \/ SysRead(p) \/ (\E data \in Seq(Byte) : SysWrite(p, data)) \/ \E v \in Proc : WalkTable(p, v)
  PROVE  /\ At(p, "user") /\ pc'[p] \in {"user", "pipe", "read", "write", "loop"}
         /\ \A q \in Proc \ {p} : Same(q)
         /\ UNCHANGED <<fds, life, s_files, s_used, workload>>
<1>1. ASSUME NEW l, Goto(p, l) PROVE pc'[p] = l
  BY <1>1, Zenon DEF Goto, DescTypeOK
<1>2. CASE SysPipe(p)
  <2>1. At(p, "user") /\ UNCHANGED <<fds, life, s_files, s_used, at, vic, workload>>
    BY <1>2, Zenon DEF SysPipe
  <2>2. (pc' = pc /\ obj' = obj) \/ (Goto(p, "pipe") /\ \E i : Hold(p, i))
    BY <1>2, Zenon DEF SysPipe
  <2>3. pc'[p] \in {"user", "pipe"}
    BY <1>1, <2>1, <2>2, Zenon DEF At
  <2>4. \A q \in Proc \ {p} : Same(q)
    BY <2>1, <2>2, EnterSame, Zenon
  <2>. QED BY <2>1, <2>3, <2>4, Zenon
<1>3. CASE SysRead(p)
  <2>1. At(p, "user") /\ UNCHANGED <<fds, life, s_files, s_used, at, vic, workload>> /\ Goto(p, "read") /\ Hold(p, fd_id(p, 0))
    BY <1>3, Zenon DEF SysRead
  <2>2. \A q \in Proc \ {p} : Same(q)
    BY <2>1, EnterSame, Zenon
  <2>. QED BY <1>1, <2>1, <2>2, Zenon
<1>4. CASE \E data \in Seq(Byte) : SysWrite(p, data)
  <2>1. At(p, "user") /\ UNCHANGED <<fds, life, s_files, s_used, at, vic, workload>> /\ Goto(p, "write") /\ Hold(p, fd_id(p, 1))
    BY <1>4, Zenon DEF SysWrite
  <2>2. \A q \in Proc \ {p} : Same(q)
    BY <2>1, EnterSame, Zenon
  <2>. QED BY <1>1, <2>1, <2>2, Zenon
<1>5. ASSUME NEW v \in Proc, WalkTable(p, v)
      PROVE  /\ At(p, "user") /\ pc'[p] = "loop" /\ \A q \in Proc \ {p} : Same(q)
             /\ UNCHANGED <<fds, life, s_files, s_used, workload>>
  <2>1. /\ At(p, "user") /\ UNCHANGED <<fds, life, s_files, s_used, obj, workload>> /\ Goto(p, "loop")
        /\ vic' = [vic EXCEPT ![p] = v] /\ at' = [at EXCEPT ![p] = 0]
    BY <1>5, Zenon DEF WalkTable
  <2>2. \A q \in Proc \ {p} : Same(q)
    BY <2>1, EnterSame, Zenon
  <2>. QED BY <1>1, <2>1, <2>2, Zenon
<1>. QED BY <1>2, <1>3, <1>4, <1>5, Zenon

LEMMA WriteFrame ==
  ASSUME DescTypeOK, NEW p \in Proc, WriteTry(p)
  PROVE  /\ life[p] = "live" /\ pc[p] = "write" /\ UNCHANGED <<workload, fds, life, s_files, s_used>>
         /\ Return(p) \/ UNCHANGED <<pc, obj, at, vic>>
<1>1. life[p] = "live" /\ pc[p] = "write"
  BY Zenon DEF WriteTry, At
<1>2. UNCHANGED <<workload, fds, life, s_files, s_used>>
  BY Zenon DEF WriteTry
<1>3. Return(p) \/ UNCHANGED <<pc, obj, at, vic>>
  BY Zenon DEF WriteTry
<1>. QED BY <1>1, <1>2, <1>3, Zenon

LEMMA UnchangedSlots ==
  ASSUME Slots, UNCHANGED <<fds, life, s_files, s_used, pc, obj, at, vic>>
  PROVE  Slots'
<1>1. \A q \in Proc : Same(q)
  BY Zenon DEF Same
<1>2. ASSUME NEW type \in {"FD_FILE", "FD_SOCKET"} PROVE Exclusive(type)'
  <2>1. Exclusive(type) /\ Taken(type)' = Taken(type)
    BY TakingLabels, Zenon DEF Slots
  <2>. QED BY <1>1, <2>1, SameRefs, QuietExclusive, Zenon
<1>. QED BY <1>2, Zenon DEF Slots

(* No step of a process makes two references to one open file or socket. *)
LEMMA SlotsStep ==
  ASSUME DescTypeOK, Slots, \A r \in Proc : life[r] = "none" => pc[r] = "user", NEW p \in Proc, DescStep(p)
  PROVE  Slots'
<1>1. CASE SysOpen(p) \/ SysSpawn(p)
  BY <1>1, OpenSlots, Zenon
<1>2. CASE OpenInstall(p)
  BY <1>2, OpenInstallSlots, Zenon
<1>3. CASE SysSocket(p)
  BY <1>3, SocketSlots, Zenon
<1>4. CASE SocketInstall(p)
  BY <1>4, SocketInstallSlots, Zenon
<1>5. CASE SysPipe(p) \/ SysRead(p) \/ (\E data \in Seq(Byte) : SysWrite(p, data)) \/ \E v \in Proc : WalkTable(p, v)
  BY <1>5, EnterActions, EnterSlots, SMTT(20)
<1>6. CASE PipeInstall(p)
  <2>1. life[p] = "live" /\ pc[p] = "pipe" /\ Return(p) /\ UNCHANGED <<life, s_files, s_used>>
        /\ \E tab : SetFds(p, tab)
    BY <1>6, Zenon DEF PipeInstall, At
  <2>2. \A f \in Fd : fds'[p][f] = fds[p][f] \/ fds'[p][f].type \in {"FD_PIPE_READ", "FD_PIPE_WRITE"}
    <3>1. PICK r \in Fd, w \in Fd : EndsAt(p, r, w)
      BY <1>6, PipeInstalled, Zenon
    <3>2. fds'[p][r].type = "FD_PIPE_READ" /\ fds'[p][w].type = "FD_PIPE_WRITE"
      BY <3>1, SMTT(20) DEF EndsAt
    <3>. QED BY <3>1, <3>2, Zenon DEF EndsAt
  <2>. QED BY <2>1, <2>2, LeaveSlots, Zenon
<1>7. CASE PipeInstallFails(p) \/ ReadTry(p)
  <2>1. life[p] = "live" /\ pc[p] \notin {"closed", "clear"} /\ Return(p) /\ UNCHANGED <<fds, life, s_files, s_used>>
    BY <1>7, Zenon DEF PipeInstallFails, ReadTry, At
  <2>. QED BY <2>1, LeaveSlots, Zenon
<1>8. CASE WriteTry(p)
  <2>1. life[p] = "live" /\ pc[p] \notin {"closed", "clear"} /\ UNCHANGED <<fds, life, s_files, s_used>>
        /\ (Return(p) \/ UNCHANGED <<pc, obj, at, vic>>)
    BY <1>8, WriteFrame, Zenon
  <2>2. CASE Return(p)
    BY <2>1, <2>2, LeaveSlots, Zenon
  <2>. QED BY <2>1, <2>2, UnchangedSlots, Zenon
<1>9. CASE \E fd \in Fd : SysClose(p, fd)
  BY <1>9, CloseSlots, Zenon
<1>10. CASE CloseFree(p) \/ WalkClear(p)
  BY <1>10, ClearSlots, Zenon
<1>11. CASE SpawnFails(p)
  BY <1>11, SpawnFailsSlots, Zenon
<1>12. CASE \E q \in Proc : \E in, out : SpawnChild(p, q, in, out)
  BY <1>12, SpawnChildSlots, Zenon
<1>13. CASE WalkClose(p)
  BY <1>13, WalkSlots, Zenon
<1>14. CASE WalkDone(p)
  BY <1>14, WalkDoneSlots, Zenon
<1>15. (SysExit(p) \/ \E v \in Proc \ {p} : SysKill(p, v)) => \E v \in Proc : WalkTable(p, v)
  BY Zenon DEF SysExit, SysKill
<1>16. (\E q \in Proc : SpawnChild(p, q, NoFd, NoFd)) => \E q \in Proc : \E in, out : SpawnChild(p, q, in, out)
  BY Zenon
<1>. QED BY <1>1, <1>2, <1>3, <1>4, <1>5, <1>6, <1>7, <1>8, <1>9, <1>10, <1>11, <1>12, <1>13, <1>14, <1>15, <1>16,
            Zenon DEF DescStep, ProcStep

----------------------------------------------------------------------------
(* The tables and the locals keep their types. *)

PipeRec == [in_use : BOOLEAN, q : Seq(Byte), write_closed : BOOLEAN, read_closed : BOOLEAN]

FifosOK == FifoTypes /\ \A i \in Pipes : Len(fifo[i].q) <= Cap

LEMMA SetFifo ==
  ASSUME FifosOK, NEW i, NEW e, fifo' = [fifo EXCEPT ![i] = e], i \in Pipes => e \in PipeRec /\ Len(e.q) <= Cap
  PROVE  FifosOK'
<1>1. fifo \in [Pipes -> PipeRec]
  BY Zenon DEF FifosOK, FifoTypes, PipeRec
<1>2. fifo' \in [Pipes -> PipeRec] /\ \A j \in Pipes : fifo'[j] = IF j = i THEN e ELSE fifo[j]
  <2>1. CASE i \in Pipes
    BY <1>1, <2>1, Zenon
  <2>2. CASE i \notin Pipes
    BY <1>1, <2>2, Zenon
  <2>. QED BY <2>1, <2>2, Zenon
<1>3. ASSUME NEW j \in Pipes PROVE Len(fifo'[j].q) <= Cap
  BY <1>2, Zenon DEF FifosOK
<1>. QED BY <1>2, <1>3, Zenon DEF FifosOK, FifoTypes, PipeRec

LEMMA HoldingOK ==
  ASSUME NEW e \in PipeRec, NEW used \in BOOLEAN, NEW q \in Seq(Byte), Len(q) <= Cap
  PROVE  Holding(e, used, q) \in PipeRec /\ Len(Holding(e, used, q).q) <= Cap
<1>1. Holding(e, used, q).q = q
  BY SMTT(20) DEF Holding
<1>2. e.write_closed \in BOOLEAN /\ e.read_closed \in BOOLEAN
  BY Zenon DEF PipeRec
<1>3. Holding(e, used, q) \in PipeRec
  BY <1>2, Zenon DEF Holding, PipeRec
<1>. QED BY <1>1, <1>3, Zenon

LEMMA EndsOK ==
  ASSUME NEW e \in PipeRec, Len(e.q) <= Cap, NEW w \in BOOLEAN, NEW r \in BOOLEAN
  PROVE  Ends(e, w, r) \in PipeRec /\ Len(Ends(e, w, r).q) <= Cap
<1>1. Ends(e, w, r).q = e.q
  BY SMTT(20) DEF Ends
<1>2. e.q \in Seq(Byte) /\ (~(w /\ r)) \in BOOLEAN
  BY Zenon DEF PipeRec
<1>3. Ends(e, w, r) \in PipeRec
  BY <1>2, Zenon DEF Ends, PipeRec
<1>. QED BY <1>1, <1>3, Zenon

LEMMA FifoIs ==
  ASSUME FifosOK, NEW i \in Pipes
  PROVE  /\ fifo[i] \in PipeRec /\ fifo[i].q \in Seq(Byte) /\ Len(fifo[i].q) <= Cap
         /\ fifo[i].in_use \in BOOLEAN /\ fifo[i].write_closed \in BOOLEAN /\ fifo[i].read_closed \in BOOLEAN
<1>1. fifo[i] \in PipeRec /\ Len(fifo[i].q) <= Cap
  BY Zenon DEF FifosOK, FifoTypes, PipeRec
<1>2. /\ fifo[i].q \in Seq(Byte) /\ fifo[i].in_use \in BOOLEAN
      /\ fifo[i].write_closed \in BOOLEAN /\ fifo[i].read_closed \in BOOLEAN
  BY <1>1, Zenon DEF PipeRec
<1>. QED BY <1>1, <1>2, Zenon

LEMMA AllocOK ==
  ASSUME FifosOK, NEW i, FAlloc(i)
  PROVE  FifosOK'
<1>. DEFINE e == [in_use |-> TRUE, q |-> <<>>, write_closed |-> FALSE, read_closed |-> FALSE]
<1>1. e \in PipeRec /\ Len(e.q) <= Cap
  BY DescConstants, SMTT(20) DEF PipeRec
<1>2. fifo' = [fifo EXCEPT ![i] = e]
  BY Zenon DEF FAlloc
<1>. QED BY <1>1, <1>2, SetFifo, Zenon

LEMMA CloseEndOK ==
  ASSUME FifosOK, NEW i, FCloseRead(i) \/ FCloseWrite(i)
  PROVE  FifosOK'
<1>1. CASE fifo' = fifo
  BY <1>1, Zenon DEF FifosOK, FifoTypes
<1>2. CASE fifo' # fifo
  <2>1. PICK w, r : /\ fifo' = [fifo EXCEPT ![i] = Ends(fifo[i], w, r)]
                    /\ w = TRUE \/ w = fifo[i].write_closed
                    /\ r = TRUE \/ r = fifo[i].read_closed
    BY <1>2, Zenon DEF FCloseRead, FCloseWrite
  <2>2. ASSUME i \in Pipes PROVE Ends(fifo[i], w, r) \in PipeRec /\ Len(Ends(fifo[i], w, r).q) <= Cap
    <3>1. fifo[i] \in PipeRec /\ Len(fifo[i].q) <= Cap /\ w \in BOOLEAN /\ r \in BOOLEAN
      BY <2>1, <2>2, FifoIs, Zenon
    <3>. QED BY <3>1, EndsOK, Zenon
  <2>. QED BY <2>1, <2>2, SetFifo, Zenon
<1>. QED BY <1>1, <1>2, Zenon

LEMMA UndoOK ==
  ASSUME FifosOK, NEW p, PipeUndo(p)
  PROVE  FifosOK'
<1>1. fifo' = [fifo EXCEPT ![obj[p]] = Holding(fifo[obj[p]], FALSE, fifo[obj[p]].q)]
  BY SMTT(20) DEF PipeUndo
<1>2. ASSUME obj[p] \in Pipes
      PROVE  LET e == Holding(fifo[obj[p]], FALSE, fifo[obj[p]].q) IN e \in PipeRec /\ Len(e.q) <= Cap
  BY <1>2, FifoIs, HoldingOK, Zenon
<1>. QED BY <1>1, <1>2, SetFifo, Zenon

LEMMA LeastIs ==
  ASSUME NEW x \in Nat, NEW y \in Nat
  PROVE  Least(x, y) \in Nat /\ Least(x, y) <= x /\ Least(x, y) <= y
BY SMTT(20) DEF Least

LEMMA WriteOK ==
  ASSUME FifosOK, NEW i, NEW data \in Seq(Byte), FWrite(i, data)
  PROVE  FifosOK'
<1>1. CASE fifo' = fifo
  BY <1>1, Zenon DEF FifosOK, FifoTypes
<1>2. CASE fifo' # fifo
  <2>. DEFINE w == Least(Len(data), Cap - Len(fifo[i].q))
              q == fifo[i].q \o SubSeq(data, 1, w)
  <2>1. fifo' = [fifo EXCEPT ![i] = Holding(fifo[i], TRUE, q)]
    BY <1>2, Zenon DEF FWrite
  <2>2. ASSUME i \in Pipes PROVE q \in Seq(Byte) /\ Len(q) <= Cap
    <3>1. fifo[i].q \in Seq(Byte) /\ Len(fifo[i].q) <= Cap
      BY <2>2, FifoIs, Zenon
    <3>2. Cap \in Nat
      BY DescConstants, Zenon
    <3>3. w \in 0..Len(data) /\ Len(fifo[i].q) + w <= Cap
      <4>1. Len(data) \in Nat /\ Len(fifo[i].q) \in Nat
        BY <3>1, SeqLen, Zenon
      <4>2. Cap - Len(fifo[i].q) \in Nat
        BY <3>1, <3>2, <4>1, SMTT(20)
      <4>3. w \in Nat /\ w <= Len(data) /\ w <= Cap - Len(fifo[i].q)
        BY <4>1, <4>2, LeastIs, Zenon
      <4>. HIDE DEF w
      <4>. QED BY <3>2, <4>1, <4>3, SMTT(20)
    <3>. HIDE DEF w
    <3>4. SubSeq(data, 1, w) \in Seq(Byte) /\ Len(SubSeq(data, 1, w)) = w
      BY <3>3, SMTT(20)
    <3>5. q \in Seq(Byte) /\ Len(q) = Len(fifo[i].q) + Len(SubSeq(data, 1, w))
      BY <3>1, <3>4, SeqJoin, Zenon
    <3>. QED BY <3>3, <3>4, <3>5, Zenon
  <2>. HIDE DEF q
  <2>3. ASSUME i \in Pipes PROVE Holding(fifo[i], TRUE, q) \in PipeRec /\ Len(Holding(fifo[i], TRUE, q).q) <= Cap
    BY <2>2, <2>3, FifoIs, HoldingOK, Zenon
  <2>. QED BY <2>1, <2>3, SetFifo, Zenon
<1>. QED BY <1>1, <1>2, Zenon

LEMMA ReadOK ==
  ASSUME FifosOK, NEW i, FRead(i, MaxLen)
  PROVE  FifosOK'
<1>1. CASE fifo' = fifo
  BY <1>1, Zenon DEF FifosOK, FifoTypes
<1>2. CASE fifo' # fifo
  <2>. DEFINE n == Least(MaxLen, Len(fifo[i].q))
              q == SubSeq(fifo[i].q, n + 1, Len(fifo[i].q))
  <2>1. fifo' = [fifo EXCEPT ![i] = Holding(fifo[i], TRUE, q)]
    BY <1>2, Zenon DEF FRead
  <2>2. ASSUME i \in Pipes PROVE q \in Seq(Byte) /\ Len(q) <= Cap
    <3>1. fifo[i].q \in Seq(Byte) /\ Len(fifo[i].q) <= Cap
      BY <2>2, FifoIs, Zenon
    <3>2. Cap \in Nat /\ MaxLen \in Nat
      BY DescConstants, Zenon
    <3>3. n \in 0..Len(fifo[i].q)
      BY <3>1, <3>2, SMTT(20) DEF Least
    <3>. HIDE DEF n
    <3>. QED BY <3>1, <3>2, <3>3, SMTT(20)
  <2>. HIDE DEF q
  <2>3. ASSUME i \in Pipes PROVE Holding(fifo[i], TRUE, q) \in PipeRec /\ Len(Holding(fifo[i], TRUE, q).q) <= Cap
    BY <2>2, <2>3, FifoIs, HoldingOK, Zenon
  <2>. QED BY <2>1, <2>3, SetFifo, Zenon
<1>. QED BY <1>1, <1>2, Zenon

(* A process not yet created is in no call; a descriptor being closed exists. *)
Resting ==
  \A p \in Proc : /\ life[p] = "none" => pc[p] = "user"
                  /\ pc[p] \in {"closed", "clear"} => at[p] \in Fd

TablesOK ==
  /\ workload \in Workloads
  /\ fds \in [Proc -> [Fd -> Entry]]
  /\ s_files \subseteq Files
  /\ s_used \subseteq Socks
  /\ life \in [Proc -> {"none", "live", "dead"}]

LocalsOK ==
  /\ pc \in [Proc -> Pcs]
  /\ obj \in [Proc -> Nat]
  /\ at \in [Proc -> 0..MaxFds]
  /\ vic \in [Proc -> Proc]

KbufOK == kbuf \in [Proc -> Seq(Byte)]

TypeInv == TablesOK /\ LocalsOK /\ FifosOK /\ KbufOK /\ Resting

LEMMA TypeInvIs == (DescTypeOK /\ FifoTypes /\ KbufOK /\ Resting) <=> TypeInv
BY Zenon DEF TypeInv, DescTypeOK, TablesOK, LocalsOK, FifosOK

LEMMA TypeInvGives == TypeInv => DescTypeOK
BY Zenon DEF TypeInv, DescTypeOK, TablesOK, LocalsOK, FifosOK

LEMMA RestFrom ==
  ASSUME Resting, NEW p \in Proc, life'[p] # "none", \A q \in Proc : life'[q] = "none" => life[q] = "none",
         \A q \in Proc \ {p} : pc'[q] = pc[q] /\ at'[q] = at[q],
         pc'[p] \in {"closed", "clear"} => at'[p] \in Fd
  PROVE  Resting'
<1>. SUFFICES ASSUME NEW q \in Proc
              PROVE  /\ life'[q] = "none" => pc'[q] = "user"
                     /\ pc'[q] \in {"closed", "clear"} => at'[q] \in Fd
  BY Zenon DEF Resting, Fd
<1>. QED BY Zenon DEF Resting

LEMMA InstalledOK ==
  ASSUME NEW tab \in [Fd -> Entry], NEW from, NEW id \in Nat,
         NEW type \in {"FD_FILE", "FD_SOCKET", "FD_PIPE_READ", "FD_PIPE_WRITE"}
  PROVE  Installed(tab, from, type, id) \in [Fd -> Entry]
<1>1. [type |-> type, id |-> id] \in Entry
  BY Zenon DEF Entry
<1>. QED BY <1>1, Zenon DEF Installed

LEMMA InstalledEntry ==
  ASSUME NEW tab \in [Fd -> Entry], NEW from, NEW type, NEW id, NEW f \in Fd
  PROVE  \/ Installed(tab, from, type, id)[f] = tab[f]
         \/ Installed(tab, from, type, id)[f].type = type
<1>. DEFINE g == Lowest(Unopened(tab, from))
<1>1. Installed(tab, from, type, id) = [tab EXCEPT ![g] = [type |-> type, id |-> id]]
  BY Zenon DEF Installed
<1>. HIDE DEF g
<1>2. CASE f = g
  <2>1. Installed(tab, from, type, id)[f] = [type |-> type, id |-> id]
    BY <1>1, <1>2, Zenon
  <2>. QED BY <2>1, SMTT(20)
<1>3. CASE f # g
  BY <1>1, <1>3, Zenon
<1>. QED BY <1>2, <1>3, Zenon

LEMMA ReturnTypes ==
  ASSUME LocalsOK, NEW p \in Proc, Return(p)
  PROVE  LocalsOK'
<1>1. pc' = [pc EXCEPT ![p] = "user"] /\ obj' = [obj EXCEPT ![p] = 0] /\ at' = [at EXCEPT ![p] = 0]
      /\ vic' = [vic EXCEPT ![p] = p]
  BY Zenon DEF Return, Goto
<1>2. "user" \in Pcs /\ 0 \in Nat /\ 0 \in 0..MaxFds
  BY Numbers, SMTT(20) DEF Pcs
<1>. QED BY <1>1, <1>2, Zenon DEF LocalsOK

LEMMA EnterTypes ==
  ASSUME LocalsOK, NEW p \in Proc, pc' = pc \/ \E l \in Pcs : Goto(p, l),
         obj' = obj \/ \E x \in Nat : Hold(p, x),
         at' = at \/ \E x \in 0..MaxFds : at' = [at EXCEPT ![p] = x],
         vic' = vic \/ \E x \in Proc : vic' = [vic EXCEPT ![p] = x]
  PROVE  LocalsOK'
<1>1. pc' \in [Proc -> Pcs]
  BY Zenon DEF LocalsOK, Goto
<1>2. obj' \in [Proc -> Nat]
  BY Zenon DEF LocalsOK, Hold
<1>3. at' \in [Proc -> 0..MaxFds]
  BY Zenon DEF LocalsOK
<1>4. vic' \in [Proc -> Proc]
  BY Zenon DEF LocalsOK
<1>. QED BY <1>1, <1>2, <1>3, <1>4, Zenon DEF LocalsOK

LEMMA TablesFrom ==
  ASSUME TablesOK, workload' = workload,
         fds' = fds \/ \E p \in Proc, tab \in [Fd -> Entry] : SetFds(p, tab),
         s_files' = s_files \/ (\E i \in Files : s_files' = s_files \cup {i}) \/ (\E i : s_files' = s_files \ {i}),
         s_used' = s_used \/ (\E i \in Socks : s_used' = s_used \cup {i}) \/ (\E i : s_used' = s_used \ {i}),
         life' = life \/ \E p \in Proc, l \in {"live", "dead"} : life' = [life EXCEPT ![p] = l]
  PROVE  TablesOK'
<1>1. fds' \in [Proc -> [Fd -> Entry]]
  BY Zenon DEF TablesOK, SetFds
<1>2. s_files' \subseteq Files
  BY Zenon DEF TablesOK
<1>3. s_used' \subseteq Socks
  BY Zenon DEF TablesOK
<1>4. life' \in [Proc -> {"none", "live", "dead"}]
  BY Zenon DEF TablesOK
<1>. QED BY <1>1, <1>2, <1>3, <1>4, Zenon DEF TablesOK

LEMMA FifosSame ==
  ASSUME FifosOK, fifo' = fifo
  PROVE  FifosOK'
BY Zenon DEF FifosOK, FifoTypes

LEMMA ParamTypes ==
  ASSUME TypeInv, NEW p \in Proc
  PROVE  fds[p] \in [Fd -> Entry] /\ obj[p] \in Nat /\ vic[p] \in Proc /\ at[p] \in 0..MaxFds /\ kbuf[p] \in Seq(Byte)
BY Zenon DEF TypeInv, TablesOK, LocalsOK, KbufOK

(* A call that takes a slot. *)
LEMMA TakeTypes ==
  ASSUME TypeInv, NEW p \in Proc, SysOpen(p) \/ SysSpawn(p) \/ SysSocket(p)
  PROVE  TypeInv'
<1>1. CASE SysOpen(p) \/ SysSpawn(p)
  <2>. DEFINE i == Lowest(FreeFiles)
  <2>1. /\ At(p, "user") /\ FreeFiles # {} /\ s_files' = s_files \cup {i} /\ Hold(p, i)
        /\ UNCHANGED <<workload, fifo, fds, s_used, life, at, vic, kbuf>>
    BY <1>1, Zenon DEF SysOpen, SysSpawn
  <2>2. PICK l \in {"open", "spawn"} : Goto(p, l)
    BY <1>1, Zenon DEF SysOpen, SysSpawn
  <2>3. i \in Files /\ i \in Nat
    BY <2>1, Numbers, LowestIn, Zenon DEF FreeFiles
  <2>. HIDE DEF i
  <2>4. TablesOK'
    BY <2>1, <2>3, TablesFrom, Zenon DEF TypeInv
  <2>5. LocalsOK'
    <3>1. l \in Pcs
      BY <2>2, Zenon DEF Pcs
    <3>. QED BY <2>1, <2>2, <2>3, <3>1, EnterTypes, Zenon DEF TypeInv
  <2>6. Resting'
    <3>1. pc'[p] = l /\ \A q \in Proc \ {p} : pc'[q] = pc[q]
      BY <2>2, Zenon DEF Goto, TypeInv, LocalsOK
    <3>2. life[p] = "live" /\ pc'[p] \notin {"closed", "clear"}
      BY <2>1, <2>2, <3>1, Zenon DEF At
    <3>. QED BY <2>1, <3>1, <3>2, RestFrom, Zenon DEF TypeInv
  <2>. QED BY <2>1, <2>4, <2>5, <2>6, FifosSame, Zenon DEF TypeInv, KbufOK
<1>2. CASE SysSocket(p)
  <2>. DEFINE i == Lowest(FreeSocks)
  <2>1. /\ At(p, "user") /\ FreeSocks # {} /\ s_used' = s_used \cup {i} /\ Hold(p, i) /\ Goto(p, "socket")
        /\ UNCHANGED <<workload, fifo, fds, s_files, life, at, vic, kbuf>>
    BY <1>2, Zenon DEF SysSocket
  <2>3. i \in Socks /\ i \in Nat
    BY <2>1, Numbers, LowestIn, Zenon DEF FreeSocks
  <2>. HIDE DEF i
  <2>4. TablesOK'
    BY <2>1, <2>3, TablesFrom, Zenon DEF TypeInv
  <2>5. LocalsOK'
    <3>1. "socket" \in Pcs
      BY Zenon DEF Pcs
    <3>. QED BY <2>1, <2>3, <3>1, EnterTypes, Zenon DEF TypeInv
  <2>6. Resting'
    <3>1. pc'[p] = "socket" /\ \A q \in Proc \ {p} : pc'[q] = pc[q]
      BY <2>1, Zenon DEF Goto, TypeInv, LocalsOK
    <3>2. life[p] = "live" /\ pc'[p] \notin {"closed", "clear"}
      BY <2>1, <3>1, Zenon DEF At
    <3>. QED BY <2>1, <3>1, <3>2, RestFrom, Zenon DEF TypeInv
  <2>. QED BY <2>1, <2>4, <2>5, <2>6, FifosSame, Zenon DEF TypeInv, KbufOK
<1>. QED BY <1>1, <1>2, Zenon

(* A call that returns. *)
LEMMA LeaveTypes ==
  ASSUME TypeInv, NEW p \in Proc, life'[p] # "none", \A q \in Proc : life'[q] = "none" => life[q] = "none",
         Return(p), TablesOK', FifosOK', KbufOK'
  PROVE  TypeInv'
<1>1. LocalsOK'
  BY ReturnTypes, Zenon DEF TypeInv
<1>2. pc'[p] = "user" /\ \A q \in Proc \ {p} : pc'[q] = pc[q] /\ at'[q] = at[q]
  <2>1. DescTypeOK
    BY TypeInvGives, Zenon
  <2>2. /\ pc'[p] = "user" /\ obj'[p] = 0 /\ at'[p] = 0 /\ vic'[p] = p
        /\ \A q \in Proc \ {p} : pc'[q] = pc[q] /\ obj'[q] = obj[q] /\ at'[q] = at[q] /\ vic'[q] = vic[q]
    BY <2>1, ReturnFrame, Zenon
  <2>. QED BY ONLY <2>2, Zenon
<1>3. Resting'
  BY <1>2, RestFrom, Zenon DEF TypeInv
<1>. QED BY <1>1, <1>3, Zenon DEF TypeInv

LEMMA InstallTypes ==
  ASSUME TypeInv, NEW p \in Proc, OpenInstall(p) \/ SocketInstall(p) \/ PipeInstall(p) \/ PipeInstallFails(p)
  PROVE  TypeInv'
<1>1. life[p] = "live" /\ Return(p) /\ UNCHANGED <<workload, life, kbuf>>
  BY Zenon DEF OpenInstall, SocketInstall, PipeInstall, PipeInstallFails, At
<1>2. fds[p] \in [Fd -> Entry] /\ obj[p] \in Nat
  BY ParamTypes, Zenon
<1>3. fds' = fds \/ \E tab \in [Fd -> Entry] : SetFds(p, tab)
  <2>1. CASE OpenInstall(p)
    <3>1. fds' = fds \/ SetFds(p, Installed(fds[p], FirstFile, "FD_FILE", obj[p]))
      BY <2>1, Zenon DEF OpenInstall
    <3>. QED BY <1>2, <3>1, InstalledOK, Zenon
  <2>2. CASE SocketInstall(p)
    <3>1. fds' = fds \/ SetFds(p, Installed(fds[p], FirstSocket, "FD_SOCKET", obj[p]))
      BY <2>2, Zenon DEF SocketInstall
    <3>. QED BY <1>2, <3>1, InstalledOK, Zenon
  <2>3. CASE PipeInstall(p)
    <3>. DEFINE tab == Installed(fds[p], FirstPipe, "FD_PIPE_READ", obj[p])
    <3>1. SetFds(p, Installed(tab, FirstPipe, "FD_PIPE_WRITE", obj[p]))
      BY <2>3, Zenon DEF PipeInstall
    <3>2. tab \in [Fd -> Entry]
      BY <1>2, InstalledOK, Zenon
    <3>. HIDE DEF tab
    <3>. QED BY <1>2, <3>1, <3>2, InstalledOK, Zenon
  <2>4. CASE PipeInstallFails(p)
    BY <2>4, Zenon DEF PipeInstallFails
  <2>. QED BY <2>1, <2>2, <2>3, <2>4, Zenon
<1>4. s_files' = s_files \/ \E i : s_files' = s_files \ {i}
  BY Zenon DEF OpenInstall, SocketInstall, PipeInstall, PipeInstallFails
<1>5. s_used' = s_used \/ \E i : s_used' = s_used \ {i}
  BY Zenon DEF OpenInstall, SocketInstall, PipeInstall, PipeInstallFails
<1>6. TablesOK'
  BY <1>1, <1>3, <1>4, <1>5, TablesFrom, Zenon DEF TypeInv
<1>7. FifosOK'
  <2>1. fifo' = fifo \/ PipeUndo(p)
    BY Zenon DEF OpenInstall, SocketInstall, PipeInstall, PipeInstallFails
  <2>. QED BY <2>1, FifosSame, UndoOK, Zenon DEF TypeInv
<1>. QED BY <1>1, <1>6, <1>7, LeaveTypes, Zenon DEF TypeInv, KbufOK

LEMMA EnterTypeInv ==
  ASSUME TypeInv, NEW p \in Proc,
         SysPipe(p) \/ SysRead(p) \/ (\E data \in Seq(Byte) : SysWrite(p, data)) \/ \E v \in Proc : WalkTable(p, v)
  PROVE  TypeInv'
<1>1. /\ At(p, "user") /\ pc'[p] \in {"user", "pipe", "read", "write", "loop"}
      /\ \A q \in Proc \ {p} : Same(q)
      /\ UNCHANGED <<fds, life, s_files, s_used, workload>>
  BY EnterActions, TypeInvGives, SMTT(20)
<1>2. TablesOK'
  BY <1>1, TablesFrom, Zenon DEF TypeInv
<1>3. Resting'
  BY <1>1, RestFrom, Zenon DEF TypeInv, Same, At
<1>4. LocalsOK' /\ FifosOK' /\ KbufOK'
  <2>1. {"pipe", "read", "write", "loop"} \subseteq Pcs /\ 0 \in 0..MaxFds
    BY Numbers, Zenon DEF Pcs
  <2>2. CASE SysPipe(p)
    <3>1. UNCHANGED <<at, vic, kbuf>>
      BY <2>2, Zenon DEF SysPipe
    <3>2. CASE pc' = pc /\ obj' = obj /\ fifo' = fifo
      BY <3>1, <3>2, EnterTypes, FifosSame, Zenon DEF TypeInv, KbufOK
    <3>3. CASE ~(pc' = pc /\ obj' = obj /\ fifo' = fifo)
      <4>1. PICK i \in Pipes : FAlloc(i) /\ Hold(p, i) /\ Goto(p, "pipe")
        BY <2>2, <3>3, Zenon DEF SysPipe, FNone
      <4>2. i \in Nat /\ "pipe" \in Pcs
        BY <2>1, DescConstants, Zenon
      <4>3. LocalsOK'
        BY <3>1, <4>1, <4>2, EnterTypes, Zenon DEF TypeInv
      <4>4. FifosOK'
        BY <4>1, AllocOK, Zenon DEF TypeInv
      <4>. QED BY <3>1, <4>3, <4>4, Zenon DEF TypeInv, KbufOK
    <3>. QED BY <3>2, <3>3, Zenon
  <2>3. CASE SysRead(p)
    <3>1. UNCHANGED <<at, vic, kbuf, fifo>> /\ Hold(p, fds[p][0].id) /\ Goto(p, "read")
      BY <2>3, Zenon DEF SysRead, fd_id
    <3>2. fds[p][0].id \in Nat
      BY ParamTypes, Numbers, Zenon DEF Entry
    <3>. QED BY <2>1, <3>1, <3>2, EnterTypes, FifosSame, Zenon DEF TypeInv, KbufOK
  <2>4. CASE \E data \in Seq(Byte) : SysWrite(p, data)
    <3>1. PICK data \in Seq(Byte) : kbuf' = [kbuf EXCEPT ![p] = data]
      BY <2>4, Zenon DEF SysWrite
    <3>2. UNCHANGED <<at, vic, fifo>> /\ Hold(p, fds[p][1].id) /\ Goto(p, "write")
      BY <2>4, Zenon DEF SysWrite, fd_id
    <3>3. fds[p][1].id \in Nat
      BY ParamTypes, Numbers, Zenon DEF Entry
    <3>4. KbufOK'
      BY <3>1, Zenon DEF TypeInv, KbufOK
    <3>5. LocalsOK'
      BY <2>1, <3>2, <3>3, EnterTypes, Zenon DEF TypeInv
    <3>. QED BY <3>2, <3>4, <3>5, FifosSame, Zenon DEF TypeInv
  <2>5. ASSUME NEW v \in Proc, WalkTable(p, v) PROVE LocalsOK' /\ FifosOK' /\ KbufOK'
    <3>1. UNCHANGED <<obj, fifo, kbuf>> /\ Goto(p, "loop") /\ at' = [at EXCEPT ![p] = 0] /\ vic' = [vic EXCEPT ![p] = v]
      BY <2>5, Zenon DEF WalkTable
    <3>2. LocalsOK'
      BY <2>1, <3>1, EnterTypes, Zenon DEF TypeInv
    <3>. QED BY <3>1, <3>2, FifosSame, Zenon DEF TypeInv, KbufOK
  <2>. QED BY <2>2, <2>3, <2>4, <2>5, Zenon
<1>. QED BY <1>2, <1>3, <1>4, Zenon DEF TypeInv

LEMMA CloseTypes ==
  ASSUME TypeInv, NEW p \in Proc, NEW fd, SysClose(p, fd)
  PROVE  TypeInv'
<1>1. /\ fd \in Fd /\ life[p] = "live" /\ pc'[p] = "closed" /\ at'[p] = fd
      /\ fds' = fds /\ life' = life /\ workload' = workload /\ obj' = obj /\ vic' = vic
      /\ CloseObject(fds[p][fd]) /\ \A q \in Proc \ {p} : Same(q)
  BY CloseFrame, TypeInvGives, SMTT(20)
<1>2. Goto(p, "closed") /\ at' = [at EXCEPT ![p] = fd] /\ kbuf' = kbuf
  BY Zenon DEF SysClose
<1>3. TablesOK'
  <2>1. s_files' = s_files \/ \E i : s_files' = s_files \ {i}
    BY <1>1, Zenon DEF CloseObject
  <2>2. s_used' = s_used \/ \E i : s_used' = s_used \ {i}
    BY <1>1, Zenon DEF CloseObject
  <2>. QED BY <1>1, <2>1, <2>2, TablesFrom, Zenon DEF TypeInv
<1>4. LocalsOK'
  <2>1. "closed" \in Pcs /\ fd \in 0..MaxFds
    BY <1>1, Numbers, Zenon DEF Pcs
  <2>. QED BY <1>1, <1>2, <2>1, EnterTypes, Zenon DEF TypeInv
<1>5. FifosOK'
  <2>1. fifo' = fifo \/ \E i : FCloseRead(i) \/ FCloseWrite(i)
    BY <1>1, Zenon DEF CloseObject
  <2>. QED BY <2>1, FifosSame, CloseEndOK, Zenon DEF TypeInv
<1>6. Resting'
  BY <1>1, RestFrom, Zenon DEF TypeInv, Same
<1>. QED BY <1>2, <1>3, <1>4, <1>5, <1>6, Zenon DEF TypeInv, KbufOK

LEMMA FreedOK ==
  ASSUME NEW tab \in [Fd -> Entry], NEW fd
  PROVE  Freed(tab, fd) \in [Fd -> Entry]
BY UnusedIs, Zenon DEF Freed

LEMMA ClearTypes ==
  ASSUME TypeInv, NEW p \in Proc, CloseFree(p) \/ WalkClear(p)
  PROVE  TypeInv'
<1>1. CASE CloseFree(p)
  <2>1. life[p] = "live" /\ SetFds(p, Freed(fds[p], at[p])) /\ Return(p)
        /\ UNCHANGED <<workload, fifo, s_files, s_used, life, kbuf>>
    BY <1>1, Zenon DEF CloseFree, At
  <2>2. Freed(fds[p], at[p]) \in [Fd -> Entry]
    BY ParamTypes, FreedOK, Zenon
  <2>3. TablesOK'
    BY <2>1, <2>2, TablesFrom, Zenon DEF TypeInv
  <2>. QED BY <2>1, <2>3, FifosSame, LeaveTypes, Zenon DEF TypeInv, KbufOK
<1>2. CASE WalkClear(p)
  <2>1. /\ life[p] = "live" /\ pc[p] = "clear" /\ SetFds(vic[p], Freed(fds[vic[p]], at[p]))
        /\ at' = [at EXCEPT ![p] = at[p] + 1] /\ Goto(p, "loop")
        /\ UNCHANGED <<workload, fifo, s_files, s_used, life, obj, vic, kbuf>>
    BY <1>2, Zenon DEF WalkClear, At
  <2>2. vic[p] \in Proc /\ fds[vic[p]] \in [Fd -> Entry]
    BY ParamTypes, Zenon
  <2>3. TablesOK'
    BY <2>1, <2>2, FreedOK, TablesFrom, Zenon DEF TypeInv
  <2>4. LocalsOK'
    <3>1. at[p] \in Fd
      BY <2>1, Zenon DEF TypeInv, Resting
    <3>2. at[p] + 1 \in 0..MaxFds /\ "loop" \in Pcs
      BY <3>1, Numbers, Zenon DEF Pcs
    <3>. QED BY <2>1, <3>2, EnterTypes, Zenon DEF TypeInv
  <2>5. Resting'
    <3>1. pc'[p] = "loop" /\ \A q \in Proc \ {p} : pc'[q] = pc[q] /\ at'[q] = at[q]
      BY <2>1, Zenon DEF Goto, TypeInv, LocalsOK
    <3>. QED BY <2>1, <3>1, RestFrom, Zenon DEF TypeInv
  <2>. QED BY <2>1, <2>3, <2>4, <2>5, FifosSame, Zenon DEF TypeInv, KbufOK
<1>. QED BY <1>1, <1>2, Zenon

LEMMA ReadTypes ==
  ASSUME TypeInv, NEW p \in Proc, ReadTry(p)
  PROVE  TypeInv'
<1>1. life[p] = "live" /\ FRead(obj[p], MaxLen) /\ Return(p) /\ UNCHANGED <<workload, fds, s_files, s_used, life, kbuf>>
  BY Zenon DEF ReadTry, At
<1>2. FifosOK'
  BY <1>1, ReadOK, Zenon DEF TypeInv
<1>3. TablesOK'
  BY <1>1, TablesFrom, Zenon DEF TypeInv
<1>. QED BY <1>1, <1>2, <1>3, LeaveTypes, Zenon DEF TypeInv, KbufOK

LEMMA WriteTypes ==
  ASSUME TypeInv, NEW p \in Proc, obj[p] \in Pipes, WriteTry(p)
  PROVE  TypeInv'
<1>1. life[p] = "live" /\ UNCHANGED <<workload, fds, life, s_files, s_used>>
      /\ (Return(p) \/ UNCHANGED <<pc, obj, at, vic>>)
  BY WriteFrame, TypeInvGives, Zenon
<1>2. kbuf[p] \in Seq(Byte)
  BY ParamTypes, Zenon
<1>3. FWrite(obj[p], kbuf[p])
  BY Zenon DEF WriteTry
<1>4. FifosOK'
  BY <1>2, <1>3, WriteOK, Zenon DEF TypeInv
<1>5. TablesOK'
  BY <1>1, TablesFrom, Zenon DEF TypeInv
<1>6. KbufOK'
  <2>1. PICK rest : kbuf' = [kbuf EXCEPT ![p] = rest] /\ (rest = <<>> \/ (rest = Unwritten(kbuf[p], ret'[1]) /\ ~(ret'[1] < 0)))
    BY Zenon DEF WriteTry
  <2>2. CASE rest = <<>>
    <3>1. rest \in Seq(Byte)
      BY <2>2, SeqNone, Zenon
    <3>. QED BY <2>1, <3>1, Zenon DEF TypeInv, KbufOK
  <2>3. CASE rest = Unwritten(kbuf[p], ret'[1]) /\ ~(ret'[1] < 0)
    <3>. DEFINE L == Len(kbuf[p])
                w == Least(L, Cap - Len(fifo[obj[p]].q))
    <3>1. ret'[1] = -1 \/ ret'[1] = w
      <4>1. ret' = <<-1>> \/ ret' = <<w>>
        BY <1>3, Zenon DEF FWrite
      <4>. HIDE DEF w
      <4>. QED BY <4>1, SMTT(20)
    <3>2. L \in Nat /\ w \in Nat
      <4>1. fifo[obj[p]].q \in Seq(Byte) /\ Len(fifo[obj[p]].q) <= Cap
        BY FifoIs, Zenon DEF TypeInv
      <4>2. Len(fifo[obj[p]].q) \in Nat /\ L \in Nat
        BY <1>2, <4>1, SeqLen, Zenon
      <4>3. Cap - Len(fifo[obj[p]].q) \in Nat
        BY <4>1, <4>2, DescConstants, SMTT(20)
      <4>. QED BY <4>2, <4>3, LeastIs, Zenon
    <3>. HIDE DEF w
    <3>3. ret'[1] \in Nat
      BY <2>3, <3>1, <3>2, SMTT(20)
    <3>4. SubSeq(kbuf[p], ret'[1] + 1, L) \in Seq(Byte)
      BY <1>2, <3>2, <3>3, SMTT(20)
    <3>5. rest \in Seq(Byte)
      BY <2>3, <3>4, Zenon DEF Unwritten
    <3>. QED BY <2>1, <3>5, Zenon DEF TypeInv, KbufOK
  <2>. QED BY <2>1, <2>2, <2>3, Zenon
<1>7. CASE Return(p)
  BY <1>1, <1>4, <1>5, <1>6, <1>7, LeaveTypes, Zenon
<1>8. CASE UNCHANGED <<pc, obj, at, vic>>
  <2>1. LocalsOK' /\ Resting'
    BY <1>1, <1>8, Zenon DEF TypeInv, LocalsOK, Resting
  <2>. QED BY <1>4, <1>5, <1>6, <2>1, Zenon DEF TypeInv
<1>. QED BY <1>1, <1>7, <1>8, Zenon

LEMMA SpawnTypes ==
  ASSUME TypeInv, NEW p \in Proc, SpawnFails(p) \/ \E q \in Proc : \E in, out : SpawnChild(p, q, in, out)
  PROVE  TypeInv'
<1>1. CASE SpawnFails(p)
  <2>1. life[p] = "live" /\ s_files' = s_files \ {obj[p]} /\ Return(p)
        /\ UNCHANGED <<workload, fifo, fds, s_used, life, kbuf>>
    BY <1>1, Zenon DEF SpawnFails, At
  <2>2. TablesOK'
    BY <2>1, TablesFrom, Zenon DEF TypeInv
  <2>. QED BY <2>1, <2>2, FifosSame, LeaveTypes, Zenon DEF TypeInv, KbufOK
<1>2. ASSUME NEW q \in Proc, NEW in, NEW out, SpawnChild(p, q, in, out) PROVE TypeInv'
  <2>1. /\ life[p] = "live" /\ s_files' = s_files \ {obj[p]} /\ life' = [life EXCEPT ![q] = "live"]
        /\ SetFds(q, ChildFds(p, in, out)) /\ Return(p) /\ UNCHANGED <<workload, fifo, s_used, kbuf>>
    BY <1>2, Zenon DEF SpawnChild, At
  <2>2. ChildFds(p, in, out) \in [Fd -> Entry]
    BY ChildTypes, TypeInvGives, Zenon
  <2>3. TablesOK'
    BY <2>1, <2>2, TablesFrom, Zenon DEF TypeInv
  <2>4. life'[p] # "none" /\ \A r \in Proc : life'[r] = "none" => life[r] = "none"
    BY <2>1, Zenon DEF TypeInv, TablesOK
  <2>. QED BY <2>1, <2>3, <2>4, FifosSame, LeaveTypes, Zenon DEF TypeInv, KbufOK
<1>. QED BY <1>1, <1>2, Zenon

LEMMA StillOpenIs ==
  ASSUME NEW v, NEW from, StillOpen(v, from) # {}
  PROVE  LET i == Lowest(StillOpen(v, from)) IN i \in Fd /\ i >= from /\ fds[v][i].type # "FD_NONE"
<1>1. StillOpen(v, from) \subseteq Nat
  BY Numbers, Zenon DEF StillOpen
<1>2. Lowest(StillOpen(v, from)) \in StillOpen(v, from)
  BY <1>1, LowestIn, Zenon
<1>. QED BY <1>2, Zenon DEF StillOpen

LEMMA WalkTypes ==
  ASSUME TypeInv, NEW p \in Proc, WalkClose(p) \/ WalkDone(p)
  PROVE  TypeInv'
<1>1. CASE WalkClose(p)
  <2>. DEFINE i == Lowest(StillOpen(vic[p], at[p]))
  <2>1. /\ life[p] = "live" /\ StillOpen(vic[p], at[p]) # {} /\ at' = [at EXCEPT ![p] = i] /\ Goto(p, "clear")
        /\ UNCHANGED <<workload, fds, s_files, s_used, life, obj, vic, kbuf>>
    BY <1>1, Zenon DEF WalkClose, At
  <2>2. i \in Fd
    BY <2>1, StillOpenIs, Zenon
  <2>3. FifosOK'
    <3>1. fifo' = fifo \/ \E x : FCloseRead(x) \/ FCloseWrite(x)
      BY <1>1, Zenon DEF WalkClose
    <3>. QED BY <3>1, FifosSame, CloseEndOK, Zenon DEF TypeInv
  <2>. HIDE DEF i
  <2>4. LocalsOK'
    <3>1. i \in 0..MaxFds /\ "clear" \in Pcs
      BY <2>2, Numbers, Zenon DEF Pcs
    <3>. QED BY <2>1, <3>1, EnterTypes, Zenon DEF TypeInv
  <2>5. Resting'
    <3>1. at'[p] = i /\ \A q \in Proc \ {p} : pc'[q] = pc[q] /\ at'[q] = at[q]
      BY <2>1, Zenon DEF Goto, TypeInv, LocalsOK
    <3>. QED BY <2>1, <2>2, <3>1, RestFrom, Zenon DEF TypeInv
  <2>6. TablesOK'
    BY <2>1, TablesFrom, Zenon DEF TypeInv
  <2>. QED BY <2>1, <2>3, <2>4, <2>5, <2>6, Zenon DEF TypeInv, KbufOK
<1>2. CASE WalkDone(p)
  <2>1. life[p] = "live" /\ life' = [life EXCEPT ![vic[p]] = "dead"] /\ Return(p)
        /\ UNCHANGED <<workload, fifo, fds, s_files, s_used, kbuf>>
    BY <1>2, Zenon DEF WalkDone, At
  <2>2. vic[p] \in Proc
    BY ParamTypes, Zenon
  <2>3. TablesOK'
    BY <2>1, <2>2, TablesFrom, Zenon DEF TypeInv
  <2>4. life'[p] # "none" /\ \A r \in Proc : life'[r] = "none" => life[r] = "none"
    BY <2>1, Zenon DEF TypeInv, TablesOK
  <2>. QED BY <2>1, <2>3, <2>4, FifosSame, LeaveTypes, Zenon DEF TypeInv, KbufOK
<1>. QED BY <1>1, <1>2, Zenon

(* Calls on a pipe hold the index of one, and so do its descriptors. *)
PipeIds ==
  \A p \in Proc :
    /\ pc[p] \in {"pipe", "read", "write"} => obj[p] \in Pipes
    /\ \A f \in Fd : fds[p][f].type \in {"FD_PIPE_READ", "FD_PIPE_WRITE"} => fds[p][f].id \in Pipes

LEMMA TypeStep ==
  ASSUME TypeInv, PipeIds, NEW p \in Proc, DescStep(p)
  PROVE  TypeInv'
<1>1. WriteTry(p) => obj[p] \in Pipes
  BY Zenon DEF WriteTry, At, PipeIds
<1>2. (SysExit(p) \/ \E v \in Proc \ {p} : SysKill(p, v)) => \E v \in Proc : WalkTable(p, v)
  BY Zenon DEF SysExit, SysKill
<1>3. (\E q \in Proc : SpawnChild(p, q, NoFd, NoFd)) => \E q \in Proc : \E in, out : SpawnChild(p, q, in, out)
  BY Zenon
<1>4. (\E fd \in Fd : SysClose(p, fd)) => TypeInv'
  BY CloseTypes, Zenon
<1>. QED BY <1>1, <1>2, <1>3, <1>4, TakeTypes, InstallTypes, EnterTypeInv, ClearTypes, ReadTypes, WriteTypes,
            SpawnTypes, WalkTypes, Zenon DEF DescStep, ProcStep

PipeEntry(e) == e.type \in {"FD_PIPE_READ", "FD_PIPE_WRITE"} => e.id \in Pipes

LEMMA PipeIdsFrom ==
  ASSUME PipeIds, NEW p \in Proc, \A q \in Proc \ {p} : pc'[q] = pc[q] /\ obj'[q] = obj[q],
         pc'[p] \in {"pipe", "read", "write"} => obj'[p] \in Pipes,
         \A q \in Proc, f \in Fd : fds'[q][f] = fds[q][f] \/ PipeEntry(fds'[q][f])
  PROVE  PipeIds'
<1>1. ASSUME NEW q \in Proc PROVE pc'[q] \in {"pipe", "read", "write"} => obj'[q] \in Pipes
  BY Zenon DEF PipeIds
<1>2. ASSUME NEW q \in Proc, NEW f \in Fd PROVE PipeEntry(fds'[q][f])
  BY Zenon DEF PipeIds, PipeEntry
<1>. QED BY <1>1, <1>2, Zenon DEF PipeIds, PipeEntry, Fd

LEMMA PipeIdsLeave ==
  ASSUME TypeInv, PipeIds, NEW p \in Proc, Return(p),
         \A q \in Proc, f \in Fd : fds'[q][f] = fds[q][f] \/ PipeEntry(fds'[q][f])
  PROVE  PipeIds'
<1>1. pc'[p] = "user" /\ \A q \in Proc \ {p} : pc'[q] = pc[q] /\ obj'[q] = obj[q]
  BY ReturnFrame, TypeInvGives, Zenon
<1>. QED BY <1>1, PipeIdsFrom, Zenon

LEMMA PipeIdsInstall ==
  ASSUME TypeInv, PipeIds, NEW p \in Proc, OpenInstall(p) \/ SocketInstall(p) \/ PipeInstall(p) \/ PipeInstallFails(p)
  PROVE  PipeIds'
<1>1. Return(p)
  BY Zenon DEF OpenInstall, SocketInstall, PipeInstall, PipeInstallFails
<1>2. fds' = fds \/ \E tab : SetFds(p, tab)
  BY Zenon DEF OpenInstall, SocketInstall, PipeInstall, PipeInstallFails
<1>3. \A q \in Proc \ {p} : fds'[q] = fds[q]
  BY <1>2, Zenon DEF SetFds, TypeInv, TablesOK
<1>4. ASSUME NEW f \in Fd PROVE fds'[p][f] = fds[p][f] \/ PipeEntry(fds'[p][f])
  <2>1. CASE OpenInstall(p) \/ SocketInstall(p)
    <3>1. CASE fds' = fds
      BY <3>1, Zenon
    <3>2. CASE fds' # fds
      <4>1. PICK from \in {FirstFile, FirstSocket}, type \in {"FD_FILE", "FD_SOCKET"} :
              SetFds(p, Installed(fds[p], from, type, obj[p]))
        <5>1. \/ SetFds(p, Installed(fds[p], FirstFile, "FD_FILE", obj[p]))
              \/ SetFds(p, Installed(fds[p], FirstSocket, "FD_SOCKET", obj[p]))
          BY <2>1, <3>2, Zenon DEF OpenInstall, SocketInstall
        <5>. QED BY <5>1, Zenon
      <4>2. fds[p] \in [Fd -> Entry] /\ fds'[p] = Installed(fds[p], from, type, obj[p])
        BY <4>1, Zenon DEF SetFds, TypeInv, TablesOK
      <4>3. fds'[p][f] = fds[p][f] \/ fds'[p][f].type = type
        <5>. DEFINE new == Installed(fds[p], from, type, obj[p])
        <5>1. new[f] = fds[p][f] \/ new[f].type = type
          BY <4>2, InstalledEntry, SMTT(20)
        <5>. HIDE DEF new
        <5>2. fds'[p] = new
          BY <4>2, Zenon DEF new
        <5>. QED BY <5>1, <5>2, Zenon
      <4>. QED BY <4>1, <4>3, Zenon DEF PipeEntry
    <3>. QED BY <3>1, <3>2, Zenon
  <2>2. CASE PipeInstall(p)
    <3>1. PICK r \in Fd, w \in Fd : EndsAt(p, r, w)
      BY <2>2, PipeInstalled, TypeInvGives, Zenon
    <3>2. fds'[p][r].id = obj[p] /\ fds'[p][w].id = obj[p]
      BY <3>1, SMTT(20) DEF EndsAt
    <3>3. obj[p] \in Pipes
      BY <2>2, Zenon DEF PipeInstall, At, PipeIds
    <3>. QED BY <3>1, <3>2, <3>3, Zenon DEF PipeEntry, EndsAt
  <2>3. CASE PipeInstallFails(p)
    BY <2>3, Zenon DEF PipeInstallFails
  <2>. QED BY <2>1, <2>2, <2>3, Zenon
<1>5. \A q \in Proc, f \in Fd : fds'[q][f] = fds[q][f] \/ PipeEntry(fds'[q][f])
  BY <1>3, <1>4, Zenon
<1>. QED BY <1>1, <1>5, PipeIdsLeave, Zenon

LEMMA PipeIdsEnter ==
  ASSUME TypeInv, PipeIds, NEW p \in Proc,
         SysPipe(p) \/ SysRead(p) \/ (\E data \in Seq(Byte) : SysWrite(p, data)) \/ \E v \in Proc : WalkTable(p, v)
  PROVE  PipeIds'
<1>1. (\A q \in Proc \ {p} : Same(q)) /\ fds' = fds /\ At(p, "user")
  BY EnterActions, TypeInvGives, SMTT(20)
<1>2. \A q \in Proc \ {p} : pc'[q] = pc[q] /\ obj'[q] = obj[q]
  BY <1>1, Zenon DEF Same
<1>3. /\ \A l : Goto(p, l) => pc'[p] = l
      /\ \A x : Hold(p, x) => obj'[p] = x
  BY Zenon DEF Goto, Hold, TypeInv, LocalsOK
<1>4. pc'[p] \in {"pipe", "read", "write"} => obj'[p] \in Pipes
  <2>1. CASE SysPipe(p)
    <3>1. pc' = pc \/ \E i \in Pipes : Hold(p, i)
      BY <2>1, Zenon DEF SysPipe
    <3>. QED BY <1>1, <1>3, <3>1, Zenon DEF At
  <2>2. CASE SysRead(p)
    <3>1. ReadRoute(p, 0) = "pipe" /\ Hold(p, fds[p][0].id)
      BY <2>2, Zenon DEF SysRead, fd_id
    <3>2. 0 \in Fd /\ fds[p][0].type = "FD_PIPE_READ"
      BY <3>1, Numbers, Zenon DEF ReadRoute, fd_type
    <3>. QED BY <1>3, <3>1, <3>2, Zenon DEF PipeIds
  <2>3. CASE \E data \in Seq(Byte) : SysWrite(p, data)
    <3>1. WriteRoute(p, 1) = "pipe" /\ Hold(p, fds[p][1].id)
      BY <2>3, Zenon DEF SysWrite, fd_id
    <3>2. 1 \in Fd /\ fds[p][1].type = "FD_PIPE_WRITE"
      BY <3>1, Numbers, Zenon DEF WriteRoute, fd_type
    <3>. QED BY <1>3, <3>1, <3>2, Zenon DEF PipeIds
  <2>4. ASSUME NEW v \in Proc, WalkTable(p, v) PROVE pc'[p] = "loop"
    BY <1>3, <2>4, Zenon DEF WalkTable
  <2>. QED BY <2>1, <2>2, <2>3, <2>4, Zenon
<1>. QED BY <1>1, <1>2, <1>4, PipeIdsFrom, Zenon

LEMMA PipeIdsSpawn ==
  ASSUME TypeInv, PipeIds, NEW p \in Proc, NEW q \in Proc, NEW in, NEW out, SpawnChild(p, q, in, out)
  PROVE  PipeIds'
<1>1. Return(p) /\ SetFds(q, ChildFds(p, in, out))
  BY Zenon DEF SpawnChild
<1>2. fds'[q] = ChildFds(p, in, out) /\ \A r \in Proc \ {q} : fds'[r] = fds[r]
  BY <1>1, Zenon DEF SetFds, TypeInv, TablesOK
<1>3. ASSUME NEW f \in Fd PROVE PipeEntry(fds'[q][f])
  <2>1. \/ fds'[q][f] = Unused
        \/ fd_type(p, in) = "FD_PIPE_READ" /\ fds'[q][f] = fds[p][in]
        \/ fd_type(p, out) = "FD_PIPE_WRITE" /\ fds'[q][f] = fds[p][out]
    BY <1>2, Zenon DEF ChildFds
  <2>2. PipeEntry(Unused)
    BY UnusedIs, Zenon DEF PipeEntry
  <2>3. ASSUME NEW x, fd_type(p, x) # "FD_NONE" PROVE x \in Fd
    BY <2>3, Zenon DEF fd_type
  <2>4. CASE fd_type(p, in) = "FD_PIPE_READ" /\ fds'[q][f] = fds[p][in]
    BY <2>3, <2>4, Zenon DEF PipeIds, PipeEntry
  <2>5. CASE fd_type(p, out) = "FD_PIPE_WRITE" /\ fds'[q][f] = fds[p][out]
    BY <2>3, <2>5, Zenon DEF PipeIds, PipeEntry
  <2>. QED BY <2>1, <2>2, <2>4, <2>5, Zenon
<1>4. \A r \in Proc, f \in Fd : fds'[r][f] = fds[r][f] \/ PipeEntry(fds'[r][f])
  BY <1>2, <1>3, Zenon
<1>. QED BY <1>1, <1>4, PipeIdsLeave, Zenon

LEMMA PipeIdsOther ==
  ASSUME TypeInv, PipeIds, NEW p \in Proc,
         \/ SysOpen(p) \/ SysSpawn(p) \/ SysSocket(p) \/ (\E fd \in Fd : SysClose(p, fd)) \/ WalkClose(p)
         \/ CloseFree(p) \/ WalkClear(p) \/ ReadTry(p) \/ WriteTry(p) \/ SpawnFails(p) \/ WalkDone(p)
  PROVE  PipeIds'
<1>1. ASSUME NEW l, Goto(p, l) PROVE pc'[p] = l /\ \A q \in Proc \ {p} : pc'[q] = pc[q]
  BY <1>1, Zenon DEF Goto, TypeInv, LocalsOK
<1>2. ASSUME NEW x, Hold(p, x) PROVE \A q \in Proc \ {p} : obj'[q] = obj[q]
  BY <1>2, Zenon DEF Hold, TypeInv, LocalsOK
<1>3. CASE SysOpen(p) \/ SysSpawn(p) \/ SysSocket(p)
  <2>1. fds' = fds /\ (\E x : Hold(p, x)) /\ \E l \in {"open", "spawn", "socket"} : Goto(p, l)
    BY <1>3, Zenon DEF SysOpen, SysSpawn, SysSocket
  <2>2. pc'[p] \notin {"pipe", "read", "write"} /\ \A q \in Proc \ {p} : pc'[q] = pc[q] /\ obj'[q] = obj[q]
    BY <1>1, <1>2, <2>1, Zenon
  <2>. QED BY <2>1, <2>2, PipeIdsFrom, Zenon
<1>4. CASE (\E fd \in Fd : SysClose(p, fd)) \/ WalkClose(p)
  <2>1. fds' = fds /\ obj' = obj /\ \E l \in {"closed", "clear"} : Goto(p, l)
    BY <1>4, Zenon DEF SysClose, WalkClose
  <2>2. pc'[p] \notin {"pipe", "read", "write"} /\ \A q \in Proc \ {p} : pc'[q] = pc[q] /\ obj'[q] = obj[q]
    BY <1>1, <2>1, Zenon
  <2>. QED BY <2>1, <2>2, PipeIdsFrom, Zenon
<1>5. CASE CloseFree(p) \/ WalkClear(p)
  <2>1. PICK v \in Proc : SetFds(v, Freed(fds[v], at[p]))
    <3>1. vic[p] \in Proc
      BY ParamTypes, Zenon
    <3>. QED BY <1>5, <3>1, Zenon DEF CloseFree, WalkClear
  <2>2. /\ \A q \in Proc \ {v} : fds'[q] = fds[q]
        /\ \A f \in Fd : fds'[v][f] = IF f = at[p] THEN Unused ELSE fds[v][f]
    BY <2>1, FreedIs, TypeInvGives, ZenonT(40)
  <2>3. PipeEntry(Unused)
    BY UnusedIs, Zenon DEF PipeEntry
  <2>4. \A q \in Proc, f \in Fd : fds'[q][f] = fds[q][f] \/ PipeEntry(fds'[q][f])
    BY <2>2, <2>3, Zenon
  <2>5. CASE CloseFree(p)
    BY <2>4, <2>5, PipeIdsLeave, Zenon DEF CloseFree
  <2>6. CASE WalkClear(p)
    <3>1. Goto(p, "loop") /\ obj' = obj
      BY <2>6, Zenon DEF WalkClear
    <3>2. pc'[p] = "loop" /\ \A q \in Proc \ {p} : pc'[q] = pc[q] /\ obj'[q] = obj[q]
      BY <1>1, <3>1, Zenon
    <3>. QED BY <2>4, <3>2, PipeIdsFrom, Zenon
  <2>. QED BY <1>5, <2>5, <2>6, Zenon
<1>6. CASE ReadTry(p) \/ SpawnFails(p) \/ WalkDone(p)
  <2>1. Return(p) /\ fds' = fds
    BY <1>6, Zenon DEF ReadTry, SpawnFails, WalkDone
  <2>. QED BY <2>1, PipeIdsLeave, Zenon
<1>7. CASE WriteTry(p)
  <2>1. fds' = fds /\ (Return(p) \/ UNCHANGED <<pc, obj>>)
    BY <1>7, Zenon DEF WriteTry
  <2>2. CASE Return(p)
    BY <2>1, <2>2, PipeIdsLeave, Zenon
  <2>3. CASE UNCHANGED <<pc, obj>>
    BY <2>1, <2>3, Zenon DEF PipeIds
  <2>. QED BY <2>1, <2>2, <2>3, Zenon
<1>. QED BY <1>3, <1>4, <1>5, <1>6, <1>7, Zenon

LEMMA PipeIdsStep ==
  ASSUME TypeInv, PipeIds, NEW p \in Proc, DescStep(p)
  PROVE  PipeIds'
<1>1. (SysExit(p) \/ \E v \in Proc \ {p} : SysKill(p, v)) => \E v \in Proc : WalkTable(p, v)
  BY Zenon DEF SysExit, SysKill
<1>2. (\E q \in Proc : SpawnChild(p, q, NoFd, NoFd)) => \E q \in Proc : \E in, out : SpawnChild(p, q, in, out)
  BY Zenon
<1>3. (\E q \in Proc : \E in, out : SpawnChild(p, q, in, out)) => PipeIds'
  BY PipeIdsSpawn, Zenon
<1>. QED BY <1>1, <1>2, <1>3, PipeIdsInstall, PipeIdsEnter, PipeIdsOther, Zenon DEF DescStep, ProcStep

----------------------------------------------------------------------------
(* The ends of pipes, while no process inherits one and none is killed. *)

EndType == {"FD_PIPE_READ", "FD_PIPE_WRITE"}

Exact(type) == Exclusive(type) /\ Covered(type)

EndsExact == \A type \in EndType : Exact(type)

Steady(type, q, f) ==
  (Refers(type, q, f)' <=> Refers(type, q, f)) /\ (Refers(type, q, f) => Slot(q, f)' = Slot(q, f))

LEMMA SteadyKept ==
  ASSUME NEW type, NEW q, NEW f, Steady(type, q, f)
  PROVE  Kept(type, q, f)
BY Zenon DEF Steady, Kept

LEMMA SteadyExact ==
  ASSUME NEW type, Exact(type), Taken(type)' = Taken(type), \A q \in Proc, f \in Place : Steady(type, q, f)
  PROVE  Exact(type)'
<1>1. Exclusive(type)'
  BY SteadyKept, QuietExclusive, Zenon DEF Exact
<1>2. Covered(type)'
  BY KeepCovered, Zenon DEF Exact, Steady
<1>. QED BY <1>1, <1>2, Zenon DEF Exact

LEMMA SameSteady ==
  ASSUME NEW q, Same(q), NEW type, NEW f
  PROVE  Steady(type, q, f)
BY SameRefs, Zenon DEF Steady

LEMMA CallSteady ==
  ASSUME NEW q \in Proc, NEW type \in EndType, life'[q] = "live" => pc'[q] # "pipe", life[q] = "live" => pc[q] # "pipe"
  PROVE  Steady(type, q, NoFd) /\ ~Refers(type, q, NoFd) /\ ~Refers(type, q, NoFd)'
<1>1. Taking(type) = {"pipe"}
  BY TakingLabels, Zenon DEF EndType
<1>. QED BY <1>1, Zenon DEF Steady, Refers

LEMMA FdSteady ==
  ASSUME NEW q \in Proc, NEW type, NEW f \in Fd, life'[q] = life[q],
         \/ fds'[q][f] = fds[q][f] /\ (BeingClosed(q, f)' <=> BeingClosed(q, f))
         \/ fds'[q][f].type # type /\ (BeingClosed(q, f) \/ fds[q][f].type # type)
  PROVE  Steady(type, q, f)
<1>1. f # NoFd
  BY Numbers, Zenon
<1>. QED BY <1>1, Zenon DEF Steady, Refers, Slot

LEMMA NotClosing ==
  ASSUME NEW p, pc[p] \notin {"closed", "clear"}, NEW f
  PROVE  ~BeingClosed(p, f)
BY Zenon DEF BeingClosed

LEMMA NotClosingNext ==
  ASSUME NEW p, pc'[p] \notin {"closed", "clear"}, NEW f
  PROVE  ~BeingClosed(p, f)'
BY Zenon DEF BeingClosed

LEMMA TakenSame ==
  ASSUME fifo' = fifo, NEW type \in EndType
  PROVE  Taken(type)' = Taken(type)
BY Zenon DEF Taken, Ended, EndType

(* A step of one process between calls that hold no pipe. *)
LEMMA QuietEnds ==
  ASSUME EndsExact, NEW p \in Proc, \A q \in Proc \ {p} : Same(q), life'[p] = life[p], fifo' = fifo,
         pc[p] \notin {"pipe", "closed", "clear"}, pc'[p] \notin {"pipe", "closed", "clear"},
         \A f \in Fd : fds'[p][f] = fds[p][f] \/ (fds[p][f].type \notin EndType /\ fds'[p][f].type \notin EndType)
  PROVE  EndsExact'
<1>1. ASSUME NEW type \in EndType PROVE Exact(type)'
  <2>1. Steady(type, p, NoFd)
    BY CallSteady, Zenon
  <2>2. ASSUME NEW f \in Fd PROVE Steady(type, p, f)
    <3>1. ~BeingClosed(p, f) /\ ~BeingClosed(p, f)'
      BY NotClosing, NotClosingNext, Zenon
    <3>. QED BY <3>1, FdSteady, Zenon
  <2>3. \A q \in Proc, f \in Place : Steady(type, q, f)
    BY <2>1, <2>2, SameSteady, Zenon DEF Place
  <2>. QED BY <2>3, TakenSame, SteadyExact, Zenon DEF EndsExact
<1>. QED BY <1>1, Zenon DEF EndsExact, EndType

LEMMA ClearEnds ==
  ASSUME EndsExact, NEW p \in Proc, \A q \in Proc \ {p} : Same(q), life'[p] = life[p], fifo' = fifo,
         pc[p] \in {"closed", "clear"}, vic[p] = p, pc'[p] \in {"user", "loop"},
         \A f \in Fd : fds'[p][f] = IF f = at[p] THEN Unused ELSE fds[p][f]
  PROVE  EndsExact'
<1>1. ASSUME NEW type \in EndType PROVE Exact(type)'
  <2>1. Steady(type, p, NoFd)
    BY CallSteady, Zenon
  <2>2. ASSUME NEW f \in Fd PROVE Steady(type, p, f)
    <3>1. ~BeingClosed(p, f)'
      BY NotClosingNext, Zenon
    <3>2. BeingClosed(p, f) <=> f = at[p]
      BY Zenon DEF BeingClosed
    <3>3. CASE f = at[p]
      <4>1. fds'[p][f].type # type
        BY <3>3, UnusedIs, Zenon DEF EndType
      <4>. QED BY <3>2, <3>3, <4>1, FdSteady, Zenon
    <3>4. CASE f # at[p]
      BY <3>1, <3>2, <3>4, FdSteady, Zenon
    <3>. QED BY <3>3, <3>4, Zenon
  <2>3. \A q \in Proc, f \in Place : Steady(type, q, f)
    BY <2>1, <2>2, SameSteady, Zenon DEF Place
  <2>. QED BY <2>3, TakenSame, SteadyExact, Zenon DEF EndsExact
<1>. QED BY <1>1, Zenon DEF EndsExact, EndType

(* What pipe.c does to the ends that are open. *)
LEMMA TakenPipe ==
  ASSUME FifosOK
  PROVE  /\ \A i : i \in Taken("FD_PIPE_READ") <=> i \in Pipes /\ fifo[i].in_use /\ ~fifo[i].read_closed
         /\ \A i : i \in Taken("FD_PIPE_WRITE") <=> i \in Pipes /\ fifo[i].in_use /\ ~fifo[i].write_closed
         /\ \A i : i \in Taken("FD_PIPE_READ")' <=> i \in Pipes /\ fifo'[i].in_use /\ ~fifo'[i].read_closed
         /\ \A i : i \in Taken("FD_PIPE_WRITE")' <=> i \in Pipes /\ fifo'[i].in_use /\ ~fifo'[i].write_closed
BY Zenon DEF Taken, Ended

LEMMA AllocTakes ==
  ASSUME FifosOK, NEW i \in Pipes, FAlloc(i), NEW type \in EndType
  PROVE  Taken(type)' = Taken(type) \cup {i} /\ i \notin Taken(type)
<1>1. fifo \in [Pipes -> PipeRec] /\ ~fifo[i].in_use
  BY Zenon DEF FifosOK, FifoTypes, PipeRec, FAlloc
<1>2. /\ fifo'[i] = [in_use |-> TRUE, q |-> <<>>, write_closed |-> FALSE, read_closed |-> FALSE]
      /\ \A j \in Pipes : j # i => fifo'[j] = fifo[j]
  BY <1>1, Zenon DEF FAlloc
<1>3. fifo'[i].in_use /\ ~fifo'[i].read_closed /\ ~fifo'[i].write_closed
  BY <1>2, SMTT(20)
<1>4. i \notin Taken(type)
  BY <1>1, TakenPipe, Zenon DEF EndType
<1>5. ASSUME NEW j PROVE j \in Taken(type)' <=> j \in Taken(type) \/ j = i
  <2>1. CASE type = "FD_PIPE_READ"
    BY <1>2, <1>3, <2>1, TakenPipe, Zenon
  <2>2. CASE type = "FD_PIPE_WRITE"
    BY <1>2, <1>3, <2>2, TakenPipe, Zenon
  <2>. QED BY <2>1, <2>2, Zenon DEF EndType
<1>. QED BY <1>4, <1>5, Zenon

LEMMA UndoTakes ==
  ASSUME FifosOK, NEW p, obj[p] \in Pipes, PipeUndo(p), NEW type \in EndType
  PROVE  Taken(type)' = Taken(type) \ {obj[p]}
<1>. DEFINE i == obj[p]
<1>1. fifo \in [Pipes -> PipeRec]
  BY Zenon DEF FifosOK, FifoTypes, PipeRec
<1>2. /\ fifo'[i] = Holding(fifo[i], FALSE, fifo[i].q)
      /\ \A j \in Pipes : j # i => fifo'[j] = fifo[j]
  BY <1>1, Zenon DEF PipeUndo
<1>3. ~fifo'[i].in_use
  BY <1>2, SMTT(20) DEF Holding
<1>. HIDE DEF i
<1>4. ASSUME NEW j PROVE j \in Taken(type)' <=> j \in Taken(type) /\ j # i
  <2>1. CASE type = "FD_PIPE_READ"
    BY <1>2, <1>3, <2>1, TakenPipe, Zenon
  <2>2. CASE type = "FD_PIPE_WRITE"
    BY <1>2, <1>3, <2>2, TakenPipe, Zenon
  <2>. QED BY <2>1, <2>2, Zenon DEF EndType
<1>. QED BY <1>4, Zenon DEF i

LEMMA CloseReadTakes ==
  ASSUME FifosOK, NEW i \in Pipes, FCloseRead(i)
  PROVE  /\ Taken("FD_PIPE_READ")' = Taken("FD_PIPE_READ") \ {i}
         /\ Taken("FD_PIPE_WRITE")' = Taken("FD_PIPE_WRITE")
<1>1. CASE ~fifo[i].in_use
  <2>1. fifo' = fifo
    BY <1>1, Zenon DEF FCloseRead
  <2>2. i \notin Taken("FD_PIPE_READ")
    BY <1>1, TakenPipe, Zenon
  <2>3. Taken("FD_PIPE_READ")' = Taken("FD_PIPE_READ") /\ Taken("FD_PIPE_WRITE")' = Taken("FD_PIPE_WRITE")
    BY <2>1, TakenSame, Zenon DEF EndType
  <2>. QED BY <2>2, <2>3, Zenon
<1>2. CASE fifo[i].in_use
  <2>1. fifo \in [Pipes -> PipeRec]
    BY Zenon DEF FifosOK, FifoTypes, PipeRec
  <2>2. fifo'[i] = Ends(fifo[i], fifo[i].write_closed, TRUE) /\ \A j \in Pipes : j # i => fifo'[j] = fifo[j]
    BY <1>2, <2>1, Zenon DEF FCloseRead
  <2>3. /\ fifo'[i].in_use = ~(fifo[i].write_closed /\ TRUE) /\ fifo'[i].read_closed = TRUE
        /\ fifo'[i].write_closed = fifo[i].write_closed
    BY <2>2, SMTT(20) DEF Ends
  <2>4. ASSUME NEW j PROVE j \in Taken("FD_PIPE_READ")' <=> j \in Taken("FD_PIPE_READ") /\ j # i
    BY <2>2, <2>3, TakenPipe, Zenon
  <2>5. ASSUME NEW j PROVE j \in Taken("FD_PIPE_WRITE")' <=> j \in Taken("FD_PIPE_WRITE")
    BY <1>2, <2>2, <2>3, TakenPipe, Zenon
  <2>. QED BY <2>4, <2>5, Zenon
<1>. QED BY <1>1, <1>2, Zenon

LEMMA CloseWriteTakes ==
  ASSUME FifosOK, NEW i \in Pipes, FCloseWrite(i)
  PROVE  /\ Taken("FD_PIPE_WRITE")' = Taken("FD_PIPE_WRITE") \ {i}
         /\ Taken("FD_PIPE_READ")' = Taken("FD_PIPE_READ")
<1>1. CASE ~fifo[i].in_use
  <2>1. fifo' = fifo
    BY <1>1, Zenon DEF FCloseWrite
  <2>2. i \notin Taken("FD_PIPE_WRITE")
    BY <1>1, TakenPipe, Zenon
  <2>3. Taken("FD_PIPE_READ")' = Taken("FD_PIPE_READ") /\ Taken("FD_PIPE_WRITE")' = Taken("FD_PIPE_WRITE")
    BY <2>1, TakenSame, Zenon DEF EndType
  <2>. QED BY <2>2, <2>3, Zenon
<1>2. CASE fifo[i].in_use
  <2>1. fifo \in [Pipes -> PipeRec]
    BY Zenon DEF FifosOK, FifoTypes, PipeRec
  <2>2. fifo'[i] = Ends(fifo[i], TRUE, fifo[i].read_closed) /\ \A j \in Pipes : j # i => fifo'[j] = fifo[j]
    BY <1>2, <2>1, Zenon DEF FCloseWrite
  <2>3. /\ fifo'[i].in_use = ~(TRUE /\ fifo[i].read_closed) /\ fifo'[i].write_closed = TRUE
        /\ fifo'[i].read_closed = fifo[i].read_closed
    BY <2>2, SMTT(20) DEF Ends
  <2>4. ASSUME NEW j PROVE j \in Taken("FD_PIPE_WRITE")' <=> j \in Taken("FD_PIPE_WRITE") /\ j # i
    BY <2>2, <2>3, TakenPipe, Zenon
  <2>5. ASSUME NEW j PROVE j \in Taken("FD_PIPE_READ")' <=> j \in Taken("FD_PIPE_READ")
    BY <1>2, <2>2, <2>3, TakenPipe, Zenon
  <2>. QED BY <2>4, <2>5, Zenon
<1>. QED BY <1>1, <1>2, Zenon

(* pipe_alloc: the call stands for both ends ... *)
LEMMA AllocEnds ==
  ASSUME DescTypeOK, FifosOK, EndsExact, NEW p \in Proc, \A q \in Proc \ {p} : Same(q), UNCHANGED <<fds, life>>,
         life[p] = "live", pc[p] = "user", pc'[p] = "pipe", NEW i \in Pipes, FAlloc(i), obj'[p] = i
  PROVE  EndsExact'
<1>1. ASSUME NEW type \in EndType PROVE Exact(type)'
  <2>1. Taken(type)' = Taken(type) \cup {i} /\ i \notin Taken(type) /\ Exact(type)
    BY AllocTakes, Zenon DEF EndsExact
  <2>2. ASSUME NEW f \in Fd PROVE Steady(type, p, f)
    <3>1. ~BeingClosed(p, f) /\ ~BeingClosed(p, f)'
      BY NotClosing, NotClosingNext, Zenon
    <3>. QED BY <3>1, FdSteady, Zenon
  <2>3. \A q \in Proc, f \in Place : ~(q = p /\ f = NoFd) => Steady(type, q, f)
    BY <2>2, SameSteady, Zenon DEF Place
  <2>4. /\ NoFd \in Place /\ ~Refers(type, p, NoFd) /\ Refers(type, p, NoFd)' /\ Slot(p, NoFd)' = i
    BY TakingLabels, Zenon DEF Refers, Slot, Place, EndType
  <2>5. Exclusive(type)'
    <3>1. \A q \in Proc, f \in Place : ~(q = p /\ f = NoFd) => Kept(type, q, f)
      BY <2>3, SteadyKept, Zenon
    <3>. QED BY <2>1, <3>1, TakeExclusive, Zenon DEF Exact
  <2>6. Covered(type)'
    <3>1. ASSUME NEW q \in Proc, NEW f \in Place, Refers(type, q, f)
          PROVE  Refers(type, q, f)' /\ Slot(q, f)' = Slot(q, f)
      BY <2>3, <2>4, <3>1, Zenon DEF Steady
    <3>. QED BY <2>1, <2>4, <3>1, AddCovered, Zenon DEF Exact
  <2>. QED BY <2>5, <2>6, Zenon DEF Exact
<1>. QED BY <1>1, Zenon DEF EndsExact, EndType

(* ... gives them back ... *)
LEMMA UndoEnds ==
  ASSUME DescTypeOK, FifosOK, EndsExact, NEW p \in Proc, \A q \in Proc \ {p} : Same(q), UNCHANGED <<fds, life>>,
         life[p] = "live", pc[p] = "pipe", pc'[p] = "user", obj[p] \in Pipes, PipeUndo(p)
  PROVE  EndsExact'
<1>1. ASSUME NEW type \in EndType PROVE Exact(type)'
  <2>1. Taken(type)' = Taken(type) \ {obj[p]} /\ Exact(type) /\ pc[p] \in Taking(type)
    BY UndoTakes, TakingLabels, Zenon DEF EndsExact, EndType
  <2>2. ASSUME NEW f \in Fd PROVE Steady(type, p, f)
    <3>1. ~BeingClosed(p, f) /\ ~BeingClosed(p, f)'
      BY NotClosing, NotClosingNext, Zenon
    <3>. QED BY <3>1, FdSteady, Zenon
  <2>3. \A q \in Proc, f \in Place : ~(q = p /\ f = NoFd) => Steady(type, q, f)
    BY <2>2, SameSteady, Zenon DEF Place
  <2>4. Exclusive(type)'
    <3>1. \A q \in Proc \ {p}, f \in Place : Kept(type, q, f)
      BY SameRefs, Zenon
    <3>. QED BY <2>1, <3>1, LeaveDrop, Zenon DEF Exact
  <2>5. Covered(type)'
    <3>1. ASSUME NEW q \in Proc, NEW f \in Place, Refers(type, q, f), Slot(q, f) \in Taken(type)'
          PROVE  Refers(type, q, f)' /\ Slot(q, f)' = Slot(q, f)
      <4>1. ~(q = p /\ f = NoFd)
        BY <2>1, <3>1, Zenon DEF Slot
      <4>. QED BY <2>3, <3>1, <4>1, Zenon DEF Steady
    <3>. QED BY <2>1, <3>1, KeepCovered, Zenon DEF Exact
  <2>. QED BY <2>4, <2>5, Zenon DEF Exact
<1>. QED BY <1>1, Zenon DEF EndsExact, EndType

(* ... or hands one to each of two descriptors. *)
LEMMA InstallEnds ==
  ASSUME DescTypeOK, EndsExact, NEW p \in Proc, \A q \in Proc \ {p} : Same(q), UNCHANGED <<fifo, life>>,
         life[p] = "live", pc[p] = "pipe", pc'[p] = "user", NEW r \in Fd, NEW w \in Fd, EndsAt(p, r, w)
  PROVE  EndsExact'
<1>1. /\ fds'[p][r].type = "FD_PIPE_READ" /\ fds'[p][r].id = obj[p]
      /\ fds'[p][w].type = "FD_PIPE_WRITE" /\ fds'[p][w].id = obj[p]
  BY SMTT(20) DEF EndsAt
<1>2. /\ fds[p][r].type = "FD_NONE" /\ fds[p][w].type = "FD_NONE"
      /\ \A f \in Fd : f \notin {r, w} => fds'[p][f] = fds[p][f]
  BY Zenon DEF EndsAt
<1>3. ASSUME NEW type \in EndType, NEW g \in {r, w}, fds'[p][g].type = type, fds'[p][g].id = obj[p],
             \A f \in {r, w} : f # g => fds'[p][f].type # type
      PROVE  Exact(type)'
  <2>1. Exact(type) /\ Taken(type)' = Taken(type) /\ pc[p] \in Taking(type) /\ pc'[p] \notin Taking(type)
    BY TakenSame, TakingLabels, Zenon DEF EndsExact, EndType
  <2>2. \A f \in Fd : ~BeingClosed(p, f) /\ ~BeingClosed(p, f)'
    BY NotClosing, NotClosingNext, Zenon
  <2>3. ASSUME NEW f \in Fd, f # g PROVE Steady(type, p, f)
    <3>1. CASE f \in {r, w}
      <4>1. fds[p][f].type # type /\ fds'[p][f].type # type
        BY <1>2, <1>3, <2>3, <3>1, Zenon DEF EndType
      <4>. QED BY <4>1, FdSteady, Zenon
    <3>2. CASE f \notin {r, w}
      BY <1>2, <2>2, <3>2, FdSteady, Zenon
    <3>. QED BY <3>1, <3>2, Zenon
  <2>4. ASSUME NEW q \in Proc, NEW f \in Place, ~(q = p /\ f \in {g, NoFd}) PROVE Steady(type, q, f)
    BY <2>3, <2>4, SameSteady, Zenon DEF Place
  <2>5. g \in Fd /\ g \in Place /\ g # NoFd
    BY Numbers, Zenon DEF Place
  <2>6. /\ Refers(type, p, NoFd) /\ ~Refers(type, p, NoFd)' /\ Slot(p, NoFd) = obj[p]
        /\ Refers(type, p, g)' /\ Slot(p, g)' = obj[p] /\ ~Refers(type, p, g)
    <3>1. fds[p][g].type # type
      BY <1>2, Zenon DEF EndType
    <3>. QED BY <1>3, <2>1, <2>2, <2>5, <3>1, Zenon DEF Refers, Slot
  <2>7. Exclusive(type)'
    <3>1. \A q \in Proc, f \in Place : ~(q = p /\ f \in {g, NoFd}) => Kept(type, q, f)
      BY <2>4, SteadyKept, Zenon
    <3>. QED BY <1>3, <2>1, <2>5, <2>6, <3>1, MoveExclusive, Zenon DEF Exact
  <2>8. Covered(type)'
    <3>1. ASSUME NEW q \in Proc, NEW f \in Place, Refers(type, q, f), Slot(q, f) # Slot(p, g)'
          PROVE  Refers(type, q, f)' /\ Slot(q, f)' = Slot(q, f)
      <4>1. ~(q = p /\ f \in {g, NoFd})
        BY <2>6, <3>1, Zenon
      <4>. QED BY <2>4, <3>1, <4>1, Zenon DEF Steady
    <3>. QED BY <2>1, <2>5, <2>6, <3>1, AddCovered, Zenon DEF Exact
  <2>. QED BY <2>7, <2>8, Zenon DEF Exact
<1>4. Exact("FD_PIPE_READ")'
  <2>1. \A f \in {r, w} : f # r => fds'[p][f].type # "FD_PIPE_READ"
    BY <1>1, Zenon
  <2>. QED BY <1>1, <1>3, <2>1, Zenon DEF EndType
<1>5. Exact("FD_PIPE_WRITE")'
  <2>1. \A f \in {r, w} : f # w => fds'[p][f].type # "FD_PIPE_WRITE"
    BY <1>1, Zenon
  <2>. QED BY <1>1, <1>3, <2>1, Zenon DEF EndType
<1>. QED BY <1>4, <1>5, Zenon DEF EndsExact, EndType

(* An end is closed while its entry is still there; the entry no longer counts. *)
LEMMA CloseEnds ==
  ASSUME DescTypeOK, FifosOK, PipeIds, EndsExact, NEW p \in Proc, \A q \in Proc \ {p} : Same(q),
         UNCHANGED <<fds, life>>, life[p] = "live", pc[p] \in {"user", "loop"}, pc'[p] \in {"closed", "clear"},
         NEW g \in Fd, at'[p] = g, vic'[p] = p,
         \/ fds[p][g].type = "FD_PIPE_READ" /\ FCloseRead(fds[p][g].id)
         \/ fds[p][g].type = "FD_PIPE_WRITE" /\ FCloseWrite(fds[p][g].id)
         \/ fds[p][g].type \in {"FD_SOCKET", "FD_FILE"} /\ fifo' = fifo
  PROVE  EndsExact'
<1>1. ASSUME NEW type \in EndType PROVE Exact(type)'
  <2>1. ASSUME NEW f \in Fd, f # g \/ fds[p][f].type # type PROVE Steady(type, p, f)
    <3>1. CASE fds[p][f].type # type
      BY <3>1, FdSteady, Zenon
    <3>2. CASE f # g
      <4>1. ~BeingClosed(p, f) /\ ~BeingClosed(p, f)'
        BY <3>2, Zenon DEF BeingClosed
      <4>. QED BY <4>1, FdSteady, Zenon
    <3>. QED BY <2>1, <3>1, <3>2, Zenon
  <2>2. Steady(type, p, NoFd)
    BY CallSteady, Zenon
  <2>3. CASE fds[p][g].type # type
    <3>1. \A q \in Proc, f \in Place : Steady(type, q, f)
      BY <2>1, <2>2, <2>3, SameSteady, Zenon DEF Place
    <3>2. Taken(type)' = Taken(type)
      <4>1. fds[p][g].type \in EndType => fds[p][g].id \in Pipes
        BY Zenon DEF PipeIds, EndType
      <4>. QED BY <2>3, <4>1, CloseReadTakes, CloseWriteTakes, TakenSame, Zenon DEF EndType
    <3>. QED BY <3>1, <3>2, SteadyExact, Zenon DEF EndsExact
  <2>4. CASE fds[p][g].type = type
    <3>1. g # NoFd /\ g \in Place
      BY Numbers, Zenon DEF Place
    <3>2. Refers(type, p, g) /\ ~Refers(type, p, g)' /\ Slot(p, g) = fds[p][g].id
      BY <2>4, <3>1, Zenon DEF Refers, Slot, BeingClosed
    <3>3. Taken(type)' = Taken(type) \ {fds[p][g].id}
      <4>1. fds[p][g].id \in Pipes
        BY <2>4, Zenon DEF PipeIds, EndType
      <4>. QED BY <2>4, <4>1, CloseReadTakes, CloseWriteTakes, Zenon DEF EndType
    <3>4. ASSUME NEW q \in Proc, NEW f \in Place, ~(q = p /\ f = g) PROVE Steady(type, q, f)
      BY <2>1, <2>2, <3>4, SameSteady, ZenonT(40) DEF Place
    <3>5. Exclusive(type)'
      <4>1. Kept(type, p, g)
        BY <3>2, Zenon DEF Kept
      <4>2. \A q \in Proc, f \in Place : Kept(type, q, f)
        BY <3>4, <4>1, SteadyKept, Zenon
      <4>3. Exclusive(type)
        BY Zenon DEF EndsExact, Exact
      <4>. QED BY <3>1, <3>2, <3>3, <4>2, <4>3, DropExclusive, Zenon
    <3>6. Covered(type)'
      <4>1. ASSUME NEW q \in Proc, NEW f \in Place, Refers(type, q, f), Slot(q, f) \in Taken(type)'
            PROVE  Refers(type, q, f)' /\ Slot(q, f)' = Slot(q, f)
        <5>1. ~(q = p /\ f = g)
          BY <3>2, <3>3, <4>1, Zenon
        <5>. QED BY <3>4, <4>1, <5>1, Zenon DEF Steady
      <4>2. Covered(type)
        BY Zenon DEF EndsExact, Exact
      <4>. QED BY <3>3, <4>1, <4>2, KeepCovered, Zenon
    <3>. QED BY <3>5, <3>6, Zenon DEF Exact
  <2>. QED BY <2>3, <2>4, Zenon
<1>. QED BY <1>1, Zenon DEF EndsExact, EndType

(* A child without inherited ends refers to none, and a process that is done either. *)
LEMMA LifeEnds ==
  ASSUME EndsExact, fifo' = fifo, NEW p \in Proc, NEW v \in Proc, \A q \in Proc \ {p, v} : Same(q),
         v # p => life'[p] = life[p],
         pc[p] \notin {"pipe", "closed", "clear"}, pc'[p] = "user", fds'[p] = fds[p] \/ v = p,
         \A f \in Fd : /\ life[v] = "live" => fds[v][f].type \notin EndType
                       /\ life'[v] = "live" => fds'[v][f].type \notin EndType,
         life[v] = "live" => pc[v] # "pipe", life'[v] = "live" => pc'[v] # "pipe"
  PROVE  EndsExact'
<1>1. ASSUME NEW type \in EndType PROVE Exact(type)'
  <2>1. ASSUME NEW f \in Place PROVE Steady(type, v, f)
    <3>1. CASE f = NoFd
      BY <3>1, CallSteady, Zenon
    <3>2. CASE f \in Fd
      <4>1. ~Refers(type, v, f) /\ ~Refers(type, v, f)'
        BY <3>2, Numbers, Zenon DEF Refers
      <4>. QED BY <4>1, Zenon DEF Steady
    <3>. QED BY <3>1, <3>2, Zenon DEF Place
  <2>2. ASSUME NEW f \in Place, v # p PROVE Steady(type, p, f)
    <3>1. CASE f = NoFd
      BY <3>1, CallSteady, Zenon
    <3>2. CASE f \in Fd
      <4>1. ~BeingClosed(p, f) /\ ~BeingClosed(p, f)'
        BY NotClosing, NotClosingNext, Zenon
      <4>. QED BY <2>2, <3>2, <4>1, FdSteady, Zenon
    <3>. QED BY <3>1, <3>2, Zenon DEF Place
  <2>3. \A q \in Proc, f \in Place : Steady(type, q, f)
    BY <2>1, <2>2, SameSteady, Zenon
  <2>. QED BY <2>3, TakenSame, SteadyExact, Zenon DEF EndsExact
<1>. QED BY <1>1, Zenon DEF EndsExact, EndType

(* What the walk over a table has passed is closed. *)
LEMMA PassedEntries ==
  ASSUME DescTypeOK, NEW p \in Proc, Walked(p), pc[p] = "loop", NEW f \in Fd,
         StillOpen(p, at[p]) = {} \/ f < Lowest(StillOpen(p, at[p]))
  PROVE  fds[p][f].type = "FD_NONE"
<1>1. f < at[p] => fds[p][f].type = "FD_NONE"
  BY Zenon DEF Walked
<1>2. f \in Nat /\ at[p] \in Nat
  <2>1. at[p] \in 0..MaxFds /\ f \in Nat
    BY Numbers, Zenon DEF DescTypeOK
  <2>. QED BY <2>1, DescConstants, SMTT(20)
<1>3. f >= at[p] /\ fds[p][f].type # "FD_NONE" => f \in StillOpen(p, at[p])
  BY Zenon DEF StillOpen
<1>4. f \in StillOpen(p, at[p]) => Lowest(StillOpen(p, at[p])) <= f /\ Lowest(StillOpen(p, at[p])) \in Nat
  <2>1. StillOpen(p, at[p]) \subseteq Nat
    BY Numbers, Zenon DEF StillOpen
  <2>. QED BY <2>1, LowestIn, Zenon
<1>5. f \notin StillOpen(p, at[p])
  <2>. DEFINE i == Lowest(StillOpen(p, at[p]))
  <2>1. ASSUME f < i, i <= f, i \in Nat PROVE FALSE
    BY <1>2, <2>1, SMTT(20)
  <2>. QED BY <1>4, <2>1, ZenonT(40)
<1>6. ~(f < at[p]) => f >= at[p]
  BY <1>2, SMTT(20)
<1>. QED BY <1>1, <1>3, <1>5, <1>6, Zenon

LEMMA WalkedSame ==
  ASSUME NEW q \in Proc, Walked(q), Same(q)
  PROVE  Walked(q)'
BY Zenon DEF Walked, Same

LEMMA WalkedIdle ==
  ASSUME NEW q \in Proc, vic'[q] = q, pc'[q] \notin {"loop", "clear"}
  PROVE  Walked(q)'
BY Zenon DEF Walked

(* The steps of a process that is not walking a table. *)
LEMMA CallEnds ==
  ASSUME TypeInv, PipeIds, EndsExact, \A q \in Proc : Walked(q), NEW p \in Proc,
         \/ SysOpen(p) \/ SysSpawn(p) \/ SysSocket(p) \/ SysPipe(p)
         \/ OpenInstall(p) \/ SocketInstall(p) \/ PipeInstall(p) \/ PipeInstallFails(p) \/ SpawnFails(p)
  PROVE  EndsExact' /\ \A q \in Proc : Walked(q)'
<1>0. DescTypeOK
  BY TypeInvGives, Zenon
<1>1. vic[p] = p
  BY Zenon DEF Walked
<1>2. ASSUME \A q \in Proc \ {p} : Same(q), vic'[p] = p, pc'[p] \notin {"loop", "clear"}
      PROVE  \A q \in Proc : Walked(q)'
  BY <1>2, WalkedSame, WalkedIdle, Zenon
<1>3. ASSUME NEW l, Goto(p, l) PROVE pc'[p] = l
  BY <1>3, Zenon DEF Goto, TypeInv, LocalsOK
<1>4. CASE SysOpen(p) \/ SysSpawn(p) \/ SysSocket(p)
  <2>1. /\ At(p, "user") /\ UNCHANGED <<fifo, fds, life, at, vic>>
        /\ (\E x : Hold(p, x)) /\ \E l \in {"open", "spawn", "socket"} : Goto(p, l)
    BY <1>4, Zenon DEF SysOpen, SysSpawn, SysSocket
  <2>2. \A q \in Proc \ {p} : Same(q)
    BY <1>0, <2>1, EnterSame, Zenon
  <2>3. pc'[p] \in {"open", "spawn", "socket"}
    BY <1>3, <2>1, Zenon
  <2>4. EndsExact'
    BY <2>1, <2>2, <2>3, QuietEnds, Zenon DEF At
  <2>. QED BY <1>1, <1>2, <2>1, <2>2, <2>3, <2>4, Zenon
<1>5. CASE SysPipe(p)
  <2>1. At(p, "user") /\ UNCHANGED <<fds, life, at, vic>>
    BY <1>5, Zenon DEF SysPipe
  <2>2. CASE pc' = pc /\ obj' = obj /\ fifo' = fifo
    <3>1. \A q \in Proc \ {p} : Same(q)
      BY <2>1, <2>2, Zenon DEF Same
    <3>2. pc[p] = "user" /\ pc'[p] = "user"
      BY <2>1, <2>2, Zenon DEF At
    <3>3. EndsExact'
      BY <2>1, <2>2, <3>1, <3>2, QuietEnds, Zenon
    <3>. QED BY <1>1, <1>2, <2>1, <3>1, <3>2, <3>3, Zenon
  <2>3. CASE ~(pc' = pc /\ obj' = obj /\ fifo' = fifo)
    <3>1. PICK i \in Pipes : FAlloc(i) /\ Hold(p, i) /\ Goto(p, "pipe")
      BY <1>5, <2>3, Zenon DEF SysPipe, FNone
    <3>2. \A q \in Proc \ {p} : Same(q)
      BY <1>0, <2>1, <3>1, EnterSame, Zenon
    <3>3. pc'[p] = "pipe" /\ obj'[p] = i /\ life[p] = "live" /\ pc[p] = "user"
      BY <2>1, <3>1, Zenon DEF Goto, Hold, TypeInv, LocalsOK, At
    <3>4. EndsExact'
      BY <1>0, <2>1, <3>1, <3>2, <3>3, AllocEnds, Zenon DEF TypeInv
    <3>. QED BY <1>1, <1>2, <2>1, <3>2, <3>3, <3>4, Zenon
  <2>. QED BY <2>2, <2>3, Zenon
<1>6. ASSUME Return(p), life' = life, fds' = fds \/ \E tab : SetFds(p, tab)
      PROVE  (\A q \in Proc \ {p} : Same(q)) /\ pc'[p] = "user" /\ \A q \in Proc : Walked(q)'
  <2>1. (\A q \in Proc \ {p} : Same(q)) /\ pc'[p] = "user" /\ vic'[p] = p
    BY <1>0, <1>6, ReturnFrame, ReturnSame, Zenon
  <2>. QED BY <1>2, <2>1, Zenon
<1>7. CASE SpawnFails(p)
  <2>1. life[p] = "live" /\ pc[p] = "spawn" /\ Return(p) /\ UNCHANGED <<life, fds, fifo>>
    BY <1>7, Zenon DEF SpawnFails, At
  <2>. QED BY <1>6, <2>1, QuietEnds, Zenon
<1>8. CASE PipeInstallFails(p)
  <2>1. life[p] = "live" /\ pc[p] = "pipe" /\ Return(p) /\ UNCHANGED <<life, fds>> /\ PipeUndo(p)
    BY <1>8, Zenon DEF PipeInstallFails, At
  <2>2. obj[p] \in Pipes
    BY <2>1, Zenon DEF PipeIds
  <2>. QED BY <1>0, <1>6, <2>1, <2>2, UndoEnds, Zenon DEF TypeInv
<1>9. CASE PipeInstall(p)
  <2>1. life[p] = "live" /\ pc[p] = "pipe" /\ Return(p) /\ UNCHANGED <<life, fifo>> /\ \E tab : SetFds(p, tab)
    BY <1>9, Zenon DEF PipeInstall, At
  <2>2. PICK r \in Fd, w \in Fd : EndsAt(p, r, w)
    BY <1>0, <1>9, PipeInstalled, Zenon
  <2>. QED BY <1>0, <1>6, <2>1, <2>2, InstallEnds, Zenon
<1>10. CASE OpenInstall(p) \/ SocketInstall(p)
  <2>1. life[p] = "live" /\ pc[p] \in {"open", "socket"} /\ Return(p) /\ UNCHANGED <<life, fifo>>
    BY <1>10, Zenon DEF OpenInstall, SocketInstall, At
  <2>2. fds' = fds \/ \E tab : SetFds(p, tab)
    BY <1>10, Zenon DEF OpenInstall, SocketInstall
  <2>3. ASSUME NEW f \in Fd
        PROVE  fds'[p][f] = fds[p][f] \/ (fds[p][f].type \notin EndType /\ fds'[p][f].type \notin EndType)
    <3>1. CASE fds' = fds
      BY <3>1, Zenon
    <3>2. CASE fds' # fds
      <4>1. PICK from \in {FirstFile, FirstSocket}, type \in {"FD_FILE", "FD_SOCKET"} :
              SetFds(p, Installed(fds[p], from, type, obj[p])) /\ Unopened(fds[p], from) # {}
        BY <1>10, <3>2, Zenon DEF OpenInstall, SocketInstall
      <4>. DEFINE g == Lowest(Unopened(fds[p], from))
      <4>2. g \in Fd /\ fds[p][g].type = "FD_NONE"
        BY <4>1, UnopenedIs, Zenon
      <4>3. fds[p] \in [Fd -> Entry] /\ fds'[p] = [fds[p] EXCEPT ![g] = [type |-> type, id |-> obj[p]]]
        BY <4>1, Zenon DEF SetFds, TypeInv, TablesOK, Installed
      <4>. HIDE DEF g
      <4>4. fds'[p][g] = [type |-> type, id |-> obj[p]] /\ (f # g => fds'[p][f] = fds[p][f])
        BY <4>2, <4>3, ZenonT(40)
      <4>5. fds'[p][g].type = type
        BY <4>4, SMTT(20)
      <4>. QED BY <4>1, <4>2, <4>4, <4>5, Zenon DEF EndType
    <3>. QED BY <3>1, <3>2, Zenon
  <2>. QED BY <1>6, <2>1, <2>2, <2>3, QuietEnds, Zenon
<1>. QED BY <1>4, <1>5, <1>7, <1>8, <1>9, <1>10, Zenon

LEMMA CloseCallEnds ==
  ASSUME TypeInv, PipeIds, EndsExact, \A q \in Proc : Walked(q), NEW p \in Proc,
         (\E fd \in Fd : SysClose(p, fd)) \/ CloseFree(p)
  PROVE  EndsExact' /\ \A q \in Proc : Walked(q)'
<1>0. DescTypeOK /\ vic[p] = p
  BY TypeInvGives, Zenon DEF Walked
<1>1. ASSUME NEW fd \in Fd, SysClose(p, fd) PROVE EndsExact' /\ \A q \in Proc : Walked(q)'
  <2>1. /\ life[p] = "live" /\ pc[p] = "user" /\ pc'[p] = "closed" /\ at'[p] = fd /\ fds' = fds /\ life' = life
        /\ vic' = vic /\ CloseObject(fds[p][fd]) /\ \A q \in Proc \ {p} : Same(q)
    BY <1>0, <1>1, CloseFrame, SMTT(20)
  <2>2. \/ fds[p][fd].type = "FD_PIPE_READ" /\ FCloseRead(fds[p][fd].id)
        \/ fds[p][fd].type = "FD_PIPE_WRITE" /\ FCloseWrite(fds[p][fd].id)
        \/ fds[p][fd].type \in {"FD_SOCKET", "FD_FILE"} /\ fifo' = fifo
    BY <2>1, Zenon DEF CloseObject
  <2>3. EndsExact'
    BY <1>0, <2>1, <2>2, CloseEnds, Zenon DEF TypeInv
  <2>4. \A q \in Proc : Walked(q)'
    BY <1>0, <2>1, WalkedSame, WalkedIdle, Zenon
  <2>. QED BY <2>3, <2>4, Zenon
<1>2. CASE CloseFree(p)
  <2>1. life[p] = "live" /\ pc[p] = "closed" /\ SetFds(p, Freed(fds[p], at[p])) /\ Return(p) /\ UNCHANGED <<life, fifo>>
    BY <1>2, Zenon DEF CloseFree, At
  <2>2. (\A q \in Proc \ {p} : Same(q)) /\ pc'[p] = "user" /\ vic'[p] = p
    BY <1>0, <2>1, ReturnFrame, ReturnSame, Zenon
  <2>3. \A f \in Fd : fds'[p][f] = IF f = at[p] THEN Unused ELSE fds[p][f]
    BY <1>0, <2>1, FreedIs, ZenonT(40)
  <2>4. EndsExact'
    BY <1>0, <2>1, <2>2, <2>3, ClearEnds, Zenon
  <2>5. \A q \in Proc : Walked(q)'
    BY <2>2, WalkedSame, WalkedIdle, Zenon
  <2>. QED BY <2>4, <2>5, Zenon
<1>. QED BY <1>1, <1>2, Zenon

LEMMA WalkEnds ==
  ASSUME TypeInv, PipeIds, EndsExact, \A q \in Proc : Walked(q), NEW p \in Proc,
         WalkTable(p, p) \/ WalkClose(p) \/ WalkClear(p)
  PROVE  EndsExact' /\ \A q \in Proc : Walked(q)'
<1>0. DescTypeOK /\ vic[p] = p
  BY TypeInvGives, Zenon DEF Walked
<1>. SUFFICES EndsExact' /\ Walked(p)' /\ \A q \in Proc \ {p} : Same(q)
  BY WalkedSame, Zenon
<1>1. CASE WalkTable(p, p)
  <2>1. /\ At(p, "user") /\ pc'[p] = "loop" /\ vic'[p] = p /\ at'[p] = 0 /\ UNCHANGED <<fifo, fds, life>>
    BY <1>1, Zenon DEF WalkTable, Goto, TypeInv, LocalsOK
  <2>2. \A q \in Proc \ {p} : Same(q)
    <3>1. (\E v \in Proc : WalkTable(p, v)) => \A q \in Proc \ {p} : Same(q)
      BY <1>0, EnterActions, Zenon
    <3>. QED BY <1>1, <3>1, Zenon
  <2>3. EndsExact'
    BY <2>1, <2>2, QuietEnds, Zenon DEF At
  <2>4. \A f \in Fd : ~(f < at'[p])
    BY <2>1, Numbers, SMTT(20)
  <2>5. Walked(p)'
    BY <2>1, <2>4, Zenon DEF Walked
  <2>. QED BY <2>2, <2>3, <2>5, ZenonT(40)
<1>2. CASE WalkClose(p)
  <2>. DEFINE i == Lowest(StillOpen(p, at[p]))
  <2>1. /\ life[p] = "live" /\ pc[p] = "loop" /\ StillOpen(p, at[p]) # {} /\ Goto(p, "clear")
        /\ UNCHANGED <<fds, life, obj, vic>> /\ at' = [at EXCEPT ![p] = i]
    BY <1>0, <1>2, Zenon DEF WalkClose, At
  <2>2. \/ fds[p][i].type = "FD_PIPE_READ" /\ FCloseRead(fds[p][i].id)
        \/ fds[p][i].type = "FD_PIPE_WRITE" /\ FCloseWrite(fds[p][i].id)
        \/ fds[p][i].type \in {"FD_SOCKET", "FD_FILE"} /\ fifo' = fifo
    BY <1>0, <1>2, Zenon DEF WalkClose
  <2>3. i \in Fd
    BY <2>1, StillOpenIs, Zenon
  <2>4. \A f \in Fd : f < i => fds[p][f].type = "FD_NONE"
    BY <1>0, <2>1, PassedEntries, Zenon
  <2>. HIDE DEF i
  <2>5. \A q \in Proc \ {p} : Same(q)
    BY <1>0, <2>1, EnterSame, Zenon
  <2>6. pc'[p] = "clear" /\ at'[p] = i /\ vic'[p] = p
    BY <1>0, <2>1, Zenon DEF Goto, TypeInv, LocalsOK
  <2>7. EndsExact'
    BY <1>0, <2>1, <2>2, <2>3, <2>5, <2>6, CloseEnds, Zenon DEF TypeInv
  <2>8. Walked(p)'
    BY <2>1, <2>4, <2>6, Zenon DEF Walked
  <2>. QED BY <2>5, <2>7, <2>8, Zenon
<1>3. CASE WalkClear(p)
  <2>1. /\ life[p] = "live" /\ pc[p] = "clear" /\ SetFds(p, Freed(fds[p], at[p])) /\ Goto(p, "loop")
        /\ at' = [at EXCEPT ![p] = at[p] + 1] /\ UNCHANGED <<life, fifo, obj, vic>>
    BY <1>0, <1>3, Zenon DEF WalkClear, At
  <2>2. /\ pc'[p] = "loop" /\ at'[p] = at[p] + 1 /\ vic'[p] = p
        /\ \A q \in Proc \ {p} : pc'[q] = pc[q] /\ at'[q] = at[q]
    BY <1>0, <2>1, Zenon DEF Goto, TypeInv, LocalsOK
  <2>3. /\ \A q \in Proc \ {p} : fds'[q] = fds[q]
        /\ \A f \in Fd : fds'[p][f] = IF f = at[p] THEN Unused ELSE fds[p][f]
    BY <1>0, <2>1, FreedIs, ZenonT(40)
  <2>4. \A q \in Proc \ {p} : Same(q)
    BY <2>1, <2>2, <2>3, Zenon DEF Same
  <2>5. EndsExact'
    BY <1>0, <2>1, <2>2, <2>3, <2>4, ClearEnds, Zenon
  <2>6. ASSUME NEW f \in Fd, f < at[p] + 1 PROVE fds'[p][f].type = "FD_NONE"
    <3>1. f \in Nat /\ at[p] \in Nat
      <4>1. at[p] \in 0..MaxFds /\ f \in Nat
        BY <1>0, Numbers, Zenon DEF DescTypeOK
      <4>. QED BY <4>1, DescConstants, SMTT(20)
    <3>2. f = at[p] \/ f < at[p]
      BY <2>6, <3>1, SMTT(20)
    <3>3. CASE f = at[p]
      BY <2>3, <3>3, UnusedIs, Zenon
    <3>4. CASE f # at[p]
      <4>1. fds[p][f].type = "FD_NONE"
        BY <2>1, <3>2, <3>4, Zenon DEF Walked
      <4>. QED BY <2>3, <3>4, <4>1, Zenon
    <3>. QED BY <3>3, <3>4, Zenon
  <2>7. Walked(p)'
    BY <2>2, <2>6, Zenon DEF Walked
  <2>. QED BY <2>4, <2>5, <2>7, Zenon
<1>. QED BY <1>1, <1>2, <1>3, Zenon

LEMMA SpawnEnds ==
  ASSUME TypeInv, PipeIds, EndsExact, \A q \in Proc : Walked(q), NEW p \in Proc, NEW q \in Proc,
         SpawnChild(p, q, NoFd, NoFd)
  PROVE  EndsExact' /\ \A r \in Proc : Walked(r)'
<1>0. DescTypeOK
  BY TypeInvGives, ZenonT(40)
<1>1. /\ q # p /\ life[p] = "live" /\ life'[p] = "live" /\ pc[p] = "spawn" /\ pc'[p] = "user"
      /\ life[q] = "none" /\ life'[q] = "live" /\ pc'[q] = pc[q]
      /\ fds'[q] = ChildFds(p, NoFd, NoFd) /\ fds'[p] = fds[p]
      /\ (\A r \in Proc \ {p, q} : Same(r)) /\ vic'[p] = p /\ vic'[q] = vic[q]
  BY <1>0, SpawnFrame, SMTT(20)
<1>2. pc[q] = "user" /\ vic[q] = q
  BY <1>1, ZenonT(40) DEF TypeInv, Resting, Walked
<1>3. \A f \in Fd : fds'[q][f].type = "FD_NONE"
  BY <1>0, <1>1, ChildTypes, SMTT(20)
<1>4. fifo' = fifo
  BY Zenon DEF SpawnChild
<1>5. EndsExact'
  <2>1. \A f \in Fd : fds'[q][f].type \notin EndType
    BY <1>3, Zenon DEF EndType
  <2>. QED BY <1>1, <1>2, <1>4, <2>1, LifeEnds, Zenon
<1>6. ASSUME NEW r \in Proc PROVE Walked(r)'
  <2>1. CASE r \in {p, q}
    BY <1>1, <1>2, <2>1, WalkedIdle, Zenon
  <2>2. CASE r \notin {p, q}
    BY <1>1, <2>2, WalkedSame, Zenon
  <2>. QED BY <2>1, <2>2, Zenon
<1>. QED BY <1>5, <1>6, Zenon

LEMMA DoneEnds ==
  ASSUME TypeInv, PipeIds, EndsExact, \A q \in Proc : Walked(q), NEW p \in Proc, WalkDone(p)
  PROVE  EndsExact' /\ \A r \in Proc : Walked(r)'
<1>0. DescTypeOK /\ vic[p] = p
  BY TypeInvGives, Zenon DEF Walked
<1>1. /\ life[p] = "live" /\ pc[p] = "loop" /\ StillOpen(p, at[p]) = {} /\ Return(p)
      /\ life' = [life EXCEPT ![p] = "dead"] /\ UNCHANGED <<fifo, fds>>
  BY <1>0, Zenon DEF WalkDone, At
<1>2. /\ pc'[p] = "user" /\ vic'[p] = p
      /\ \A q \in Proc \ {p} : pc'[q] = pc[q] /\ obj'[q] = obj[q] /\ at'[q] = at[q] /\ vic'[q] = vic[q]
  BY <1>0, <1>1, ReturnFrame, Zenon
<1>3. \A q \in Proc \ {p} : life'[q] = life[q]
  BY <1>1, Zenon DEF TypeInv, TablesOK
<1>4. \A q \in Proc \ {p} : Same(q)
  BY <1>1, <1>2, <1>3, Zenon DEF Same
<1>5. \A f \in Fd : fds[p][f].type \notin EndType
  <2>1. \A f \in Fd : fds[p][f].type = "FD_NONE"
    BY <1>0, <1>1, PassedEntries, Zenon
  <2>. QED BY <2>1, Zenon DEF EndType
<1>6. EndsExact'
  BY <1>1, <1>2, <1>4, <1>5, LifeEnds, Zenon
<1>7. \A r \in Proc : Walked(r)'
  BY <1>2, <1>4, WalkedSame, WalkedIdle, Zenon
<1>. QED BY <1>6, <1>7, Zenon

(* No step of a process without inherited ends loses or doubles one. *)
LEMMA EndsStep ==
  ASSUME TypeInv, PipeIds, EndsExact, \A q \in Proc : Walked(q), "kill" \notin workload.calls,
         NEW p \in Proc, ProcStep(p)
  PROVE  EndsExact' /\ \A q \in Proc : Walked(q)'
<1>1. ~\E v \in Proc \ {p} : SysKill(p, v)
  BY Zenon DEF SysKill
<1>2. SysExit(p) => WalkTable(p, p)
  BY Zenon DEF SysExit
<1>. QED BY <1>1, <1>2, CallEnds, CloseCallEnds, WalkEnds, SpawnEnds, DoneEnds, Zenon DEF ProcStep

----------------------------------------------------------------------------
(* The shell and the stages of a pipeline *)

LEMMA SlotInvIs == SlotInv <=> TypeInv /\ PipeIds /\ Slots
<1>1. SlotInv <=> DescTypeOK /\ Slots /\ FifoTypes /\ KbufOK /\ Resting /\ PipeIds
  BY Zenon DEF SlotInv, SlotsExclusive, Slots, KbufOK, Resting, PipeIds
<1>. QED BY <1>1, TypeInvIs, Zenon

AllWalked == \A p \in Proc : Walked(p)

LEMMA EndInvIs == EndInv <=> (OwnPipes => EndsExact /\ AllWalked)
BY Zenon DEF AllWalked, EndInv, PipeEndsExact, EndsExact, Exact, EndType

LEMMA WorkloadKept ==
  ASSUME NEW p \in Proc, DescStep(p)
  PROVE  workload' = workload
<1>1. ProcStep(p) => workload' = workload
  BY Zenon DEF ProcStep, SysOpen, OpenInstall, SysSocket, SocketInstall, SysPipe, PipeInstall, PipeInstallFails,
       SysClose, CloseFree, SysSpawn, SpawnFails, SpawnChild, SysExit, SysKill, WalkTable, WalkClose, WalkClear, WalkDone
<1>. QED BY <1>1, Zenon DEF DescStep, SysRead, ReadTry, WriteTry, SysWrite, SpawnChild

LEMMA SlotInvStep ==
  ASSUME SlotInv, NEW p \in Proc, DescStep(p)
  PROVE  SlotInv'
<1>1. TypeInv /\ PipeIds /\ Slots /\ DescTypeOK
  BY SlotInvIs, TypeInvGives, Zenon
<1>2. \A r \in Proc : life[r] = "none" => pc[r] = "user"
  BY <1>1, Zenon DEF TypeInv, Resting
<1>3. TypeInv' /\ PipeIds' /\ Slots'
  BY <1>1, <1>2, TypeStep, PipeIdsStep, SlotsStep, Zenon
<1>4. SlotInv' <=> TypeInv' /\ PipeIds' /\ Slots'
  BY SlotInvIs, PTL
<1>. QED BY <1>3, <1>4, Zenon

LEMMA SlotInvUnchanged ==
  ASSUME SlotInv, EndInv, UNCHANGED descVars
  PROVE  SlotInv' /\ EndInv'
<1>1. UNCHANGED <<workload, fifo, fds, s_files, s_used, life, pc, obj, at, vic, kbuf>>
  BY Zenon DEF descVars
<1>2. \A q \in Proc : Same(q)
  BY <1>1, Zenon DEF Same
<1>3. SlotInv'
  <2>1. TypeInv /\ PipeIds /\ Slots
    BY SlotInvIs, Zenon
  <2>2. TypeInv'
    BY <1>1, <2>1, Zenon DEF TypeInv, TablesOK, LocalsOK, FifosOK, FifoTypes, KbufOK, Resting
  <2>3. PipeIds'
    BY <1>1, <2>1, Zenon DEF PipeIds
  <2>4. Slots'
    BY <1>1, <2>1, UnchangedSlots, Zenon
  <2>5. SlotInv' <=> TypeInv' /\ PipeIds' /\ Slots'
    BY SlotInvIs, PTL
  <2>. QED BY <2>2, <2>3, <2>4, <2>5, Zenon
<1>4. EndInv'
  <2>1. ASSUME OwnPipes' PROVE EndsExact' /\ \A q \in Proc : Walked(q)'
    <3>1. EndsExact /\ \A q \in Proc : Walked(q)
      BY <1>1, <2>1, EndInvIs, Zenon DEF OwnPipes, AllWalked
    <3>2. ASSUME NEW type \in EndType PROVE Exact(type)'
      BY <1>1, <1>2, <3>1, SameSteady, TakenSame, SteadyExact, Zenon DEF EndsExact
    <3>. QED BY <1>2, <3>1, <3>2, WalkedSame, Zenon DEF EndsExact, EndType
  <2>2. EndInv' <=> (OwnPipes' => EndsExact' /\ AllWalked')
    BY EndInvIs, PTL
  <2>. QED BY <2>1, <2>2, Zenon DEF AllWalked
<1>. QED BY <1>3, <1>4, Zenon

LEMMA EndInvStep ==
  ASSUME SlotInv, EndInv, NEW p \in Proc, DescStep(p), OwnPipes => ProcStep(p)
  PROVE  EndInv'
<1>1. TypeInv /\ PipeIds /\ Slots
  BY SlotInvIs, Zenon
<1>2. workload' = workload
  BY WorkloadKept, Zenon
<1>3. ASSUME OwnPipes' PROVE EndsExact' /\ \A q \in Proc : Walked(q)'
  <2>1. OwnPipes /\ "kill" \notin workload.calls
    BY <1>2, <1>3, Zenon DEF OwnPipes
  <2>2. EndsExact /\ \A q \in Proc : Walked(q)
    BY <2>1, EndInvIs, Zenon DEF AllWalked
  <2>. QED BY <1>1, <2>1, <2>2, EndsStep, Zenon
<1>4. EndInv' <=> (OwnPipes' => EndsExact' /\ AllWalked')
  BY EndInvIs, PTL
<1>. QED BY <1>3, <1>4, Zenon DEF AllWalked

LEMMA StagesAre ==
  /\ NSeg \in Nat /\ NSeg >= 2 /\ \A i \in 1..NSeg : Stages[i] \in Proc
  /\ StageSet \subseteq Proc /\ First \in Proc
<1>1. Stages \in Seq(Proc \ {Root}) /\ NSeg >= 2
  BY PipelineConstants, Zenon DEF NSeg
<1>2. NSeg \in Nat
  BY <1>1, SeqLen, Zenon DEF NSeg
<1>3. ASSUME NEW i \in 1..NSeg PROVE Stages[i] \in Proc
  <2>1. i \in 1..Len(Stages)
    BY <1>3, Zenon DEF NSeg
  <2>2. Stages[i] \in Proc \ {Root}
    BY <1>1, <2>1, SeqLen, Zenon
  <2>. QED BY <2>2, Zenon
<1>4. 1 \in 1..NSeg
  BY <1>1, <1>2, SMTT(20)
<1>. QED BY <1>1, <1>2, <1>3, <1>4, Zenon DEF StageSet, First

LEMMA DataIsBytes == Data \subseteq Seq(Byte)
<1>1. ASSUME NEW n \in 0..MaxLen, NEW d \in [1..n -> Byte] PROVE d \in Seq(Byte)
  <2>1. n \in Nat
    BY DescConstants, SMTT(20)
  <2>. QED BY <2>1, SeqMade, SMTT(20)
<1>. QED BY <1>1, Zenon DEF Data

(* What a read returns is what was in the pipe. *)
LEMMA ReadReturns ==
  ASSUME FifosOK, NEW i \in Pipes, FRead(i, MaxLen)
  PROVE  ret'[1] > 0 => ret'[2] \in Seq(Byte)
<1>. DEFINE n == Least(MaxLen, Len(fifo[i].q))
<1>1. fifo[i].q \in Seq(Byte) /\ Len(fifo[i].q) \in Nat /\ MaxLen \in Nat
  BY FifoIs, SeqLen, DescConstants, Zenon
<1>2. n \in Nat /\ n <= Len(fifo[i].q)
  BY <1>1, LeastIs, Zenon
<1>3. \/ ret' = <<-1>> \/ ret' = <<0>> \/ ret' = <<-2>>
      \/ ret' = <<n, SubSeq(fifo[i].q, 1, n)>>
  BY Zenon DEF FRead
<1>. HIDE DEF n
<1>4. SubSeq(fifo[i].q, 1, n) \in Seq(Byte)
  BY <1>1, <1>2, SMTT(20)
<1>5. CASE ret' = <<n, SubSeq(fifo[i].q, 1, n)>>
  <2>1. ret'[2] = SubSeq(fifo[i].q, 1, n)
    BY <1>5, Zenon
  <2>. QED BY <1>4, <2>1, Zenon
<1>6. CASE ret' = <<-1>> \/ ret' = <<0>> \/ ret' = <<-2>>
  <2>1. ret'[1] \in {-1, 0, -2}
    BY <1>6, SMTT(20)
  <2>. QED BY <2>1, SMTT(20)
<1>. QED BY <1>3, <1>5, <1>6, Zenon

LEMMA ShellSteps ==
  ASSUME SlotInv, sh # "none", Shell
  PROVE  (UNCHANGED descVars \/ DescStep(Root)) /\ sh' # "none" /\ UNCHANGED stageVars
<1>0. Root \in Proc /\ DescTypeOK
  BY DescConstants, SlotInvIs, TypeInvGives, Zenon
<1>1. ASSUME NEW l, NEW i, Step(l, i) PROVE sh' = l
  BY <1>1, Zenon DEF Step
<1>2. UNCHANGED stageVars
  BY Zenon DEF Shell, ShPipe, ShPipeInstall, ShPipeFails, ShSpawn, ShSpawnChild, ShSpawnFails, ShClose, ShCloseFree, ShWait
<1>3. CASE ShPipe
  <2>1. SysPipe(Root)
    BY <1>3, Zenon DEF ShPipe
  <2>2. sh' = sh \/ Step("prompt", k)
    BY <1>3, Zenon DEF ShPipe
  <2>. QED BY <1>1, <1>2, <2>1, <2>2, Zenon DEF DescStep, ProcStep
<1>4. CASE ShPipeInstall
  <2>1. PipeInstall(Root) /\ (Step("pipe", k + 1) \/ Step("spawn", 1))
    BY <1>4, Zenon DEF ShPipeInstall
  <2>. QED BY <1>1, <1>2, <2>1, Zenon DEF DescStep, ProcStep
<1>5. CASE ShPipeFails
  <2>1. PipeInstallFails(Root) /\ Step("prompt", k)
    BY <1>5, Zenon DEF ShPipeFails
  <2>. QED BY <1>1, <1>2, <2>1, Zenon DEF DescStep, ProcStep
<1>6. CASE ShSpawn
  <2>1. SysSpawn(Root) /\ sh' = sh
    BY <1>6, Zenon DEF ShSpawn, shellVars
  <2>. QED BY <1>2, <2>1, Zenon DEF DescStep, ProcStep
<1>7. CASE ShSpawnChild
  <2>1. PICK q, in, out : SpawnChild(Root, q, in, out)
    BY <1>7, Zenon DEF ShSpawnChild
  <2>2. Step("spawn", k + 1) \/ Step("close", 1)
    BY <1>7, Zenon DEF ShSpawnChild, Spawned
  <2>3. q \in Proc
    BY <1>0, <2>1, SpawnFrame, SMTT(20)
  <2>4. DescStep(Root)
    BY <2>1, <2>3, Zenon DEF DescStep
  <2>. QED BY <1>1, <1>2, <2>2, <2>4, Zenon
<1>8. CASE ShSpawnFails
  <2>1. SpawnFails(Root) /\ (Step("spawn", k + 1) \/ Step("close", 1))
    BY <1>8, Zenon DEF ShSpawnFails, Spawned
  <2>. QED BY <1>1, <1>2, <2>1, Zenon DEF DescStep, ProcStep
<1>9. CASE ShClose
  <2>1. PICK fd : SysClose(Root, fd)
    BY <1>9, Zenon DEF ShClose
  <2>2. sh' = sh
    BY <1>9, Zenon DEF ShClose, shellVars
  <2>3. fd \in Fd
    BY <1>0, <2>1, CloseFrame, SMTT(20)
  <2>4. DescStep(Root)
    BY <2>1, <2>3, Zenon DEF DescStep, ProcStep
  <2>. QED BY <1>2, <2>2, <2>4, Zenon
<1>10. CASE ShCloseFree
  <2>1. CloseFree(Root) /\ (Step("close", k + 1) \/ Step("wait", NSeg))
    BY <1>10, Zenon DEF ShCloseFree
  <2>. QED BY <1>1, <1>2, <2>1, Zenon DEF DescStep, ProcStep
<1>11. CASE ShWait
  <2>1. UNCHANGED descVars /\ (Step("wait", k - 1) \/ Step("prompt", k))
    BY <1>11, Zenon DEF ShWait
  <2>. QED BY <1>1, <1>2, <2>1, Zenon
<1>. QED BY <1>3, <1>4, <1>5, <1>6, <1>7, <1>8, <1>9, <1>10, <1>11, Zenon DEF Shell

LEMMA StageSteps ==
  ASSUME ShellInv, NEW p \in StageSet, Stage(p)
  PROVE  DescStep(p) /\ sh' = sh /\ todo' \in Seq(Data) /\ line' \in [Proc -> Seq(Byte)]
<1>0. /\ SlotInv /\ todo \in Seq(Data) /\ line \in [Proc -> Seq(Byte)] /\ p \in Proc /\ First \in Proc
      /\ TypeInv /\ PipeIds
  BY StagesAre, SlotInvIs, Zenon DEF ShellInv
<1>1. sh' = sh
  BY Zenon DEF Stage, CatWrite, StageRead, StageReadTry, StageWrite, StageExit, shellVars
<1>2. CASE p = First /\ CatWrite
  <2>1. todo # <<>> /\ SysWrite(p, Head(todo)) /\ todo' = Tail(todo) /\ line' = line
    BY <1>2, Zenon DEF CatWrite
  <2>2. Head(todo) \in Data /\ Tail(todo) \in Seq(Data)
    BY <1>0, <2>1, SeqRest, Zenon
  <2>3. Head(todo) \in Seq(Byte)
    BY <2>2, DataIsBytes, Zenon
  <2>. QED BY <1>0, <1>1, <2>1, <2>2, <2>3, Zenon DEF DescStep
<1>3. CASE StageRead(p)
  <2>1. SysRead(p) /\ UNCHANGED <<todo, line>>
    BY <1>3, Zenon DEF StageRead, stageVars
  <2>. QED BY <1>0, <1>1, <2>1, Zenon DEF DescStep
<1>4. CASE StageReadTry(p)
  <2>. DEFINE data == IF ret'[1] > 0 THEN ret'[2] ELSE <<>>
  <2>1. ReadTry(p) /\ todo' = todo /\ (line' = line \/ line' = [line EXCEPT ![p] = data])
    BY <1>4, Zenon DEF StageReadTry
  <2>2. data \in Seq(Byte)
    <3>1. FRead(obj[p], MaxLen) /\ obj[p] \in Pipes
      BY <1>0, <2>1, Zenon DEF ReadTry, At, PipeIds
    <3>2. ret'[1] > 0 => ret'[2] \in Seq(Byte)
      BY <1>0, <3>1, ReadReturns, Zenon DEF TypeInv
    <3>3. <<>> \in Seq(Byte)
      BY SeqNone, Zenon
    <3>. QED BY <3>2, <3>3, Zenon
  <2>. HIDE DEF data
  <2>3. line' \in [Proc -> Seq(Byte)]
    BY <1>0, <2>1, <2>2, Zenon
  <2>. QED BY <1>0, <1>1, <2>1, <2>3, Zenon DEF DescStep
<1>5. CASE StageWrite(p)
  <2>1. SysWrite(p, line[p]) /\ todo' = todo /\ line' = [line EXCEPT ![p] = <<>>]
    BY <1>5, Zenon DEF StageWrite
  <2>2. line[p] \in Seq(Byte) /\ <<>> \in Seq(Byte)
    BY <1>0, SeqNone, Zenon
  <2>3. line' \in [Proc -> Seq(Byte)]
    BY <1>0, <2>1, <2>2, Zenon
  <2>. QED BY <1>0, <1>1, <2>1, <2>2, <2>3, Zenon DEF DescStep
<1>6. CASE StageExit(p)
  <2>1. SysExit(p) /\ UNCHANGED <<todo, line>>
    BY <1>6, Zenon DEF StageExit, stageVars
  <2>. QED BY <1>0, <1>1, <2>1, Zenon DEF DescStep, ProcStep
<1>7. CASE (WriteTry(p) \/ WalkClose(p) \/ WalkClear(p) \/ WalkDone(p)) /\ UNCHANGED <<shellVars, stageVars>>
  <2>1. UNCHANGED <<todo, line>>
    BY <1>7, Zenon DEF stageVars
  <2>. QED BY <1>0, <1>1, <1>7, <2>1, Zenon DEF DescStep, ProcStep
<1>. QED BY <1>2, <1>3, <1>4, <1>5, <1>6, <1>7, Zenon DEF Stage

LEMMA ShellInvNext ==
  ASSUME ShellInv, [PipelineNext]_allVars
  PROVE  ShellInv'
<1>0. /\ SlotInv /\ EndInv /\ (sh = "none" <=> "spawn_io" \notin workload.calls)
      /\ todo \in Seq(Data) /\ line \in [Proc -> Seq(Byte)]
  BY Zenon DEF ShellInv
<1>1. ASSUME UNCHANGED <<descVars, todo, line>>, (sh' = "none") <=> (sh = "none")
      PROVE  ShellInv'
  <2>1. SlotInv' /\ EndInv' /\ workload' = workload
    BY <1>0, <1>1, SlotInvUnchanged, Zenon DEF descVars
  <2>. QED BY <1>0, <1>1, <2>1, Zenon DEF ShellInv
<1>2. ASSUME NEW p \in Proc, DescStep(p), OwnPipes => ProcStep(p), (sh' = "none") <=> (sh = "none"),
             todo' \in Seq(Data), line' \in [Proc -> Seq(Byte)]
      PROVE  ShellInv'
  <2>1. SlotInv' /\ EndInv' /\ workload' = workload
    BY <1>0, <1>2, SlotInvStep, EndInvStep, WorkloadKept, Zenon
  <2>. QED BY <1>0, <1>2, <2>1, Zenon DEF ShellInv
<1>3. CASE UNCHANGED allVars
  BY <1>1, <1>3, Zenon DEF allVars, shellVars, stageVars
<1>4. sh # "none" => ~OwnPipes
  <2>1. sh # "none" => "spawn_io" \in workload.calls
    BY <1>0, Zenon
  <2>. QED BY <2>1, Zenon DEF OwnPipes
<1>5. CASE sh # "none" /\ Shell
  <2>1. (UNCHANGED descVars \/ DescStep(Root)) /\ sh' # "none" /\ UNCHANGED <<todo, line>>
    BY <1>0, <1>5, ShellSteps, Zenon DEF stageVars
  <2>2. Root \in Proc
    BY DescConstants, Zenon
  <2>. QED BY <1>0, <1>1, <1>2, <1>4, <1>5, <2>1, <2>2, Zenon
<1>6. ASSUME sh # "none", NEW p \in StageSet, Stage(p) PROVE ShellInv'
  <2>1. DescStep(p) /\ sh' = sh /\ todo' \in Seq(Data) /\ line' \in [Proc -> Seq(Byte)] /\ p \in Proc
    BY <1>6, StageSteps, StagesAre, Zenon
  <2>. QED BY <1>2, <1>4, <1>6, <2>1, Zenon
<1>7. CASE Idle
  BY <1>1, <1>7, Zenon DEF Idle, allVars, shellVars, stageVars
<1>8. CASE AnyCall
  <2>1. PICK p \in Proc : ProcStep(p)
    BY <1>8, Zenon DEF AnyCall, DescNext
  <2>2. sh' = sh /\ UNCHANGED <<todo, line>>
    BY <1>8, Zenon DEF AnyCall, shellVars, stageVars
  <2>3. DescStep(p)
    BY <2>1, Zenon DEF DescStep
  <2>. QED BY <1>0, <1>2, <2>1, <2>2, <2>3, Zenon
<1>. QED BY <1>3, <1>5, <1>6, <1>7, <1>8, Zenon DEF PipelineNext

LEMMA InitTypes ==
  ASSUME DescInit
  PROVE  TypeInv /\ PipeIds /\ workload \in Workloads
<1>1. /\ workload \in Workloads /\ fds = [p \in Proc |-> [i \in Fd |-> Unused]] /\ s_files = {} /\ s_used = {}
      /\ life = [p \in Proc |-> IF p = Root THEN "live" ELSE "none"] /\ pc = [p \in Proc |-> "user"]
      /\ obj = [p \in Proc |-> 0] /\ at = [p \in Proc |-> 0] /\ vic = [p \in Proc |-> p]
      /\ kbuf = [p \in Proc |-> <<>>] /\ FifoInit
  BY Zenon DEF DescInit
<1>2. "user" \in Pcs /\ 0 \in Nat /\ 0 \in 0..MaxFds /\ <<>> \in Seq(Byte) /\ Len(<<>>) = 0
  BY Numbers, SeqNone, Zenon DEF Pcs
<1>3. TablesOK
  BY <1>1, UnusedIs, Zenon DEF TablesOK
<1>4. LocalsOK
  BY <1>1, <1>2, Zenon DEF LocalsOK
<1>5. KbufOK
  BY <1>1, <1>2, Zenon DEF KbufOK
<1>6. Resting
  BY <1>1, Zenon DEF Resting
<1>7. FifosOK
  <2>. DEFINE e == [in_use |-> FALSE, q |-> <<>>, write_closed |-> FALSE, read_closed |-> FALSE]
  <2>1. e \in PipeRec /\ Len(e.q) <= Cap
    BY DescConstants, SMTT(20) DEF PipeRec
  <2>2. fifo = [i \in Pipes |-> e]
    BY <1>1, Zenon DEF FifoInit
  <2>. HIDE DEF e
  <2>3. fifo \in [Pipes -> PipeRec]
    BY <2>1, <2>2, Zenon
  <2>4. \A i \in Pipes : Len(fifo[i].q) <= Cap
    BY <2>1, <2>2, Zenon
  <2>. QED BY <2>3, <2>4, Zenon DEF FifosOK, FifoTypes, PipeRec
<1>8. PipeIds
  <2>1. ASSUME NEW p \in Proc, NEW f \in Fd PROVE fds[p][f].type = "FD_NONE"
    BY <1>1, UnusedIs, Zenon
  <2>. QED BY <1>1, <2>1, Zenon DEF PipeIds
<1>. QED BY <1>1, <1>3, <1>4, <1>5, <1>6, <1>7, <1>8, Zenon DEF TypeInv

LEMMA InitRefs ==
  ASSUME DescInit
  PROVE  Slots /\ EndsExact /\ AllWalked
<1>1. /\ fds = [p \in Proc |-> [i \in Fd |-> Unused]] /\ pc = [p \in Proc |-> "user"] /\ vic = [p \in Proc |-> p]
      /\ fifo = [i \in Pipes |-> [in_use |-> FALSE, q |-> <<>>, write_closed |-> FALSE, read_closed |-> FALSE]]
  BY Zenon DEF DescInit, FifoInit
<1>2. ASSUME NEW type \in EndType \cup {"FD_FILE", "FD_SOCKET"}, NEW p \in Proc, NEW f \in Place
      PROVE  ~Refers(type, p, f)
  <2>1. CASE f = NoFd
    <3>1. pc[p] \notin Taking(type)
      BY <1>1, TakingLabels, Zenon
    <3>. QED BY <2>1, <3>1, Zenon DEF Refers
  <2>2. CASE f \in Fd
    <3>1. fds[p][f].type # type /\ f # NoFd
      BY <1>1, <2>2, UnusedIs, Numbers, Zenon DEF EndType
    <3>. QED BY <3>1, Zenon DEF Refers
  <2>. QED BY <2>1, <2>2, Zenon DEF Place
<1>3. ASSUME NEW type \in EndType \cup {"FD_FILE", "FD_SOCKET"} PROVE Exclusive(type)
  BY <1>2, Zenon DEF Exclusive
<1>4. ASSUME NEW type \in EndType PROVE Covered(type)
  <2>1. ASSUME NEW i \in Taken(type) PROVE FALSE
    <3>1. i \in Pipes /\ fifo[i].in_use
      BY <2>1, Zenon DEF Taken, EndType
    <3>2. fifo[i] = [in_use |-> FALSE, q |-> <<>>, write_closed |-> FALSE, read_closed |-> FALSE]
      BY <1>1, <3>1, Zenon
    <3>3. ~fifo[i].in_use
      BY <3>2, SMTT(20)
    <3>. QED BY <3>1, <3>3, Zenon
  <2>. QED BY <2>1, Zenon DEF Covered
<1>5. AllWalked
  BY <1>1, Zenon DEF AllWalked, Walked
<1>. QED BY <1>3, <1>4, <1>5, Zenon DEF Slots, EndsExact, Exact, EndType

LEMMA ShellInvInit ==
  ASSUME PipelineInit
  PROVE  ShellInv
<1>1. DescInit /\ sh = (IF "spawn_io" \in workload.calls THEN "pipe" ELSE "none")
      /\ todo = Message /\ line = [p \in Proc |-> <<>>]
  BY Zenon DEF PipelineInit
<1>2. SlotInv /\ EndInv
  BY <1>1, InitTypes, InitRefs, SlotInvIs, EndInvIs, Zenon
<1>3. sh = "none" <=> "spawn_io" \notin workload.calls
  BY <1>1, Zenon
<1>4. todo \in Seq(Data)
  <2>1. Message \in Seq(Data \ {<<>>})
    BY PipelineConstants, Zenon
  <2>. QED BY <1>1, <2>1, SMTT(20)
<1>5. line \in [Proc -> Seq(Byte)]
  BY <1>1, SeqNone, Zenon
<1>. QED BY <1>2, <1>3, <1>4, <1>5, Zenon DEF ShellInv

(* The invariant of the descriptor tables, the shell and the stages is inductive, for
   every number of processes, descriptors, open files, sockets and pipes. *)
THEOREM ShellInvariant == PipelineSpec => []ShellInv
<1>1. PipelineInit => ShellInv
  BY ShellInvInit, SMTT(30)
<1>2. ShellInv /\ [PipelineNext]_allVars => ShellInv'
  BY ShellInvNext, SMTT(30)
<1>. QED BY <1>1, <1>2, PTL DEF PipelineSpec

(* No two descriptors, of whatever processes, refer to one open file or socket, and
   none outlives its slot: fd_alloc, sys_close, a spawn that fails half-way, exit and
   process_kill keep the tables of fd.c, vfs.c and socket.c in step. *)
THEOREM DescriptorsExclusive == PipelineSpec => []SlotsExclusive
<1>1. ShellInv => SlotsExclusive
  BY Zenon DEF ShellInv, SlotInv
<1>. QED BY <1>1, ShellInvariant, PTL

(* Without inheritance and kill, every end of a pipe that is open has exactly one
   descriptor, or the sys_pipe call about to make it: no error path of sys_pipe,
   sys_close or sys_exit leaks a slot of the pipe table or closes an end twice. *)
THEOREM PipeEndsHaveOneOwner == PipelineSpec => []PipeEndsExact
<1>1. ShellInv => PipeEndsExact
  BY Zenon DEF ShellInv, EndInv
<1>. QED BY <1>1, ShellInvariant, PTL
=============================================================================
