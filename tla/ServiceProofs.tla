---------------------------- MODULE ServiceProofs ----------------------------
(***************************************************************************)
(* Proofs about the services of the kernel and the devices they stand on:  *)
(* credentials, for any set of processes, ids and programs; pipes, whose   *)
(* ring buffers implement the FIFOs of PipeFifo; the start of the APs, for *)
(* every MADT; DHCP and DNS, for any servers and names; and AHCI and NVMe, *)
(* for queues of any size.                                                 *)
(***************************************************************************)
EXTENDS Pipe, Cred, Smp, Udp, Nvme, Ahci, TLAPS

-----------------------------------------------------------------------------
(* Credentials *)

(* What the four functions of cred.c may return: credentials built from known ids,
   with no user id that was not there before unless the effective user was root. *)
LEMMA SetIds ==
  ASSUME NEW c \in CredRec, NEW id \in Id,
         NEW d, d \in {cred_setuid(c, id), cred_seteuid(c, id), cred_setgid(c, id), cred_setegid(c, id)}
  PROVE  /\ d \in CredRec
         /\ c.euid = 0 \/ UserIds(d) \subseteq UserIds(c)
         /\ c.euid = 0 \/ GroupIds(d) \subseteq GroupIds(c)
  <1>1. CASE d = cred_setuid(c, id)
    BY <1>1, Zenon DEF CredRec, cred_setuid, WithUser, UserIds, GroupIds
  <1>2. CASE d = cred_seteuid(c, id)
    BY <1>2, Zenon DEF CredRec, cred_seteuid, MaySeteuid, WithUser, UserIds, GroupIds
  <1>3. CASE d = cred_setgid(c, id)
    BY <1>3, Zenon DEF CredRec, cred_setgid, WithGroup, UserIds, GroupIds
  <1>4. CASE d = cred_setegid(c, id)
    BY <1>4, Zenon DEF CredRec, cred_setegid, MaySetegid, WithGroup, UserIds, GroupIds
  <1> QED BY <1>1, <1>2, <1>3, <1>4, Zenon

(* The ids of a new process are known ones. *)
LEMMA NewIds ==
  /\ \A u, g \in Id : AllIds(u, g) \in CredRec
  /\ \A c \in CredRec, f \in Program : ChildCred(c, f) \in CredRec
  BY CredConstants, Zenon DEF AllIds, ChildCred, CredRec

(* The inductive invariant: the types and the bound on the user ids. *)
CredInv == CredTypeOK /\ UserIdsBounded

LEMMA CredInitInv == CredInit => CredInv
  BY CredConstants, NewIds DEF CredInit, CredInv, CredTypeOK, UserIdsBounded, UserIds, AllIds

(* A step is one of three kinds: credentials of one process change as SetIds says, a new
   process appears, or one leaves. *)
LEMMA StepKinds ==
  ASSUME CredTypeOK, CredNext
  PROVE  \/ \E p \in alive, d \in CredRec :
              /\ cred' = [cred EXCEPT ![p] = d] /\ UNCHANGED <<alive, born>>
              /\ cred[p].euid = 0 \/ UserIds(d) \subseteq UserIds(cred[p])
              /\ cred[p].euid = 0 \/ GroupIds(d) \subseteq GroupIds(cred[p])
         \/ \E child \in Proc, c \in CredRec : NewProcess(child, c)
         \/ \E p \in alive : alive' = alive \ {p} /\ UNCHANGED <<cred, born>>
  <1>1. ASSUME NEW p \in Proc, NEW id \in Id,
               SysSetuid(p, id) \/ SysSeteuid(p, id) \/ SysSetgid(p, id) \/ SysSetegid(p, id)
        PROVE  \E d \in CredRec :
                 /\ p \in alive
                 /\ cred' = [cred EXCEPT ![p] = d] /\ UNCHANGED <<alive, born>>
                 /\ cred[p].euid = 0 \/ UserIds(d) \subseteq UserIds(cred[p])
                 /\ cred[p].euid = 0 \/ GroupIds(d) \subseteq GroupIds(cred[p])
    <2>1. cred[p] \in CredRec
      BY Zenon DEF CredTypeOK
    <2>2. PICK d \in {cred_setuid(cred[p], id), cred_seteuid(cred[p], id),
                      cred_setgid(cred[p], id), cred_setegid(cred[p], id)} : SetCred(p, d)
      BY <1>1, Zenon DEF SysSetuid, SysSeteuid, SysSetgid, SysSetegid
    <2>3. /\ d \in CredRec
          /\ cred[p].euid = 0 \/ UserIds(d) \subseteq UserIds(cred[p])
          /\ cred[p].euid = 0 \/ GroupIds(d) \subseteq GroupIds(cred[p])
      BY <2>1, <2>2, SetIds, Zenon
    <2> QED BY <2>2, <2>3, Zenon DEF SetCred
  <1>2. ASSUME NEW p \in Proc, NEW child \in Proc, NEW f \in Program, SysSpawn(p, child, f)
        PROVE  \E c \in CredRec : NewProcess(child, c)
    BY <1>2, NewIds, Zenon DEF SysSpawn, CredTypeOK
  <1>3. ASSUME NEW p \in Proc, NEW child \in Proc, NEW f \in Program, NEW u \in Id, NEW g \in Id,
               SysSpawnAs(p, child, f, u, g)
        PROVE  \E c \in CredRec : NewProcess(child, c)
    BY <1>3, NewIds, Zenon DEF SysSpawnAs
  <1>4. ASSUME NEW p \in Proc, SysExit(p)
        PROVE  p \in alive /\ alive' = alive \ {p} /\ UNCHANGED <<cred, born>>
    BY <1>4, Zenon DEF SysExit
  <1> QED BY <1>1, <1>2, <1>3, <1>4, Zenon DEF CredNext, CredTypeOK

LEMMA CredNextInv == CredInv /\ [CredNext]_credVars => CredInv'
  <1> SUFFICES ASSUME CredInv, [CredNext]_credVars PROVE CredInv'
    BY Zenon
  <1> USE DEF CredInv, CredTypeOK, UserIdsBounded
  <1>1. ASSUME NEW p \in alive, NEW d \in CredRec,
               cred' = [cred EXCEPT ![p] = d], UNCHANGED <<alive, born>>,
               cred[p].euid = 0 \/ UserIds(d) \subseteq UserIds(cred[p])
        PROVE  CredInv'
    <2>1. CredTypeOK'
      BY <1>1, Zenon
    <2>2. 0 \in born[p] \/ UserIds(d) \subseteq born[p]
      BY <1>1, Zenon DEF UserIds
    <2> QED BY <1>1, <2>1, <2>2, Zenon
  <1>2. ASSUME NEW child \in Proc, NEW c \in CredRec, NewProcess(child, c)
        PROVE  CredInv'
    <2>1. UserIds(c) \subseteq Id
      BY Zenon DEF UserIds, CredRec
    <2> QED BY <1>2, <2>1, Zenon DEF NewProcess
  <1>3. ASSUME NEW p \in alive, alive' = alive \ {p}, UNCHANGED <<cred, born>>
        PROVE  CredInv'
    BY <1>3, Zenon
  <1>4. CASE UNCHANGED credVars
    BY <1>4, Zenon DEF credVars
  <1> QED BY <1>1, <1>2, <1>3, <1>4, StepKinds, Zenon

(* The invariant of the credentials holds in every reachable state. *)
THEOREM CredInvariant == CredSpec => []CredInv
  BY CredInitInv, CredNextInv, PTL DEF CredSpec

(* A process acts only as the users it was started with, for any processes and ids. *)
THEOREM UserIdsBoundedHolds == CredSpec => []UserIdsBounded
  BY CredInvariant, PTL DEF CredInv

(* A process without a root id never has one again, for any processes and ids. *)
THEOREM DropIsPermanentHolds == CredSpec => DropIsPermanent
  <1> DEFINE Kept == \A p \in alive :
       (p \in alive' /\ 0 \notin UserIds(cred[p])) =>
         /\ 0 \notin UserIds(cred'[p])
         /\ GroupIds(cred'[p]) \subseteq GroupIds(cred[p])
  <1>1. CredInv /\ [CredNext]_credVars => [Kept]_credVars
    <2> SUFFICES ASSUME CredInv, CredNext PROVE Kept
      BY Zenon DEF Kept
    <2> SUFFICES ASSUME NEW p \in alive, p \in alive', 0 \notin UserIds(cred[p])
                 PROVE  /\ 0 \notin UserIds(cred'[p])
                        /\ GroupIds(cred'[p]) \subseteq GroupIds(cred[p])
      BY Zenon DEF Kept
    <2> USE DEF CredInv, CredTypeOK
    <2>1. ASSUME NEW r \in alive, NEW d \in CredRec,
                 cred' = [cred EXCEPT ![r] = d],
                 cred[r].euid = 0 \/ UserIds(d) \subseteq UserIds(cred[r]),
                 cred[r].euid = 0 \/ GroupIds(d) \subseteq GroupIds(cred[r])
          PROVE  /\ 0 \notin UserIds(cred'[p])
                 /\ GroupIds(cred'[p]) \subseteq GroupIds(cred[p])
      <3>1. cred[p].euid # 0
        BY Zenon DEF UserIds
      <3> QED BY <2>1, <3>1, Zenon
    <2>2. ASSUME NEW child \in Proc, NEW c \in CredRec, NewProcess(child, c)
          PROVE  cred'[p] = cred[p]
      BY <2>2, Zenon DEF NewProcess
    <2> QED BY <2>1, <2>2, StepKinds, Zenon
  <1> QED BY <1>1, CredInvariant, PTL DEF CredSpec, DropIsPermanent, Kept

-----------------------------------------------------------------------------
(* Pipes *)

(* Reducing a position of at most twice the buffer takes one subtraction. *)
LEMMA ModTwice ==
  ASSUME NEW a \in Nat, a < 2 * Cap
  PROVE  a % Cap = IF a < Cap THEN a ELSE a - Cap
<1>. USE RingConstants
<1>1. CASE a < Cap
  BY <1>1
<1>2. CASE a >= Cap
  <2>1. /\ a = Cap * 1 + (a - Cap) /\ a - Cap \in 0..Cap-1
    BY <1>2
  <2>. QED BY <1>2, <2>1
<1>. QED BY <1>1, <1>2

(* Where the k-th byte after the read position is. *)
LEMMA SlotValue ==
  ASSUME NEW p \in Ring, NEW k \in 0..Cap
  PROVE  /\ Slot(p, k) = IF p.head + k < Cap THEN p.head + k ELSE p.head + k - Cap
         /\ Slot(p, k) \in 0..Cap - 1
<1>1. p.head + k \in Nat /\ p.head + k < 2 * Cap /\ p.head \in 0..Cap - 1
  BY RingConstants DEF Ring
<1>2. (p.head + k) % Cap = IF p.head + k < Cap THEN p.head + k ELSE p.head + k - Cap
  <2>1. \A a \in Nat : a < 2 * Cap => a % Cap = IF a < Cap THEN a ELSE a - Cap
    BY ModTwice, Zenon
  <2>. DEFINE a == p.head + k
  <2>2. a \in Nat /\ a < 2 * Cap
    BY <1>1, Zenon
  <2>. HIDE DEF a
  <2>3. a % Cap = IF a < Cap THEN a ELSE a - Cap
    BY <2>1, <2>2, Zenon
  <2>. QED BY <1>1, <2>3, RingConstants DEF a
<1>. QED BY <1>1, <1>2, RingConstants DEF Slot

(* Two different offsets never share a position. *)
LEMMA SlotInjective ==
  ASSUME NEW p \in Ring, NEW j \in 0..Cap - 1, NEW k \in 0..Cap - 1,
         Slot(p, j) = Slot(p, k)
  PROVE  j = k
<1>1. p.head \in 0..Cap - 1 /\ j \in 0..Cap /\ k \in 0..Cap
  BY RingConstants DEF Ring
<1>. QED BY <1>1, SlotValue, RingConstants

(* How many bytes a write stores, and that they fit. *)
LEMMA WrittenRange ==
  ASSUME NEW p \in Ring, NEW data \in Data
  PROVE  /\ data \in Seq(Byte)
         /\ Written(p, data) \in Nat
         /\ Written(p, data) <= Len(data)
         /\ p.count + Written(p, data) <= Cap
<1>1. PICK n \in 0..MaxLen : data \in [1..n -> Byte]
  BY Zenon DEF Data
<1>2. data \in Seq(Byte) /\ Len(data) = n
  BY <1>1, RingConstants
<1>. QED BY <1>2, RingConstants DEF Written, Least, Ring

(* The bytes pipe_write stores land behind the ones already buffered, and
   disturb none of those. *)
LEMMA StoredAt ==
  ASSUME NEW p \in Ring, NEW data \in Data
  PROVE  /\ Stored(p, data) \in [0..Cap - 1 -> Byte]
         /\ \A k \in 1..Written(p, data) :
               Stored(p, data)[Slot(p, p.count + k - 1)] = data[k]
         /\ \A k \in 0..p.count - 1 :
               Stored(p, data)[Slot(p, k)] = p.buf[Slot(p, k)]
<1>. DEFINE w == Written(p, data)
            Hit(pos, k) == pos = Slot(p, p.count + k - 1)
<1>. USE WrittenRange
<1>0. /\ p.count \in 0..Cap /\ p.buf \in [0..Cap - 1 -> Byte] /\ Cap \in Nat \ {0}
      /\ w \in Nat /\ p.count + w <= Cap
      /\ \A k \in 1..w : data[k] \in Byte
  BY RingConstants DEF Ring
<1>1. \A pos \in 0..Cap - 1 :
        (\E k \in 1..w : Hit(pos, k)) => (CHOOSE k \in 1..w : Hit(pos, k)) \in 1..w
  BY Zenon
<1>2. Stored(p, data) \in [0..Cap - 1 -> Byte]
  <2>1. ASSUME NEW pos \in 0..Cap - 1
        PROVE  (IF \E k \in 1..w : Hit(pos, k)
                THEN data[CHOOSE k \in 1..w : Hit(pos, k)] ELSE p.buf[pos]) \in Byte
    BY <1>0, <1>1, Zenon
  <2>. HIDE DEF w
  <2>. QED BY <2>1, Zenon DEF Stored, w
<1>3. ASSUME NEW k \in 1..w
      PROVE  Stored(p, data)[Slot(p, p.count + k - 1)] = data[k]
  <2>1. p.count + k - 1 \in 0..Cap - 1
    BY <1>0, SMTT(40)
  <2>2. Slot(p, p.count + k - 1) \in 0..Cap - 1
    BY <2>1, <1>0, SlotValue
  <2>3. \A j \in 1..w : Hit(Slot(p, p.count + k - 1), j) => j = k
    <3>1. SUFFICES ASSUME NEW j \in 1..w, Hit(Slot(p, p.count + k - 1), j) PROVE j = k
      BY Zenon
    <3>2. p.count + j - 1 \in 0..Cap - 1
      BY <1>0, SMTT(40)
    <3>3. p.count + j - 1 = p.count + k - 1
      BY <2>1, <3>1, <3>2, SlotInjective, Zenon
    <3>. QED BY <3>3, <1>0, SMTT(40)
  <2>4. (CHOOSE j \in 1..w : Hit(Slot(p, p.count + k - 1), j)) = k
    BY <2>3, Zenon
  <2>. QED BY <2>2, <2>4, Zenon DEF Stored
<1>4. ASSUME NEW k \in 0..p.count - 1
      PROVE  Stored(p, data)[Slot(p, k)] = p.buf[Slot(p, k)]
  <2>0. k \in 0..Cap - 1 /\ k \in 0..Cap
    BY <1>0, SMTT(40)
  <2>1. k \in 0..Cap - 1 /\ Slot(p, k) \in 0..Cap - 1
    BY <2>0, SlotValue, Zenon
  <2>2. \A j \in 1..w : ~Hit(Slot(p, k), j)
    <3>1. SUFFICES ASSUME NEW j \in 1..w, Hit(Slot(p, k), j) PROVE FALSE
      BY Zenon
    <3>2. p.count + j - 1 \in 0..Cap - 1
      BY <1>0, SMTT(40)
    <3>3. k = p.count + j - 1
      BY <2>1, <3>1, <3>2, SlotInjective, Zenon
    <3>. QED BY <3>3, <1>0, SMTT(40)
  <2>. QED BY <2>1, <2>2, Zenon DEF Stored
<1>. QED BY <1>2, <1>3, <1>4, Zenon

(* A write appends to the contents. *)
LEMMA WriteAppends ==
  ASSUME NEW p \in Ring, NEW data \in Data
  PROVE  LET r == Pushed(p, data)
         IN  r \in Ring /\ Contents(r) = Contents(p) \o SubSeq(data, 1, Written(p, data))
<1>. DEFINE w == Written(p, data)
            r == Pushed(p, data)
            pre == Contents(p)
            new == SubSeq(data, 1, w)
<1>1. /\ data \in Seq(Byte) /\ w \in Nat /\ w <= Len(data) /\ p.count + w <= Cap
      /\ p.count \in 0..Cap /\ Cap \in Nat
  BY WrittenRange, RingConstants, Zenon DEF Ring
<1>2. r \in Ring
  BY <1>1, StoredAt, SMTT(40) DEF Ring, Pushed
<1>3. r.head = p.head /\ r.count = p.count + w /\ r.buf = Stored(p, data)
  BY Zenon DEF Pushed
<1>4. \A k : Slot(r, k) = Slot(p, k)
  BY <1>3, Zenon DEF Slot
<1>5. Len(new) = w /\ \A k \in 1..w : new[k] = data[k]
  BY <1>1
<1>6. Len(pre) = p.count /\ \A k \in 1..p.count : pre[k] = p.buf[Slot(p, k - 1)]
  BY <1>1 DEF Contents
<1>7. \A k \in 1..p.count : Stored(p, data)[Slot(p, k - 1)] = pre[k]
  <2>1. SUFFICES ASSUME NEW k \in 1..p.count
                 PROVE  Stored(p, data)[Slot(p, k - 1)] = pre[k]
    BY Zenon
  <2>2. k - 1 \in 0..p.count - 1
    BY <1>1
  <2>. QED BY <2>2, <1>6, StoredAt, Zenon
<1>8. \A k \in 1..w : Stored(p, data)[Slot(p, p.count + k - 1)] = data[k]
  BY StoredAt, Zenon
<1>9. pre \o new = [k \in 1..p.count + w |-> IF k <= p.count THEN pre[k] ELSE new[k - p.count]]
  <2>1. pre \in Seq(Byte)
    <3>1. ASSUME NEW k \in 1..p.count PROVE p.buf[Slot(p, k - 1)] \in Byte
      <4>1. k - 1 \in 0..Cap
        BY <1>1
      <4>. QED BY <4>1, SlotValue, Zenon DEF Ring
    <3>. QED BY <3>1, <1>1, SMTT(40) DEF Contents
  <2>2. new \in Seq(Byte)
    BY <1>1
  <2>3. w = Len(new) /\ p.count = Len(pre)
    BY <1>5, <1>6, Zenon
  <2>4. /\ pre \o new \in Seq(Byte)
        /\ Len(pre \o new) = p.count + w
        /\ \A k \in 1..p.count + w :
             (pre \o new)[k] = IF k <= p.count THEN pre[k] ELSE new[k - p.count]
    <3>. HIDE DEF pre, new, w
    <3>. QED BY <2>1, <2>2, <2>3, SMTT(20)
  <2>5. pre \o new = [k \in 1..p.count + w |-> (pre \o new)[k]]
    <3>. DEFINE all == pre \o new
    <3>1. all \in Seq(Byte) /\ Len(all) = p.count + w
      BY <2>4, Zenon
    <3>. HIDE DEF all, w
    <3>2. all \in [1..p.count + w -> Byte]
      BY <3>1, SMTT(20)
    <3>3. all = [k \in 1..p.count + w |-> all[k]]
      BY <3>2, Zenon
    <3>. QED BY <3>3, Zenon DEF all
  <2>. HIDE DEF pre, new, w
  <2>. QED BY <2>4, <2>5, Zenon
<1>10. Contents(r) = [k \in 1..p.count + w |-> Stored(p, data)[Slot(p, k - 1)]]
  BY <1>3, <1>4, Zenon DEF Contents
<1>11. ASSUME NEW k \in 1..p.count + w
       PROVE  Stored(p, data)[Slot(p, k - 1)]
                = IF k <= p.count THEN pre[k] ELSE new[k - p.count]
  <2>1. CASE k <= p.count
    BY <2>1, <1>7, <1>1
  <2>2. CASE k > p.count
    <3>. DEFINE j == k - p.count
    <3>1. j \in 1..w /\ p.count + j - 1 = k - 1
      BY <2>2, <1>1, SMTT(40)
    <3>. HIDE DEF j, w, new, pre
    <3>2. Stored(p, data)[Slot(p, k - 1)] = new[j]
      BY <3>1, <1>5, <1>8, Zenon
    <3>3. ~(k <= p.count)
      BY <2>2, <1>1
    <3>. QED BY <3>2, <3>3, Zenon DEF j
  <2>. QED BY <2>1, <2>2, <1>1, SMTT(40)
<1>12. Contents(r) = pre \o new
  BY <1>9, <1>10, <1>11, ZenonT(60)
<1>. QED BY <1>2, <1>12, Zenon

(* A read takes the oldest bytes off the contents, in order. *)
LEMMA ReadTakes ==
  ASSUME NEW p \in Ring, NEW n \in 0..p.count
  PROVE  LET r == Popped(p, n)
         IN  /\ r \in Ring
             /\ Contents(r) = SubSeq(Contents(p), n + 1, Len(Contents(p)))
             /\ [k \in 1..n |-> p.buf[Slot(p, k - 1)]] = SubSeq(Contents(p), 1, n)
<1>. DEFINE r == Popped(p, n)
            pre == Contents(p)
<1>1. /\ p.count \in 0..Cap /\ p.head \in 0..Cap - 1 /\ Cap \in Nat /\ n \in Nat
      /\ n <= p.count /\ n \in 0..Cap /\ p.count \in Nat
  BY RingConstants DEF Ring
<1>2. Slot(p, n) \in 0..Cap - 1
  BY <1>1, SlotValue, Zenon
<1>3. r \in Ring
  BY <1>1, <1>2 DEF Ring, Popped
<1>4. r.head = Slot(p, n) /\ r.count = p.count - n /\ r.buf = p.buf
  BY Zenon DEF Popped
<1>5. pre = [k \in 1..p.count |-> p.buf[Slot(p, k - 1)]] /\ Len(pre) = p.count
  BY <1>1 DEF Contents
<1>6. ASSUME NEW k \in 1..p.count - n
      PROVE  Slot(r, k - 1) = Slot(p, n + k - 1)
  <2>1. k - 1 \in 0..Cap /\ n + k - 1 \in 0..Cap
    BY <1>1
  <2>2. /\ Slot(r, k - 1) = IF r.head + (k - 1) < Cap THEN r.head + (k - 1)
                            ELSE r.head + (k - 1) - Cap
        /\ Slot(p, n + k - 1) = IF p.head + (n + k - 1) < Cap THEN p.head + (n + k - 1)
                                ELSE p.head + (n + k - 1) - Cap
        /\ Slot(p, n) = IF p.head + n < Cap THEN p.head + n ELSE p.head + n - Cap
    BY <1>1, <1>3, <2>1, SlotValue, Zenon
  <2>. QED BY <1>1, <1>4, <2>1, <2>2, SMTT(40)
<1>7. SubSeq(pre, n + 1, Len(pre)) = [k \in 1..p.count - n |-> pre[n + k]]
  BY <1>1, <1>5, SMTT(40)
<1>8. Contents(r) = [k \in 1..p.count - n |-> p.buf[Slot(p, n + k - 1)]]
  BY <1>4, <1>6, Zenon DEF Contents
<1>9. ASSUME NEW k \in 1..p.count - n
      PROVE  pre[n + k] = p.buf[Slot(p, n + k - 1)]
  BY <1>1, <1>5, SMTT(40)
<1>10. SubSeq(pre, 1, n) = [k \in 1..n |-> pre[k]]
  BY <1>1, <1>5
<1>11. ASSUME NEW k \in 1..n
       PROVE  pre[k] = p.buf[Slot(p, k - 1)]
  BY <1>1, <1>5
<1>. QED BY <1>3, <1>7, <1>8, <1>9, <1>10, <1>11, ZenonT(40)

-----------------------------------------------------------------------------
(* Every slot of the table stays a well-formed ring, whatever the sizes. *)
LEMMA StepTypeOK == PipeTypeOK /\ [PipeNext]_pipeVars => PipeTypeOK'
<1>. SUFFICES ASSUME PipeTypeOK, [PipeNext]_pipeVars PROVE PipeTypeOK'
  BY Zenon
<1>. USE DEF PipeTypeOK
<1>0. Cleared(TRUE) \in Ring
  BY RingConstants DEF Cleared, Ring
<1>1. CASE PipeAllocFull
  BY <1>1, Zenon DEF PipeAllocFull
<1>2. ASSUME NEW i \in Pipes, PipeAlloc(i) PROVE PipeTypeOK'
  BY <1>0, <1>2, Zenon DEF PipeAlloc
<1>3. ASSUME NEW i \in Pipes, NEW flag \in BOOLEAN, NEW w \in BOOLEAN, NEW r \in BOOLEAN
      PROVE  Flagged(s_pipes[i], flag, w, r) \in Ring
  BY Zenon DEF Flagged, Ring
<1>4. ASSUME NEW i \in Pipes
      PROVE  s_pipes[i].write_closed \in BOOLEAN /\ s_pipes[i].read_closed \in BOOLEAN
  BY Zenon DEF Ring
<1>5. ASSUME NEW i \in Pipes, PipeFree(i) PROVE PipeTypeOK'
  BY <1>3, <1>4, <1>5, Zenon DEF PipeFree
<1>6. ASSUME NEW i \in Pipes, PipeCloseWrite(i) PROVE PipeTypeOK'
  <2>1. Flagged(s_pipes[i], ~s_pipes[i].read_closed, TRUE, s_pipes[i].read_closed) \in Ring
    BY <1>3, <1>4, Zenon
  <2>. QED BY <1>6, <2>1, Zenon DEF PipeCloseWrite
<1>7. ASSUME NEW i \in Pipes, PipeCloseRead(i) PROVE PipeTypeOK'
  <2>1. Flagged(s_pipes[i], ~s_pipes[i].write_closed, s_pipes[i].write_closed, TRUE) \in Ring
    BY <1>3, <1>4, Zenon
  <2>. QED BY <1>7, <2>1, Zenon DEF PipeCloseRead
<1>8. ASSUME NEW i \in Pipes, NEW data \in Data, PipeWrite(i, data) PROVE PipeTypeOK'
  <2>1. Pushed(s_pipes[i], data) \in Ring
    BY WriteAppends, Zenon
  <2>. QED BY <1>8, <2>1, Zenon DEF PipeWrite
<1>9. ASSUME NEW i \in Pipes, NEW len \in 0..MaxLen, PipeRead(i, len) PROVE PipeTypeOK'
  <2>1. Least(len, s_pipes[i].count) \in 0..s_pipes[i].count
    BY RingConstants DEF Least, Ring
  <2>2. Popped(s_pipes[i], Least(len, s_pipes[i].count)) \in Ring
    BY <2>1, ReadTakes, Zenon
  <2>. QED BY <1>9, <2>2, Zenon DEF PipeRead
<1>10. CASE UNCHANGED pipeVars
  BY <1>10, Zenon DEF pipeVars
<1>. QED BY <1>1, <1>2, <1>5, <1>6, <1>7, <1>8, <1>9, <1>10, Zenon DEF PipeNext

(* pipe.c keeps every ring well formed: head inside the buffer, count at most
   PIPE_BUF, for any buffer size and any number of pipes. *)
THEOREM PipeTypeSafe == PipeSpec => []PipeTypeOK
<1>1. PipeInit => PipeTypeOK
  BY RingConstants DEF PipeInit, PipeTypeOK, Cleared, Ring
<1>. QED BY <1>1, StepTypeOK, PTL DEF PipeSpec

-----------------------------------------------------------------------------
(* One slot of the FIFO table, as a function of the ring that implements it. *)
LEMMA FifoAt ==
  ASSUME NEW i \in Pipes
  PROVE  /\ fifo[i].in_use = s_pipes[i].in_use
         /\ fifo[i].write_closed = s_pipes[i].write_closed
         /\ fifo[i].read_closed = s_pipes[i].read_closed
         /\ fifo[i].q = Contents(s_pipes[i])
BY Zenon DEF fifo

(* When only slot i of the table changes, only slot i of the FIFO table does. *)
LEMMA FifoExcept ==
  ASSUME PipeTypeOK, NEW i \in Pipes, NEW r \in Ring,
         s_pipes' = [s_pipes EXCEPT ![i] = r]
  PROVE  fifo' = [fifo EXCEPT ![i] =
                    [in_use |-> r.in_use, q |-> Contents(r),
                     write_closed |-> r.write_closed, read_closed |-> r.read_closed]]
<1>1. s_pipes' \in [Pipes -> Ring] /\ s_pipes'[i] = r
      /\ \A j \in Pipes : j # i => s_pipes'[j] = s_pipes[j]
  BY Zenon DEF PipeTypeOK
<1>2. fifo' = [j \in Pipes |-> [in_use |-> s_pipes'[j].in_use, q |-> Contents(s_pipes'[j]),
                                write_closed |-> s_pipes'[j].write_closed,
                                read_closed |-> s_pipes'[j].read_closed]]
  BY Zenon DEF fifo, Contents, Slot
<1>. QED BY <1>1, <1>2, Zenon DEF fifo

(* The contents of a ring are a sequence as long as its count. *)
LEMMA ContentsLen ==
  ASSUME NEW p \in Ring
  PROVE  /\ Contents(p) \in Seq(Byte)
         /\ Len(Contents(p)) = p.count
         /\ Contents(p) = <<>> <=> p.count = 0
<1>1. p.count \in 0..Cap /\ Cap \in Nat /\ p.buf \in [0..Cap - 1 -> Byte]
  BY RingConstants, Zenon DEF Ring
<1>2. ASSUME NEW k \in 1..p.count PROVE p.buf[Slot(p, k - 1)] \in Byte
  <2>1. k - 1 \in 0..Cap
    BY <1>1
  <2>. QED BY <1>1, <2>1, SlotValue, Zenon
<1>3. Contents(p) \in Seq(Byte) /\ Len(Contents(p)) = p.count
  BY <1>1, <1>2, SMTT(40) DEF Contents
<1>. QED BY <1>1, <1>3

(* Each call of pipe.c is, through the mapping, the same call on the FIFOs. *)
LEMMA StepRefines ==
  PipeTypeOK /\ [PipeNext]_pipeVars => [Abstract!FifoNext]_<<fifo, ret>>
<1>. SUFFICES ASSUME PipeTypeOK, [PipeNext]_pipeVars
              PROVE  [Abstract!FifoNext]_<<fifo, ret>>
  BY Zenon
<1>1. CASE PipeAllocFull
  <2>1. \A i \in Pipes : fifo[i].in_use
    BY <1>1, FifoAt, Zenon DEF PipeAllocFull
  <2>2. UNCHANGED fifo
    BY <1>1, Zenon DEF PipeAllocFull, fifo, Contents, Slot
  <2>3. Abstract!FNone
    BY <1>1, <2>1, <2>2, Zenon DEF PipeAllocFull, Abstract!FNone
  <2>. QED BY <2>3, Zenon DEF Abstract!FifoNext
<1>2. ASSUME NEW i \in Pipes, PipeAlloc(i) PROVE Abstract!FifoNext
  <2>1. Cleared(TRUE) \in Ring /\ Cleared(TRUE).count = 0 /\ Cleared(TRUE).in_use
        /\ ~Cleared(TRUE).write_closed /\ ~Cleared(TRUE).read_closed
    BY RingConstants DEF Cleared, Ring
  <2>2. Contents(Cleared(TRUE)) = <<>>
    BY <2>1, ContentsLen, Zenon
  <2>3. fifo' = [fifo EXCEPT ![i] = [in_use |-> TRUE, q |-> <<>>,
                                     write_closed |-> FALSE, read_closed |-> FALSE]]
    <3>1. s_pipes' = [s_pipes EXCEPT ![i] = Cleared(TRUE)]
      BY <1>2, Zenon DEF PipeAlloc
    <3>2. fifo' = [fifo EXCEPT ![i] =
                     [in_use |-> Cleared(TRUE).in_use, q |-> Contents(Cleared(TRUE)),
                      write_closed |-> Cleared(TRUE).write_closed,
                      read_closed |-> Cleared(TRUE).read_closed]]
      BY <2>1, <3>1, FifoExcept, Zenon
    <3>3. /\ Cleared(TRUE).in_use = TRUE /\ Cleared(TRUE).write_closed = FALSE
          /\ Cleared(TRUE).read_closed = FALSE
      BY Zenon DEF Cleared
    <3>. QED BY <2>2, <3>2, <3>3, Zenon
  <2>4. Abstract!FAlloc(i)
    BY <1>2, <2>3, FifoAt, Zenon DEF PipeAlloc, Abstract!FAlloc
  <2>. QED BY <2>4, Zenon DEF Abstract!FifoNext
<1>3. ASSUME NEW i \in Pipes, NEW flag \in BOOLEAN, NEW w \in BOOLEAN, NEW r \in BOOLEAN,
             s_pipes' = [s_pipes EXCEPT ![i] = Flagged(s_pipes[i], flag, w, r)]
      PROVE  fifo' = [fifo EXCEPT ![i] = [in_use |-> flag, q |-> fifo[i].q,
                                          write_closed |-> w, read_closed |-> r]]
  <2>. DEFINE p == Flagged(s_pipes[i], flag, w, r)
  <2>1. p \in Ring
    BY Zenon DEF Flagged, Ring, PipeTypeOK
  <2>2. /\ p.in_use = flag /\ p.write_closed = w /\ p.read_closed = r
        /\ p.count = s_pipes[i].count /\ p.head = s_pipes[i].head /\ p.buf = s_pipes[i].buf
    BY Zenon DEF Flagged
  <2>3. Contents(p) = fifo[i].q
    <3>. HIDE DEF p
    <3>1. Contents(p) = Contents(s_pipes[i])
      BY <2>2, Zenon DEF Contents, Slot
    <3>. QED BY <3>1, FifoAt, Zenon
  <2>4. fifo' = [fifo EXCEPT ![i] = [in_use |-> p.in_use, q |-> Contents(p),
                                     write_closed |-> p.write_closed,
                                     read_closed |-> p.read_closed]]
    BY <1>3, <2>1, FifoExcept, Zenon
  <2>. HIDE DEF p
  <2>. QED BY <2>2, <2>3, <2>4, Zenon
<1>4. ASSUME NEW i \in Pipes
      PROVE  /\ s_pipes[i] \in Ring
             /\ fifo[i].in_use = s_pipes[i].in_use
             /\ fifo[i].write_closed = s_pipes[i].write_closed
             /\ fifo[i].read_closed = s_pipes[i].read_closed
             /\ fifo[i].q = Contents(s_pipes[i])
             /\ s_pipes[i].write_closed \in BOOLEAN /\ s_pipes[i].read_closed \in BOOLEAN
             /\ s_pipes[i].in_use \in BOOLEAN
  BY FifoAt, Zenon DEF PipeTypeOK, Ring
<1>5. ASSUME NEW i \in Pipes, PipeFree(i) PROVE Abstract!FifoNext
  <2>1. fifo' = [fifo EXCEPT ![i] = [in_use |-> FALSE, q |-> fifo[i].q,
                                     write_closed |-> s_pipes[i].write_closed,
                                     read_closed |-> s_pipes[i].read_closed]]
    BY <1>3, <1>4, <1>5, ZenonT(60) DEF PipeFree
  <2>2. Abstract!FFree(i)
    BY <1>4, <1>5, <2>1, Zenon DEF PipeFree, Abstract!FFree, Abstract!Holding
  <2>. QED BY <2>2, Zenon DEF Abstract!FifoNext
<1>6. ASSUME NEW i \in Pipes, PipeCloseWrite(i) PROVE Abstract!FifoNext
  <2>1. CASE s_pipes[i].in_use
    <3>1. fifo' = [fifo EXCEPT ![i] = [in_use |-> ~s_pipes[i].read_closed, q |-> fifo[i].q,
                                       write_closed |-> TRUE,
                                       read_closed |-> s_pipes[i].read_closed]]
      <4>1. s_pipes' = [s_pipes EXCEPT ![i] = Flagged(s_pipes[i], ~s_pipes[i].read_closed,
                                                      TRUE, s_pipes[i].read_closed)]
        BY <1>6, <2>1, Zenon DEF PipeCloseWrite
      <4>. QED BY <1>3, <1>4, <4>1, ZenonT(60)
    <3>2. Abstract!Ends(fifo[i], TRUE, fifo[i].read_closed)
            = [in_use |-> ~s_pipes[i].read_closed, q |-> fifo[i].q,
               write_closed |-> TRUE, read_closed |-> s_pipes[i].read_closed]
      BY <1>4, Zenon DEF Abstract!Ends
    <3>3. Abstract!FCloseWrite(i)
      BY <1>4, <1>6, <2>1, <3>1, <3>2, Zenon DEF PipeCloseWrite, Abstract!FCloseWrite
    <3>. QED BY <3>3, Zenon DEF Abstract!FifoNext
  <2>2. CASE ~s_pipes[i].in_use
    <3>1. UNCHANGED fifo
      BY <1>6, <2>2, Zenon DEF PipeCloseWrite, fifo, Contents, Slot
    <3>2. Abstract!FCloseWrite(i)
      BY <1>4, <1>6, <2>2, <3>1, Zenon DEF PipeCloseWrite, Abstract!FCloseWrite
    <3>. QED BY <3>2, Zenon DEF Abstract!FifoNext
  <2>. QED BY <2>1, <2>2, Zenon
<1>7. ASSUME NEW i \in Pipes, PipeCloseRead(i) PROVE Abstract!FifoNext
  <2>1. CASE s_pipes[i].in_use
    <3>1. fifo' = [fifo EXCEPT ![i] = [in_use |-> ~s_pipes[i].write_closed, q |-> fifo[i].q,
                                       write_closed |-> s_pipes[i].write_closed,
                                       read_closed |-> TRUE]]
      <4>1. s_pipes' = [s_pipes EXCEPT ![i] = Flagged(s_pipes[i], ~s_pipes[i].write_closed,
                                                      s_pipes[i].write_closed, TRUE)]
        BY <1>7, <2>1, Zenon DEF PipeCloseRead
      <4>. QED BY <1>3, <1>4, <4>1, ZenonT(60)
    <3>2. Abstract!Ends(fifo[i], fifo[i].write_closed, TRUE)
            = [in_use |-> ~s_pipes[i].write_closed, q |-> fifo[i].q,
               write_closed |-> s_pipes[i].write_closed, read_closed |-> TRUE]
      BY <1>4, Zenon DEF Abstract!Ends
    <3>3. Abstract!FCloseRead(i)
      BY <1>4, <1>7, <2>1, <3>1, <3>2, Zenon DEF PipeCloseRead, Abstract!FCloseRead
    <3>. QED BY <3>3, Zenon DEF Abstract!FifoNext
  <2>2. CASE ~s_pipes[i].in_use
    <3>1. UNCHANGED fifo
      BY <1>7, <2>2, Zenon DEF PipeCloseRead, fifo, Contents, Slot
    <3>2. Abstract!FCloseRead(i)
      BY <1>4, <1>7, <2>2, <3>1, Zenon DEF PipeCloseRead, Abstract!FCloseRead
    <3>. QED BY <3>2, Zenon DEF Abstract!FifoNext
  <2>. QED BY <2>1, <2>2, Zenon
<1>8. ASSUME NEW i \in Pipes, NEW data \in Data, PipeWrite(i, data)
      PROVE  Abstract!FifoNext
  <2>. DEFINE p == s_pipes[i]
              w == Written(p, data)
  <2>1. w = Abstract!Least(Len(data), Cap - Len(fifo[i].q))
    BY <1>4, ContentsLen, Zenon DEF Written, Least, Abstract!Least
  <2>2. CASE p.in_use /\ ~p.read_closed
    <3>1. Pushed(p, data) \in Ring /\ Contents(Pushed(p, data)) = fifo[i].q \o SubSeq(data, 1, w)
      BY <1>4, WriteAppends, Zenon
    <3>2. /\ Pushed(p, data).in_use = TRUE
          /\ Pushed(p, data).write_closed = fifo[i].write_closed
          /\ Pushed(p, data).read_closed = fifo[i].read_closed
      BY <1>4, <2>2, Zenon DEF Pushed
    <3>3. s_pipes' = [s_pipes EXCEPT ![i] = Pushed(p, data)] /\ ret' = <<w>>
      BY <1>8, <2>2, Zenon DEF PipeWrite
    <3>4. fifo' = [fifo EXCEPT ![i] = [in_use |-> Pushed(p, data).in_use,
                                       q |-> Contents(Pushed(p, data)),
                                       write_closed |-> Pushed(p, data).write_closed,
                                       read_closed |-> Pushed(p, data).read_closed]]
      BY <3>1, <3>3, FifoExcept, Zenon
    <3>. HIDE DEF w
    <3>5. fifo' = [fifo EXCEPT ![i] = Abstract!Holding(fifo[i], TRUE,
                                                       fifo[i].q \o SubSeq(data, 1, w))]
      BY <3>1, <3>2, <3>4, Zenon DEF Abstract!Holding
    <3>6. Abstract!FWrite(i, data)
      BY <1>4, <2>1, <2>2, <3>3, <3>5, Zenon DEF Abstract!FWrite
    <3>. QED BY <3>6, Zenon DEF Abstract!FifoNext, Abstract!Data, Data
  <2>3. CASE ~(p.in_use /\ ~p.read_closed)
    <3>1. UNCHANGED fifo
      BY <1>8, <2>3, Zenon DEF PipeWrite, fifo, Contents, Slot
    <3>2. Abstract!FWrite(i, data)
      BY <1>4, <1>8, <2>3, <3>1, Zenon DEF PipeWrite, Abstract!FWrite
    <3>. QED BY <3>2, Zenon DEF Abstract!FifoNext, Abstract!Data, Data
  <2>. QED BY <2>2, <2>3, Zenon
<1>9. ASSUME NEW i \in Pipes, NEW len \in 0..MaxLen, PipeRead(i, len)
      PROVE  Abstract!FifoNext
  <2>. DEFINE p == s_pipes[i]
              n == Least(len, p.count)
  <2>1. n = Abstract!Least(len, Len(fifo[i].q)) /\ (fifo[i].q = <<>> <=> p.count = 0)
    BY <1>4, ContentsLen, Zenon DEF Least, Abstract!Least
  <2>2. CASE p.in_use /\ p.count # 0
    <3>0. n \in 0..p.count
      BY <1>4, RingConstants, SMTT(40) DEF Least, Ring
    <3>1. /\ Popped(p, n) \in Ring
          /\ Contents(Popped(p, n)) = SubSeq(fifo[i].q, n + 1, Len(fifo[i].q))
          /\ [k \in 1..n |-> p.buf[Slot(p, k - 1)]] = SubSeq(fifo[i].q, 1, n)
      <4>1. p \in Ring /\ fifo[i].q = Contents(p)
        BY <1>4, Zenon
      <4>2. /\ Popped(p, n) \in Ring
            /\ Contents(Popped(p, n)) = SubSeq(Contents(p), n + 1, Len(Contents(p)))
            /\ [k \in 1..n |-> p.buf[Slot(p, k - 1)]] = SubSeq(Contents(p), 1, n)
        <5>. HIDE DEF p, n
        <5>. QED BY <4>1, <3>0, ReadTakes, Zenon
      <4>. QED BY <4>1, <4>2, Zenon
    <3>2. /\ Popped(p, n).in_use = TRUE
          /\ Popped(p, n).write_closed = fifo[i].write_closed
          /\ Popped(p, n).read_closed = fifo[i].read_closed
      BY <1>4, <2>2, Zenon DEF Popped
    <3>3. /\ s_pipes' = [s_pipes EXCEPT ![i] = Popped(p, n)]
          /\ ret' = <<n, [k \in 1..n |-> p.buf[Slot(p, k - 1)]]>>
      BY <1>9, <2>2, Zenon DEF PipeRead
    <3>4. fifo' = [fifo EXCEPT ![i] = [in_use |-> Popped(p, n).in_use,
                                       q |-> Contents(Popped(p, n)),
                                       write_closed |-> Popped(p, n).write_closed,
                                       read_closed |-> Popped(p, n).read_closed]]
      BY <3>1, <3>3, FifoExcept, Zenon
    <3>. HIDE DEF n
    <3>5. fifo' = [fifo EXCEPT ![i] =
                     Abstract!Holding(fifo[i], TRUE, SubSeq(fifo[i].q, n + 1, Len(fifo[i].q)))]
      BY <3>1, <3>2, <3>4, Zenon DEF Abstract!Holding
    <3>6. ret' = <<n, SubSeq(fifo[i].q, 1, n)>>
      BY <3>1, <3>3, Zenon
    <3>7. Abstract!FRead(i, len)
      BY <1>4, <2>1, <2>2, <3>5, <3>6, Zenon DEF Abstract!FRead
    <3>. QED BY <3>7, Zenon DEF Abstract!FifoNext
  <2>3. CASE ~(p.in_use /\ p.count # 0)
    <3>1. UNCHANGED fifo
      BY <1>9, <2>3, Zenon DEF PipeRead, fifo, Contents, Slot
    <3>2. Abstract!FRead(i, len)
      BY <1>4, <1>9, <2>1, <2>3, <3>1, Zenon DEF PipeRead, Abstract!FRead
    <3>. QED BY <3>2, Zenon DEF Abstract!FifoNext
  <2>. QED BY <2>2, <2>3, Zenon
<1>10. CASE UNCHANGED pipeVars
  BY <1>10, Zenon DEF pipeVars, fifo, Contents, Slot
<1>. QED BY <1>1, <1>2, <1>5, <1>6, <1>7, <1>8, <1>9, <1>10, Zenon DEF PipeNext

(* pipe.c's ring buffers implement bounded byte FIFOs: for every capacity, number
   of pipes and length of transfer, the bytes come out in the order they went in,
   none is lost or overwritten, and each call returns what a FIFO would. *)
THEOREM PipeImplementsFifo == PipeSpec => ImplementsFifo
<1>1. PipeInit => Abstract!FifoInit
  <2>1. SUFFICES ASSUME PipeInit PROVE Abstract!FifoInit
    BY Zenon
  <2>2. Cleared(FALSE) \in Ring /\ Cleared(FALSE).count = 0
    BY RingConstants DEF Cleared, Ring
  <2>3. Contents(Cleared(FALSE)) = <<>>
    BY <2>2, ContentsLen, Zenon
  <2>4. /\ Cleared(FALSE).in_use = FALSE /\ Cleared(FALSE).write_closed = FALSE
        /\ Cleared(FALSE).read_closed = FALSE
    BY Zenon DEF Cleared
  <2>5. s_pipes = [i \in Pipes |-> Cleared(FALSE)] /\ ret = <<>>
    BY <2>1, Zenon DEF PipeInit
  <2>. QED BY <2>3, <2>4, <2>5, Zenon DEF Abstract!FifoInit, fifo
<1>2. PipeTypeOK /\ [PipeNext]_pipeVars => [Abstract!FifoNext]_(Abstract!fifoVars)
  BY StepRefines, Zenon DEF Abstract!fifoVars
<1>. QED BY <1>1, <1>2, PipeTypeSafe, PTL DEF PipeSpec, ImplementsFifo, Abstract!FifoSpec

-----------------------------------------------------------------------------
(* The start of the other CPUs *)

(* The entry smp_init is at is an AP of the MADT, and the entries are distinct. *)
LEMMA MadtFacts ==
  /\ Len(Madt) \in Nat
  /\ \A i \in 1..Len(Madt) : Madt[i] \in Cpus
  /\ \A c \in Cpus : \E i \in 1..Len(Madt) : c = Madt[i]
  /\ \A i, j \in 1..Len(Madt) : Madt[i] = Madt[j] => i = j
BY SmpConstants, SMTT(40) DEF Cpus

LEMMA TargetFacts ==
  ASSUME TurnInv, turn <= Len(Madt)
  PROVE  /\ turn \in 1..Len(Madt) /\ Target \in Cpus /\ turn + 1 \in 1..Len(Madt) + 1
         /\ turn \in turn..Len(Madt)
         /\ \A i \in turn + 1..Len(Madt) : i \in turn..Len(Madt) /\ i > turn /\ Madt[i] # Target
<1>1. turn \in 1..Len(Madt) /\ Len(Madt) \in Nat
  BY MadtFacts, SMTT(40) DEF TurnInv
<1>2. /\ turn + 1 \in 1..Len(Madt) + 1 /\ turn \in turn..Len(Madt)
      /\ \A i \in turn + 1..Len(Madt) : i \in turn..Len(Madt) /\ i > turn /\ i # turn /\ i \in 1..Len(Madt)
  BY <1>1, SMTT(40)
<1>. QED BY <1>1, <1>2, MadtFacts, Zenon DEF Target

(* NoneLate is lost for good. *)
LEMMA LateForGood ==
  ASSUME TurnInv, SmpNext, NoneLate'
  PROVE  NoneLate
<1>. SUFFICES ASSUME NEW c \in missed PROVE ap[c] = "init"
  BY Zenon DEF NoneLate
<1>1. c \in Cpus /\ ap \in [Cpus -> {"reset", "init", "real", "stacked", "entry", "idle"}]
  BY Zenon DEF TurnInv
<1>2. c \in missed'
  BY Zenon DEF SmpNext, SkipCpu, FillBootData, SendInit, FirstSipi, SecondSipi, AwaitReady, Online,
               LoadStack, SignalReady, ApEntry
<1>3. ap'[c] = "init"
  BY <1>2, Zenon DEF NoneLate
<1>4. CASE SkipCpu \/ FillBootData \/ AwaitReady
  BY <1>3, <1>4, Zenon DEF SkipCpu, FillBootData, AwaitReady, Online
<1>5. CASE SendInit
  <2>1. turn <= Len(Madt) /\ ap' = [ap EXCEPT ![Target] = "init"]
    BY <1>5, Zenon DEF SendInit, TurnInv
  <2>2. turn \in turn..Len(Madt) /\ \A i \in turn..Len(Madt) : c # Madt[i]
    BY <2>1, TargetFacts, Zenon DEF TurnInv
  <2>3. c # Target
    BY <2>2, Zenon DEF Target
  <2>. QED BY <1>1, <1>3, <2>1, <2>3, Zenon
<1>6. CASE FirstSipi \/ SecondSipi
  <2>1. ap' = ap \/ ap' = [ap EXCEPT ![Target] = "real"]
    BY <1>6, Zenon DEF FirstSipi, SecondSipi, Online, Sipi
  <2>2. CASE ap' = [ap EXCEPT ![Target] = "real"]
    <3>1. CASE c = Target
      BY <1>1, <1>3, <2>2, <3>1, Zenon
    <3>2. CASE c # Target
      BY <1>1, <1>3, <2>2, <3>2, Zenon
    <3>. QED BY <3>1, <3>2, Zenon
  <2>. QED BY <1>3, <2>1, <2>2, Zenon
<1>7. ASSUME NEW d \in Cpus, LoadStack(d) \/ SignalReady(d) \/ ApEntry(d) PROVE ap[c] = "init"
  <2>1. PICK m \in {"stacked", "entry", "idle"} : ap' = [ap EXCEPT ![d] = m]
    BY <1>7, Zenon DEF LoadStack, SignalReady, ApEntry, ApStep
  <2>2. CASE c = d
    BY <1>1, <1>3, <2>1, <2>2, Zenon
  <2>3. CASE c # d
    BY <1>1, <1>3, <2>1, <2>3, Zenon
  <2>. QED BY <2>2, <2>3, Zenon
<1>. QED BY <1>4, <1>5, <1>6, <1>7, Zenon DEF SmpNext

(* smp_init's loop goes on to the next entry of the MADT. *)
LEMMA TurnAdvance ==
  ASSUME TurnInv, turn <= Len(Madt), turn' = turn + 1, bsp' = "loop",
         UNCHANGED <<ap_stack, ap_ready, ap, rsp, cpu_idle>>,
         started' \subseteq started \cup {Target}, missed' \subseteq missed \cup {Target},
         bsp # "loop" \/ (started' = started /\ missed' = missed)
  PROVE  TurnInv'
<1>1. /\ turn' \in 1..Len(Madt) + 1 /\ Target \in Cpus
      /\ \A i \in turn'..Len(Madt) : i \in turn..Len(Madt) /\ i > turn /\ Madt[i] # Target
  BY TargetFacts, Zenon
<1>2. started' \subseteq Cpus /\ missed' \subseteq Cpus
  BY <1>1, Zenon DEF TurnInv
<1>3. \A c \in (missed \cup started)' : \A i \in turn'..Len(Madt) : c # Madt[i]
  BY <1>1, Zenon DEF TurnInv
<1>4. \A i \in turn'..Len(Madt) : ap'[Madt[i]] = "reset"
  BY <1>1, Zenon DEF TurnInv
<1>5. /\ ap' \in [Cpus -> {"reset", "init", "real", "stacked", "entry", "idle"}]
      /\ rsp' \in [Cpus -> Cpus \cup {NoStack}] /\ ap_stack' \in Cpus \cup {NoStack}
      /\ ap_ready' \in BOOLEAN
  BY Zenon DEF TurnInv
<1>. QED BY <1>1, <1>2, <1>3, <1>4, <1>5, Zenon DEF TurnInv

(* A step of one CPU d within a turn: only the BSP takes an AP out of reset, and only
   the one whose turn it is. *)
LEMMA TurnStay ==
  ASSUME TurnInv, turn' = turn, started' = started, missed' = missed, NEW d \in Cpus,
         NEW m \in {"reset", "init", "real", "stacked", "entry", "idle"}, ap' = ap \/ ap' = [ap EXCEPT ![d] = m],
         ap' = ap \/ ap[d] # "reset" \/ (d = Target /\ turn <= Len(Madt) /\ bsp' \notin {"loop", "filled"}),
         bsp' \in {"loop", "filled", "sipi", "sent", "wait"},
         bsp' \in {"loop", "filled"} => bsp \in {"loop", "filled"},
         bsp' # "loop" => turn <= Len(Madt) /\ ap_stack' = Target /\ Target \in cpu_idle',
         rsp' \in [Cpus -> Cpus \cup {NoStack}], ap_stack' \in Cpus \cup {NoStack}, ap_ready' \in BOOLEAN
  PROVE  TurnInv'
<1>1. ap \in [Cpus -> {"reset", "init", "real", "stacked", "entry", "idle"}]
  BY Zenon DEF TurnInv
<1>2. /\ ap' \in [Cpus -> {"reset", "init", "real", "stacked", "entry", "idle"}]
      /\ \A c \in Cpus : c # d => ap'[c] = ap[c]
  BY <1>1, Zenon
<1>3. Target' = Target /\ turn \in 1..Len(Madt) + 1
  BY Zenon DEF Target, TurnInv
<1>4. ASSUME NEW i \in turn..Len(Madt), i > turn \/ bsp' \in {"loop", "filled"}
      PROVE  ap'[Madt[i]] = "reset"
  <2>1. i \in 1..Len(Madt)
    BY <1>3, MadtFacts, SMTT(40)
  <2>2. Madt[i] \in Cpus /\ ap[Madt[i]] = "reset"
    BY <1>4, <2>1, MadtFacts, Zenon DEF TurnInv
  <2>3. CASE d = Madt[i] /\ ap' # ap
    <3>1. d = Target /\ turn <= Len(Madt) /\ bsp' \notin {"loop", "filled"}
      BY <2>2, <2>3, Zenon
    <3>2. i > turn /\ turn \in 1..Len(Madt) /\ i # turn
      BY <1>3, <1>4, <2>1, <3>1, MadtFacts, SMTT(40)
    <3>. QED BY <2>1, <2>3, <3>1, <3>2, MadtFacts, Zenon DEF Target
  <2>. QED BY <1>2, <2>2, <2>3, Zenon
<1>5. \A c \in missed \cup started : \A i \in turn..Len(Madt) : c # Madt[i]
  BY Zenon DEF TurnInv
<1>6. started' \subseteq Cpus /\ missed' \subseteq Cpus
  BY Zenon DEF TurnInv
<1>. QED BY <1>2, <1>3, <1>4, <1>5, <1>6, Zenon DEF TurnInv

(* Every step of the BSP and of an AP. *)
LEMMA TurnNext ==
  ASSUME TurnInv, SmpNext
  PROVE  TurnInv'
<1>0. /\ rsp \in [Cpus -> Cpus \cup {NoStack}] /\ ap_stack \in Cpus \cup {NoStack} /\ ap_ready \in BOOLEAN
      /\ bsp # "loop" => turn <= Len(Madt) /\ ap_stack = Target /\ Target \in cpu_idle
      /\ bsp \in {"loop", "filled", "sipi", "sent", "wait"}
      /\ ap \in [Cpus -> {"reset", "init", "real", "stacked", "entry", "idle"}]
  BY Zenon DEF TurnInv
<1>1. CASE SkipCpu
  BY <1>1, TurnAdvance, Zenon DEF SkipCpu
<1>2. CASE Online /\ bsp # "loop"
  BY <1>0, <1>2, TurnAdvance, Zenon DEF Online
<1>3. CASE /\ bsp # "loop" /\ missed' = missed \cup {Target} /\ turn' = turn + 1 /\ bsp' = "loop"
           /\ UNCHANGED <<ap_stack, ap_ready, ap, rsp, cpu_idle, started>>
  BY <1>0, <1>3, TurnAdvance, Zenon
<1>4. CASE FillBootData
  <2>1. /\ turn <= Len(Madt) /\ bsp = "loop" /\ bsp' = "filled" /\ ap_stack' = Target
        /\ cpu_idle' = cpu_idle \cup {Target} /\ turn' = turn /\ ap_ready' = ap_ready /\ ap' = ap
        /\ rsp' = rsp /\ started' = started /\ missed' = missed
    BY <1>4, Zenon DEF FillBootData
  <2>2. Target \in Cpus
    BY <2>1, TargetFacts, Zenon
  <2>. QED BY <1>0, <2>1, <2>2, TurnStay, Zenon
<1>5. CASE SendInit
  <2>1. /\ bsp = "filled" /\ bsp' = "sipi" /\ ap' = [ap EXCEPT ![Target] = "init"] /\ ap_ready' = FALSE
        /\ turn' = turn /\ ap_stack' = ap_stack /\ cpu_idle' = cpu_idle
        /\ rsp' = rsp /\ started' = started /\ missed' = missed
    BY <1>5, Zenon DEF SendInit, ReadyCleared
  <2>2. Target \in Cpus /\ ap_stack' = Target /\ Target \in cpu_idle' /\ turn <= Len(Madt)
    BY <1>0, <2>1, TargetFacts, Zenon
  <2>. QED BY <1>0, <2>1, <2>2, TurnStay, Zenon
<1>6. CASE \/ FirstSipi
           \/ /\ bsp = "sent" /\ Sipi /\ bsp' = "wait"
              /\ UNCHANGED <<turn, ap_stack, ap_ready, rsp, cpu_idle, started, missed>>
  <2>1. /\ bsp \notin {"loop", "filled"} /\ bsp' \in {"sent", "wait"} /\ Sipi
        /\ UNCHANGED <<turn, ap_stack, ap_ready, rsp, cpu_idle, started, missed>>
    BY <1>6, Zenon DEF FirstSipi
  <2>2. Target \in Cpus /\ ap_stack' = Target /\ Target \in cpu_idle' /\ turn <= Len(Madt)
    BY <1>0, <2>1, TargetFacts, Zenon
  <2>3. ap' = ap \/ (ap[Target] # "reset" /\ ap' = [ap EXCEPT ![Target] = "real"])
    BY <2>1, Zenon DEF Sipi
  <2>. QED BY <1>0, <2>1, <2>2, <2>3, TurnStay, Zenon
<1>7. ASSUME NEW d \in Cpus, LoadStack(d) \/ SignalReady(d) \/ ApEntry(d) PROVE TurnInv'
  <2>1. PICK m \in {"stacked", "entry", "idle"} : ap' = [ap EXCEPT ![d] = m] /\ ap[d] # "reset"
    BY <1>7, Zenon DEF LoadStack, SignalReady, ApEntry, ApStep
  <2>2. /\ UNCHANGED <<turn, bsp, ap_stack, started, missed>> /\ cpu_idle \subseteq cpu_idle'
        /\ rsp' = rsp \/ rsp' = [rsp EXCEPT ![d] = ap_stack]
        /\ ap_ready' = ap_ready \/ ap_ready' = TRUE
    BY <1>7, Zenon DEF LoadStack, SignalReady, ApEntry
  <2>3. rsp' \in [Cpus -> Cpus \cup {NoStack}] /\ ap_ready' \in BOOLEAN
    BY <1>0, <2>2, Zenon
  <2>4. bsp' # "loop" => turn <= Len(Madt) /\ ap_stack' = Target /\ Target \in cpu_idle'
    BY <1>0, <2>2, Zenon
  <2>. QED BY <1>0, <2>1, <2>2, <2>3, <2>4, TurnStay, Zenon
<1>8. CASE SecondSipi \/ AwaitReady
  BY <1>2, <1>3, <1>6, <1>8, Zenon DEF SecondSipi, AwaitReady
<1>. QED BY <1>1, <1>4, <1>5, <1>6, <1>7, <1>8, Zenon DEF SmpNext

(* The BSP's own steps, as long as no AP is late. *)
LEMMA BootBsp ==
  ASSUME TurnInv, BootInv, NoneLate',
         SkipCpu \/ FillBootData \/ SendInit \/ FirstSipi \/ SecondSipi \/ AwaitReady
  PROVE  BootInv'
<1>0. /\ ap \in [Cpus -> {"reset", "init", "real", "stacked", "entry", "idle"}]
      /\ bsp # "loop" => turn <= Len(Madt) /\ Target \in Cpus
      /\ started \subseteq Cpus
  BY TargetFacts, Zenon DEF TurnInv
<1>1. CASE SkipCpu \/ FillBootData
  <2>1. /\ bsp = "loop" /\ bsp' \in {"loop", "filled"} /\ cpu_idle \subseteq cpu_idle'
        /\ ap' = ap /\ rsp' = rsp /\ started' = started
    BY <1>1, Zenon DEF SkipCpu, FillBootData
  <2>2. \A c \in Cpus : ~Awaited(c)
    BY <2>1, Zenon DEF Awaited
  <2>. QED BY <2>1, <2>2, Zenon DEF BootInv
<1>2. CASE SendInit
  <2>1. /\ bsp = "filled" /\ bsp' = "sipi" /\ ap' = [ap EXCEPT ![Target] = "init"] /\ ap_ready' = FALSE
        /\ turn' = turn /\ cpu_idle' = cpu_idle /\ rsp' = rsp /\ started' = started
    BY <1>2, Zenon DEF SendInit, ReadyCleared
  <2>2. /\ ap'[Target] = "init" /\ \A c \in Cpus : c # Target => ap'[c] = ap[c]
    BY <1>0, <2>1, Zenon
  <2>3. \A c \in Cpus : ~Awaited(c)
    BY <2>1, Zenon DEF Awaited
  <2>4. Target \notin started
    <3>1. turn \in turn..Len(Madt) /\ \A c \in started : \A i \in turn..Len(Madt) : c # Madt[i]
      BY <1>0, <2>1, TargetFacts, Zenon DEF TurnInv
    <3>. QED BY <3>1, Zenon DEF Target
  <2>5. ASSUME NEW c \in Cpus, c # Target
        PROVE  /\ ap'[c] \in {"stacked", "entry", "idle"} => rsp[c] = c /\ c \in cpu_idle
               /\ ap'[c] \notin {"real", "stacked"} /\ (ap'[c] \in {"entry", "idle"} <=> c \in started)
    BY <1>0, <2>2, <2>3, <2>5, Zenon DEF BootInv
  <2>. QED BY <1>0, <2>1, <2>2, <2>4, <2>5, ZenonT(60) DEF BootInv
<1>3. CASE FirstSipi
  <2>1. /\ bsp = "sipi" /\ bsp' = "sent" /\ Sipi /\ turn' = turn /\ ap_ready' = ap_ready
        /\ cpu_idle' = cpu_idle /\ rsp' = rsp /\ started' = started
    BY <1>3, Zenon DEF FirstSipi
  <2>2. \A c \in Cpus : ~Awaited(c)
    BY <2>1, Zenon DEF Awaited
  <2>3. Awaited(Target)' /\ Target' = Target
    BY <2>1, Zenon DEF Awaited, Target
  <2>4. CASE ap' = ap
    BY <2>1, <2>2, <2>3, <2>4, Zenon DEF BootInv
  <2>5. CASE ap[Target] = "init" /\ ap' = [ap EXCEPT ![Target] = "real"]
    <3>1. /\ ap'[Target] = "real" /\ \A c \in Cpus : c # Target => ap'[c] = ap[c]
      BY <1>0, <2>1, <2>5, Zenon
    <3>2. ~ap_ready /\ Target \notin started
      BY <2>1, <2>5, Zenon DEF BootInv
    <3>3. ASSUME NEW c \in Cpus, c # Target
          PROVE  /\ ap'[c] \in {"stacked", "entry", "idle"} => rsp[c] = c /\ c \in cpu_idle
                 /\ ap'[c] \notin {"real", "stacked"} /\ (ap'[c] \in {"entry", "idle"} <=> c \in started)
      BY <1>0, <2>2, <3>1, <3>3, Zenon DEF BootInv
    <3>. QED BY <1>0, <2>1, <2>3, <3>1, <3>2, <3>3, Zenon DEF BootInv
  <2>. QED BY <2>1, <2>4, <2>5, Zenon DEF Sipi
<1>4. CASE /\ bsp = "sent" /\ ~ap_ready /\ Sipi /\ bsp' = "wait"
           /\ UNCHANGED <<turn, ap_stack, ap_ready, rsp, cpu_idle, started, missed>>
  <2>1. Target' = Target /\ Awaited(Target)' /\ \A c \in Cpus : Awaited(c) => c = Target
    BY <1>4, Zenon DEF Awaited, Target
  <2>2. CASE ap' = ap
    BY <1>4, <2>1, <2>2, Zenon DEF BootInv
  <2>3. CASE ap[Target] = "init" /\ ap' = [ap EXCEPT ![Target] = "real"]
    <3>1. /\ ap'[Target] = "real" /\ \A c \in Cpus : c # Target => ap'[c] = ap[c]
      BY <1>0, <1>4, <2>3, Zenon
    <3>2. Target \notin started
      BY <2>3, Zenon DEF BootInv
    <3>3. ASSUME NEW c \in Cpus, c # Target
          PROVE  /\ ap'[c] \in {"stacked", "entry", "idle"} => rsp[c] = c /\ c \in cpu_idle
                 /\ ap'[c] \notin {"real", "stacked"} /\ (ap'[c] \in {"entry", "idle"} <=> c \in started)
      BY <1>0, <2>1, <3>1, <3>3, Zenon DEF BootInv
    <3>. QED BY <1>0, <1>4, <2>1, <3>1, <3>2, <3>3, Zenon DEF BootInv
  <2>. QED BY <1>4, <2>2, <2>3, Zenon DEF Sipi
<1>5. CASE Online /\ bsp \in {"sent", "wait"}
  <2>1. /\ bsp' = "loop" /\ started' = started \cup {Target} /\ ap' = ap /\ rsp' = rsp /\ cpu_idle' = cpu_idle
        /\ ap[Target] \in {"entry", "idle"}
    BY <1>5, Zenon DEF Online, BootInv
  <2>2. \A c \in Cpus : Awaited(c) => c = Target
    BY Zenon DEF Awaited
  <2>3. \A c \in Cpus : ap'[c] \notin {"real", "stacked"}
    BY <2>1, <2>2, Zenon DEF BootInv
  <2>4. \A c \in Cpus : ap'[c] \in {"entry", "idle"} => c \in started'
    BY <2>1, <2>2, Zenon DEF BootInv
  <2>. QED BY <2>1, <2>3, <2>4, Zenon DEF BootInv
<1>6. CASE /\ bsp = "wait" /\ missed' = missed \cup {Target} /\ bsp' = "loop"
           /\ UNCHANGED <<ap_stack, ap_ready, ap, rsp, cpu_idle, started>>
  <2>1. ap[Target] = "init"
    BY <1>6, Zenon DEF NoneLate
  <2>2. \A c \in Cpus : Awaited(c) => c = Target
    BY Zenon DEF Awaited
  <2>3. \A c \in Cpus : ap[c] \notin {"real", "stacked"} /\ (ap[c] \in {"entry", "idle"} => c \in started)
    BY <2>1, <2>2, Zenon DEF BootInv
  <2>. QED BY <1>6, <2>3, Zenon DEF BootInv
<1>. QED BY <1>1, <1>2, <1>3, <1>4, <1>5, <1>6, Zenon DEF SecondSipi, AwaitReady

(* An AP's steps. *)
LEMMA BootAp ==
  ASSUME TurnInv, BootInv, NEW d \in Cpus, LoadStack(d) \/ SignalReady(d) \/ ApEntry(d)
  PROVE  BootInv'
<1>0. /\ ap \in [Cpus -> {"reset", "init", "real", "stacked", "entry", "idle"}]
      /\ rsp \in [Cpus -> Cpus \cup {NoStack}] /\ started \subseteq Cpus
      /\ bsp # "loop" => ap_stack = Target /\ Target \in cpu_idle
  BY Zenon DEF TurnInv
<1>1. UNCHANGED <<turn, bsp, started>> /\ Target' = Target /\ \A c \in Cpus : Awaited(c)' <=> Awaited(c)
  BY Zenon DEF LoadStack, SignalReady, ApEntry, Target, Awaited
<1>2. CASE LoadStack(d)
  <2>1. /\ ap[d] = "real" /\ ap' = [ap EXCEPT ![d] = "stacked"] /\ rsp' = [rsp EXCEPT ![d] = ap_stack]
        /\ ap_ready' = ap_ready /\ cpu_idle' = cpu_idle
    BY <1>2, Zenon DEF LoadStack, ApStep
  <2>2. Awaited(d) /\ d = Target /\ ap_stack = d /\ d \in cpu_idle /\ bsp \in {"sent", "wait"}
    <3>1. Awaited(d)
      BY <2>1, Zenon DEF BootInv
    <3>2. d = Target /\ bsp \in {"sent", "wait"} /\ bsp # "loop"
      BY <3>1, Zenon DEF Awaited
    <3>. QED BY <1>0, <3>1, <3>2, Zenon
  <2>3. /\ ap'[d] = "stacked" /\ rsp'[d] = d
        /\ \A c \in Cpus : c # d => ap'[c] = ap[c] /\ rsp'[c] = rsp[c]
    BY <1>0, <2>1, <2>2, Zenon
  <2>4. d \notin started /\ ~ap_ready
    BY <2>1, <2>2, Zenon DEF BootInv
  <2>. QED BY <1>0, <1>1, <2>1, <2>2, <2>3, <2>4, Zenon DEF BootInv
<1>3. CASE SignalReady(d)
  <2>1. /\ ap[d] = "stacked" /\ ap' = [ap EXCEPT ![d] = "entry"] /\ rsp' = rsp
        /\ ap_ready' = TRUE /\ cpu_idle' = cpu_idle
    BY <1>3, Zenon DEF SignalReady, ApStep
  <2>2. Awaited(d) /\ d = Target /\ rsp[d] = d /\ d \in cpu_idle
    BY <2>1, Zenon DEF BootInv, Awaited
  <2>3. /\ ap'[d] = "entry" /\ \A c \in Cpus : c # d => ap'[c] = ap[c]
    BY <1>0, <2>1, Zenon
  <2>. QED BY <1>0, <1>1, <2>1, <2>2, <2>3, Zenon DEF BootInv
<1>4. CASE ApEntry(d)
  <2>1. /\ ap[d] = "entry" /\ ap' = [ap EXCEPT ![d] = "idle"] /\ rsp' = rsp
        /\ ap_ready' = ap_ready /\ cpu_idle' = cpu_idle \cup {d}
    BY <1>4, Zenon DEF ApEntry, ApStep
  <2>2. /\ ap'[d] = "idle" /\ \A c \in Cpus : c # d => ap'[c] = ap[c]
    BY <1>0, <2>1, Zenon
  <2>3. rsp[d] = d /\ (d \in started \/ Awaited(d))
    BY <2>1, Zenon DEF BootInv
  <2>4. ap_ready' /\ bsp \in {"sipi", "sent", "wait"} => ap'[Target] \in {"entry", "idle"}
    <3>1. CASE Target = d
      BY <2>2, <3>1, Zenon
    <3>2. CASE Target # d
      <4>1. bsp # "loop" => Target \in Cpus
        BY TargetFacts, Zenon DEF TurnInv
      <4>. QED BY <2>1, <2>2, <3>2, <4>1, Zenon DEF BootInv
    <3>. QED BY <3>1, <3>2, Zenon
  <2>. QED BY <1>0, <1>1, <2>1, <2>2, <2>3, <2>4, Zenon DEF BootInv
<1>. QED BY <1>2, <1>3, <1>4, Zenon

LEMMA SmpInitInv == SmpInit => SmpInv
<1>. SUFFICES ASSUME SmpInit PROVE SmpInv
  BY Zenon
<1>1. 1 \in 1..Len(Madt) + 1 /\ \A i \in 1..Len(Madt) : Madt[i] \in Cpus
  BY MadtFacts, SMTT(40)
<1>2. /\ turn = 1 /\ bsp = "loop" /\ ap_stack = NoStack /\ ap_ready = FALSE
      /\ ap = [c \in Cpus |-> "reset"] /\ rsp = [c \in Cpus |-> NoStack]
      /\ started = {} /\ missed = {}
  BY Zenon DEF SmpInit
<1>3. TurnInv
  BY <1>1, <1>2, Zenon DEF TurnInv
<1>4. BootInv
  BY <1>2, Zenon DEF BootInv
<1>. QED BY <1>3, <1>4, Zenon DEF SmpInv

LEMMA SmpStutter ==
  ASSUME SmpInv, UNCHANGED smpVars
  PROVE  SmpInv'
<1>1. /\ turn' = turn /\ bsp' = bsp /\ ap_stack' = ap_stack /\ ap_ready' = ap_ready /\ ap' = ap
      /\ rsp' = rsp /\ cpu_idle' = cpu_idle /\ started' = started /\ missed' = missed
  BY Zenon DEF smpVars
<1>2. Target' = Target /\ (NoneLate' <=> NoneLate)
  BY <1>1, Zenon DEF Target, NoneLate
<1>3. TurnInv'
  BY <1>1, <1>2, Zenon DEF SmpInv, TurnInv
<1>4. NoneLate' => BootInv'
  BY <1>1, <1>2, Zenon DEF SmpInv, BootInv, Awaited
<1>. QED BY <1>3, <1>4, Zenon DEF SmpInv

(* SmpInv is an invariant of smp_init and the APs it starts. *)
THEOREM SmpInvariant == SmpSpec => []SmpInv
<1>1. SmpInit => SmpInv
  BY SmpInitInv, Zenon
<1>2. SmpInv /\ [SmpNext]_smpVars => SmpInv'
  <2>1. ASSUME SmpInv, SmpNext PROVE SmpInv'
    <3>1. TurnInv'
      BY <2>1, TurnNext, Zenon DEF SmpInv
    <3>2. ASSUME NoneLate' PROVE BootInv'
      <4>1. TurnInv /\ BootInv
        BY <2>1, <3>2, LateForGood, Zenon DEF SmpInv
      <4>. QED BY <2>1, <3>2, <4>1, BootBsp, BootAp, Zenon DEF SmpNext
    <3>. QED BY <3>1, <3>2, Zenon DEF SmpInv
  <2>. QED BY <2>1, SmpStutter, Zenon
<1>. QED BY <1>1, <1>2, PTL DEF SmpSpec

(* ApsApart: however slowly the APs go through the shared trampoline, each one that
   runs has its own stack and idle thread, unless one answers after smp_init has given
   up on it. *)
THEOREM ApsApartHolds == SmpSpec => []ApsApart
<1>1. SmpInv => ApsApart
  BY Zenon DEF SmpInv, TurnInv, BootInv, ApsApart, Awaited
<1>. QED BY <1>1, SmpInvariant, PTL

-----------------------------------------------------------------------------
(* DHCP and DNS *)

Callbacks == {"none", "dhcp_recv_offer", "dhcp_recv_ack", "dns_recv_cb"}

(* udp_bind adds at most its own callback, udp_unbind leaves none of the port. *)
LEMMA BoundFacts ==
  ASSUME NEW binds \in [Bind -> Callbacks], NEW fn \in Callbacks
  PROVE  /\ Bound(binds, fn) \in [Bind -> Callbacks]
         /\ \A i \in Bind : Bound(binds, fn)[i] \in {binds[i], fn}
<1>. DEFINE free == {i \in Bind : binds[i] = "none"}  e == First(free)
<1>1. Bound(binds, fn) = IF free = {} THEN binds ELSE [binds EXCEPT ![e] = fn]
  BY Zenon DEF Bound
<1>. HIDE DEF free, e
<1>. QED BY <1>1, Zenon

LEMMA UnboundFacts ==
  ASSUME NEW binds \in [Bind -> Callbacks], NEW fns
  PROVE  /\ Unbound(binds, fns) \in [Bind -> Callbacks]
         /\ \A i \in Bind : Unbound(binds, fns)[i] = IF binds[i] \in fns THEN "none" ELSE binds[i]
<1>. QED BY Zenon DEF Unbound, Callbacks

(* What parse_options makes of a message, by the callback that is bound. *)
LEMMA ParsedFacts ==
  ASSUME DhcpInv, NEW m \in wire, m.type \in {"OFFER", "ACK"}, m.from \in Server, NEW d, d = Parsed(m)
  PROVE  /\ d \in DhcpVars
         /\ m.type = "OFFER" => d.got_ack = dhcp.got_ack
         /\ d.got_offer => dhcp.got_offer
                           \/ /\ d.server = m.from
                              /\ d.subnet \in {0, Lease[m.from].subnet}
                              /\ d.gateway \in {0, Lease[m.from].gateway}
                              /\ d.dns \in {0, Lease[m.from].dns}
         /\ ~Listening("dhcp_recv_offer") =>
              /\ d.subnet = dhcp.subnet \/ (m.type = "ACK" /\ d.subnet = Lease[m.from].subnet)
              /\ d.gateway = dhcp.gateway \/ (m.type = "ACK" /\ d.gateway = Lease[m.from].gateway)
              /\ d.dns = dhcp.dns \/ (m.type = "ACK" /\ d.dns = Lease[m.from].dns)
              /\ d.got_ack => \/ dhcp.got_ack /\ d.ip = dhcp.ip
                              \/ m.type = "ACK" /\ d.ip = Lease[m.from].ip
<1>. DEFINE l == Lease[m.from]
            seen == [dhcp EXCEPT !.server = m.from]
            offered == [ip |-> l.ip, server |-> m.from, subnet |-> IF m.full THEN l.subnet ELSE 0,
                        gateway |-> IF m.full THEN l.gateway ELSE 0, dns |-> IF m.full THEN l.dns ELSE 0,
                        got_offer |-> TRUE, got_ack |-> dhcp.got_ack]
            acked == [ip |-> l.ip, server |-> m.from, subnet |-> IF m.full THEN l.subnet ELSE dhcp.subnet,
                      gateway |-> IF m.full THEN l.gateway ELSE dhcp.gateway,
                      dns |-> IF m.full THEN l.dns ELSE dhcp.dns,
                      got_offer |-> dhcp.got_offer, got_ack |-> TRUE]
<1>1. dhcp \in DhcpVars /\ l \in Offered /\ m.from \in Nat
  BY UdpConstants, Zenon DEF DhcpInv
<1>2. \/ d = offered /\ m.type = "OFFER" /\ Listening("dhcp_recv_offer")
      \/ d = acked /\ m.type = "ACK"
      \/ d = seen
      \/ d = dhcp
  BY SMTT(40) DEF Parsed, AckTypes
<1>. HIDE DEF l
<1>3. CASE d = offered /\ m.type = "OFFER" /\ Listening("dhcp_recv_offer")
  <2>1. /\ d.server = m.from /\ d.got_ack = dhcp.got_ack
        /\ d.subnet = IF m.full THEN l.subnet ELSE 0
        /\ d.gateway = IF m.full THEN l.gateway ELSE 0
        /\ d.dns = IF m.full THEN l.dns ELSE 0
    BY <1>1, <1>3, SMTT(40) DEF DhcpVars
  <2>2. d \in DhcpVars
    <3>1. /\ {l.ip, l.subnet, l.gateway, l.dns, dhcp.subnet, dhcp.gateway, dhcp.dns, m.from, 0} \subseteq Nat
          /\ dhcp.got_offer \in BOOLEAN /\ dhcp.got_ack \in BOOLEAN
      BY <1>1, SMTT(40) DEF DhcpVars, Offered
    <3>. QED BY <1>3, <3>1, SMTT(40) DEF DhcpVars
  <2>3. Listening("dhcp_recv_offer")
    BY <1>3, Zenon
  <2>. QED BY <1>3, <2>1, <2>2, <2>3, Zenon DEF l
<1>4. CASE d = acked /\ m.type = "ACK"
  <2>1. /\ d.got_offer = dhcp.got_offer /\ d.ip = l.ip
        /\ d.subnet = IF m.full THEN l.subnet ELSE dhcp.subnet
        /\ d.gateway = IF m.full THEN l.gateway ELSE dhcp.gateway
        /\ d.dns = IF m.full THEN l.dns ELSE dhcp.dns
    BY <1>1, <1>4, SMTT(40) DEF DhcpVars
  <2>2. d \in DhcpVars
    <3>1. /\ {l.ip, l.subnet, l.gateway, l.dns, dhcp.subnet, dhcp.gateway, dhcp.dns, m.from, 0} \subseteq Nat
          /\ dhcp.got_offer \in BOOLEAN /\ dhcp.got_ack \in BOOLEAN
      BY <1>1, SMTT(40) DEF DhcpVars, Offered
    <3>. QED BY <1>4, <3>1, SMTT(40) DEF DhcpVars
  <2>3. m.type = "ACK" /\ m.type # "OFFER"
    BY <1>4, Zenon
  <2>. QED BY <2>1, <2>2, <2>3, Zenon DEF l
<1>5. CASE d = seen \/ d = dhcp
  <2>1. /\ d \in DhcpVars /\ d.got_offer = dhcp.got_offer /\ d.got_ack = dhcp.got_ack /\ d.ip = dhcp.ip
        /\ d.subnet = dhcp.subnet /\ d.gateway = dhcp.gateway /\ d.dns = dhcp.dns
    BY <1>1, <1>5, SMTT(40) DEF DhcpVars
  <2>. QED BY <2>1, Zenon
<1>. QED BY <1>2, <1>3, <1>4, <1>5, Zenon

(* A step that leaves the variables of dhcp.c and ipv4.c alone, brings no DHCP message
   and binds no DHCP callback. *)
LEMMA DhcpStay ==
  ASSUME DhcpInv, UNCHANGED dhcpVars,
         \A m \in wire' : m \in wire \/ m.type \notin {"OFFER", "ACK"},
         s_binds' \in [Bind -> Callbacks],
         \A i \in Bind : s_binds'[i] \in {s_binds[i], "none", "dns_recv_cb"}
  PROVE  DhcpInv'
<1>1. /\ leased' = leased /\ boot' = boot /\ dhcp' = dhcp /\ requested' = requested /\ cfg' = cfg
  BY Zenon DEF dhcpVars
<1>2. \A fn \in {"dhcp_recv_offer", "dhcp_recv_ack"} : Listening(fn)' => Listening(fn)
  BY Zenon DEF Listening
<1>3. LeaseConsistent' /\ (\A s : Options(s)' <=> Options(s))
  BY <1>1, Zenon DEF DhcpInv, LeaseConsistent, Options
<1>. QED BY <1>1, <1>2, <1>3, Zenon DEF DhcpInv, Callbacks

LEMMA DhcpFrame ==
  ASSUME DhcpInv, NEW m \in wire, Frame(m)
  PROVE  DhcpInv'
<1>1. /\ Polling /\ wire' \subseteq wire
      /\ leased' = leased /\ boot' = boot /\ s_binds' = s_binds /\ requested' = requested /\ cfg' = cfg
  BY Zenon DEF Frame
<1>2. CASE dhcp' = dhcp
  BY <1>1, <1>2, DhcpStay, Zenon DEF dhcpVars, DhcpInv, Callbacks
<1>3. CASE DhcpInput(m)
  <2>1. m.type \in {"OFFER", "ACK"} /\ dhcp' = Parsed(m)
    BY <1>3, Zenon DEF DhcpInput
  <2>2. m.from \in Server
    BY <2>1, Zenon DEF DhcpInv
  <2>. DEFINE d == dhcp'
  <2>3. /\ d \in DhcpVars
        /\ m.type = "OFFER" => d.got_ack = dhcp.got_ack
        /\ d.got_offer => dhcp.got_offer
                          \/ /\ d.server = m.from
                             /\ d.subnet \in {0, Lease[m.from].subnet}
                             /\ d.gateway \in {0, Lease[m.from].gateway}
                             /\ d.dns \in {0, Lease[m.from].dns}
        /\ ~Listening("dhcp_recv_offer") =>
             /\ d.subnet = dhcp.subnet \/ (m.type = "ACK" /\ d.subnet = Lease[m.from].subnet)
             /\ d.gateway = dhcp.gateway \/ (m.type = "ACK" /\ d.gateway = Lease[m.from].gateway)
             /\ d.dns = dhcp.dns \/ (m.type = "ACK" /\ d.dns = Lease[m.from].dns)
             /\ d.got_ack => \/ dhcp.got_ack /\ d.ip = dhcp.ip
                             \/ m.type = "ACK" /\ d.ip = Lease[m.from].ip
    <3>. HIDE DEF d
    <3>1. d = Parsed(m)
      BY <2>1, Zenon DEF d
    <3>. QED BY <2>1, <2>2, <3>1, ParsedFacts, Zenon
  <2>4. boot \in {"offer", "ack", "done"} /\ (boot = "offer" => ~dhcp.got_offer)
    BY <1>1, Zenon DEF Polling
  <2>5. m.type = "ACK" => boot = "ack" /\ m.from = requested /\ requested \in leased
    BY Zenon DEF DhcpInv
  <2>6. boot = "offer" => ~d.got_ack
    BY <2>1, <2>3, <2>5, Zenon DEF DhcpInv
  <2>7. boot = "offer" /\ d.got_offer => (dhcp.server \in Server /\ Options(dhcp.server))'
    <3>1. ASSUME boot = "offer" /\ d.got_offer
          PROVE  /\ d.server = m.from
                 /\ d.subnet \in {0, Lease[m.from].subnet}
                 /\ d.gateway \in {0, Lease[m.from].gateway}
                 /\ d.dns \in {0, Lease[m.from].dns}
      BY <3>1, <2>3, <2>4, Zenon
    <3>. QED BY <2>2, <3>1, Zenon DEF Options
  <2>8. boot = "ack" => requested \in Server /\ Options(requested)'
    BY <1>1, <2>3, <2>5, Zenon DEF DhcpInv, Options
  <2>9. boot = "ack" /\ d.got_ack => requested \in leased /\ d.ip = Lease[requested].ip
    BY <1>1, <2>3, <2>5, Zenon DEF DhcpInv
  <2>10. LeaseConsistent' /\ (\A fn : Listening(fn)' <=> Listening(fn))
    BY <1>1, Zenon DEF DhcpInv, LeaseConsistent, Listening
  <2>11. \A x \in wire' : /\ x.type = "OFFER" => x.from \in Server
                          /\ x.type = "ACK" => boot' = "ack" /\ x.from = requested' /\ requested' \in leased'
    BY <1>1, Zenon DEF DhcpInv
  <2>12. boot' # "start" /\ s_binds' \in [Bind -> {"none", "dhcp_recv_offer", "dhcp_recv_ack", "dns_recv_cb"}]
    BY <1>1, <2>4, Zenon DEF DhcpInv
  <2>. QED BY <1>1, <2>3, <2>4, <2>6, <2>7, <2>8, <2>9, <2>10, <2>11, <2>12, Zenon DEF DhcpInv
<1>. QED BY <1>2, <1>3, Zenon DEF Frame, DnsInput, ArpInput

LEMMA DhcpDiscover ==
  ASSUME DhcpInv, Discover \/ Request
  PROVE  DhcpInv'
<1>0. s_binds \in [Bind -> Callbacks]
  BY Zenon DEF DhcpInv, Callbacks
<1>1. /\ wire' = wire /\ leased' = leased /\ dhcp' = dhcp /\ cfg' = NoConfig
      /\ \A s : Options(s)' <=> Options(s)
  BY Zenon DEF Discover, Request, Options
<1>4. LeaseConsistent'
  BY <1>1, SMTT(40) DEF LeaseConsistent, NoConfig
<1>2. CASE Discover
  <2>1. boot = "start" /\ boot' = "offer" /\ s_binds' = Bound(s_binds, "dhcp_recv_offer") /\ requested' = requested
    BY <1>2, Zenon DEF Discover
  <2>2. s_binds' \in [Bind -> Callbacks] /\ \A i \in Bind : s_binds'[i] \in {s_binds[i], "dhcp_recv_offer"}
    BY <1>0, <2>1, BoundFacts, Zenon DEF Callbacks
  <2>3. ~Listening("dhcp_recv_ack")'
    BY <2>1, <2>2, Zenon DEF DhcpInv, Listening
  <2>4. ~dhcp.got_offer
    BY <2>1, Zenon DEF DhcpInv
  <2>. QED BY <1>1, <1>4, <2>1, <2>2, <2>3, <2>4, Zenon DEF DhcpInv, Callbacks
<1>3. CASE Request
  <2>. DEFINE u == Unbound(s_binds, {"dhcp_recv_offer"})
  <2>1. /\ boot = "offer" /\ dhcp.got_offer /\ boot' = "ack" /\ s_binds' = Bound(u, "dhcp_recv_ack")
        /\ requested' = dhcp.server
    BY <1>3, Zenon DEF Request
  <2>2. u \in [Bind -> Callbacks] /\ \A i \in Bind : u[i] # "dhcp_recv_offer"
    <3>1. /\ u \in [Bind -> Callbacks]
          /\ \A i \in Bind : u[i] = IF s_binds[i] \in {"dhcp_recv_offer"} THEN "none" ELSE s_binds[i]
      BY <1>0, UnboundFacts, SMTT(40)
    <3>. QED BY <3>1, Zenon
  <2>. HIDE DEF u
  <2>3. s_binds' \in [Bind -> Callbacks] /\ \A i \in Bind : s_binds'[i] \in {u[i], "dhcp_recv_ack"}
    BY <2>1, <2>2, BoundFacts, Zenon DEF Callbacks
  <2>4. ~Listening("dhcp_recv_offer")'
    BY <2>2, <2>3, Zenon DEF Listening
  <2>5. dhcp.server \in Server /\ Options(dhcp.server) /\ ~dhcp.got_ack /\ \A m \in wire : m.type # "ACK"
    BY <2>1, Zenon DEF DhcpInv
  <2>. QED BY <1>1, <1>4, <2>1, <2>3, <2>4, <2>5, Zenon DEF DhcpInv, Callbacks
<1>. QED BY <1>2, <1>3

LEMMA DhcpEnds ==
  ASSUME DhcpInv, Configure \/ GiveUp
  PROVE  DhcpInv'
<1>. DEFINE fns == {"dhcp_recv_offer", "dhcp_recv_ack"}
<1>1. /\ boot # "done" /\ boot' = "done" /\ s_binds' = Unbound(s_binds, fns) /\ leased' = leased
      /\ dhcp' = NoDhcp /\ wire' = {[type |-> "ARP", from |-> m.from] : m \in wire}
  BY Zenon DEF Configure, GiveUp, DhcpOver
<1>2. s_binds' \in [Bind -> Callbacks]
  BY <1>1, UnboundFacts, Zenon DEF DhcpInv, Callbacks
<1>3. dhcp' \in DhcpVars
  BY <1>1, SMTT(40) DEF NoDhcp, DhcpVars
<1>4. \A m \in wire' : m.type = "ARP"
  BY <1>1, SMTT(40)
<1>5. LeaseConsistent'
  <2>1. CASE Configure
    <3>1. /\ boot = "ack" /\ dhcp.got_ack
          /\ cfg' = [ip |-> dhcp.ip, subnet |-> dhcp.subnet, gateway |-> dhcp.gateway, dns |-> dhcp.dns]
      BY <2>1, Zenon DEF Configure
    <3>2. /\ requested \in leased /\ dhcp.ip = Lease[requested].ip
          /\ dhcp.subnet \in {0, Lease[requested].subnet} /\ dhcp.gateway \in {0, Lease[requested].gateway}
          /\ dhcp.dns \in {0, Lease[requested].dns}
      BY <3>1, Zenon DEF DhcpInv, Options
    <3>3. cfg'.ip = dhcp.ip /\ cfg'.subnet = dhcp.subnet /\ cfg'.gateway = dhcp.gateway /\ cfg'.dns = dhcp.dns
      BY <3>1, SMTT(40)
    <3>. QED BY <1>1, <3>2, <3>3, Zenon DEF LeaseConsistent
  <2>2. CASE GiveUp
    BY <1>1, <2>2, Zenon DEF GiveUp, DhcpInv, LeaseConsistent
  <2>. QED BY <2>1, <2>2
<1>. QED BY <1>1, <1>2, <1>3, <1>4, <1>5, Zenon DEF DhcpInv, Callbacks

LEMMA DhcpServe ==
  ASSUME DhcpInv, NEW s \in Server, Serve(s)
  PROVE  DhcpInv'
<1>1. /\ boot' = boot /\ s_binds' = s_binds /\ dhcp' = dhcp /\ requested' = requested /\ cfg' = cfg
      /\ leased \subseteq leased'
  BY Zenon DEF Serve
<1>2. PICK full \in BOOLEAN :
        \/ /\ boot \in {"offer", "ack"}
           /\ wire' = wire \cup {[type |-> "OFFER", from |-> s, full |-> full]}
           /\ leased' = leased
        \/ /\ boot = "ack" /\ requested = s
           /\ wire' = wire \cup {[type |-> "ACK", from |-> s, full |-> full]}
           /\ leased' = leased \cup {s}
  BY Zenon DEF Serve
<1>3. \A m \in wire' : \/ m \in wire
                       \/ m.type = "OFFER" /\ m.from = s
                       \/ m.type = "ACK" /\ m.from = s /\ boot = "ack" /\ requested = s /\ s \in leased'
  BY <1>2, SMTT(40)
<1>4. \A m \in wire' : /\ m.type = "OFFER" => m.from \in Server
                       /\ m.type = "ACK" => boot' = "ack" /\ m.from = requested' /\ requested' \in leased'
  <2>. TAKE m \in wire'
  <2>1. CASE m \in wire
    BY <1>1, <2>1, Zenon DEF DhcpInv
  <2>2. CASE m.type = "OFFER" /\ m.from = s
    BY <2>2, Zenon
  <2>3. CASE m.type = "ACK" /\ m.from = s /\ boot = "ack" /\ requested = s /\ s \in leased'
    BY <1>1, <2>3, Zenon
  <2>. QED BY <1>3, <2>1, <2>2, <2>3, Zenon
<1>5. /\ LeaseConsistent' /\ (\A fn : Listening(fn)' <=> Listening(fn)) /\ (\A v : Options(v)' <=> Options(v))
  BY <1>1, Zenon DEF DhcpInv, LeaseConsistent, Listening, Options
<1>. QED BY <1>1, <1>4, <1>5, Zenon DEF DhcpInv

LEMMA DhcpDns ==
  ASSUME DhcpInv, NEW x \in Caller, Attempt(x) \/ Resolved(x) \/ \E n \in Name : Resolve(x, n)
  PROVE  DhcpInv'
<1>0. s_binds \in [Bind -> Callbacks]
  BY Zenon DEF DhcpInv, Callbacks
<1>1. CASE Attempt(x)
  <2>1. UNCHANGED dhcpVars /\ s_binds' = s_binds /\ wire' \subseteq wire \cup {Evoked(x)}
    BY <1>1, ZenonT(40) DEF Attempt
  <2>2. Evoked(x).type \in {"REPLY", "ARP"}
    BY SMTT(40) DEF Evoked
  <2>. QED BY <1>0, <2>1, <2>2, DhcpStay, Zenon
<1>2. CASE Resolved(x)
  <2>1. UNCHANGED dhcpVars /\ s_binds' = Unbound(s_binds, {"dns_recv_cb"}) /\ wire' = wire
    BY <1>2, Zenon DEF Resolved
  <2>2. s_binds' \in [Bind -> Callbacks] /\ \A i \in Bind : s_binds'[i] \in {s_binds[i], "none"}
    BY <1>0, <2>1, UnboundFacts, SMTT(40)
  <2>. QED BY <2>1, <2>2, DhcpStay, Zenon
<1>3. CASE \E n \in Name : Resolve(x, n)
  <2>1. UNCHANGED dhcpVars /\ s_binds' = Bound(s_binds, "dns_recv_cb") /\ wire' = wire
    BY <1>3, Zenon DEF Resolve
  <2>2. s_binds' \in [Bind -> Callbacks] /\ \A i \in Bind : s_binds'[i] \in {s_binds[i], "dns_recv_cb"}
    BY <1>0, <2>1, BoundFacts, Zenon DEF Callbacks
  <2>. QED BY <2>1, <2>2, DhcpStay, Zenon
<1>. QED BY <1>1, <1>2, <1>3, SMTT(30)

(* A step of the DNS side that starts no call: the replies there are stay replies to
   queries that were asked. *)
LEMMA DnsStay ==
  ASSUME DnsInv, UNCHANGED <<dpc, asked, result, clouded>>,
         \A x \in Caller : Active(x) /\ x \notin clouded =>
           /\ \A m \in wire' : m.type = "REPLY" => m.name = asked[x]
           /\ s_got_reply' => s_resolved' = asked[x]
  PROVE  DnsInv'
<1>1. dpc' = dpc /\ asked' = asked /\ result' = result /\ clouded' = clouded
  BY Zenon
<1>2. (\A x \in Caller : Active(x)' <=> Active(x)) /\ ResolvesAsked'
  BY <1>1, Zenon DEF DnsInv, Active, ResolvesAsked
<1>. QED BY <1>1, <1>2, Zenon DEF DnsInv

LEMMA DnsNext ==
  ASSUME DnsInv, UdpNext
  PROVE  DnsInv'
<1>1. CASE Discover \/ Request \/ \E s \in Server : Serve(s)
  <2>1. UNCHANGED dnsVars /\ \A m \in wire' : m \in wire \/ m.type # "REPLY"
    <3>1. CASE Discover \/ Request
      BY <3>1, Zenon DEF Discover, Request
    <3>2. CASE \E s \in Server : Serve(s)
      BY <3>2, SMTT(40) DEF Serve
    <3>. QED BY <1>1, <3>1, <3>2
  <2>2. UNCHANGED <<s_got_reply, s_resolved, dpc, asked, result, clouded>>
    BY <2>1, Zenon DEF dnsVars
  <2>. QED BY <2>1, <2>2, DnsStay, Zenon DEF DnsInv
<1>2. CASE Configure \/ GiveUp
  <2>1. UNCHANGED dnsVars /\ wire' = {[type |-> "ARP", from |-> m.from] : m \in wire}
    BY <1>2, Zenon DEF Configure, GiveUp, DhcpOver
  <2>2. \A m \in wire' : m.type # "REPLY"
    BY <2>1, SMTT(40)
  <2>3. UNCHANGED <<s_got_reply, s_resolved, dpc, asked, result, clouded>>
    BY <2>1, Zenon DEF dnsVars
  <2>. QED BY <2>2, <2>3, DnsStay, Zenon DEF DnsInv
<1>3. ASSUME NEW m \in wire, Frame(m) PROVE DnsInv'
  <2>1. UNCHANGED <<dpc, asked, result, clouded>> /\ wire' \subseteq wire
    BY <1>3, Zenon DEF Frame
  <2>2. \/ s_got_reply' = s_got_reply /\ s_resolved' = s_resolved
        \/ m.type = "REPLY" /\ s_got_reply' = TRUE /\ s_resolved' = m.name
    BY <1>3, Zenon DEF Frame, DhcpInput, DnsInput, ArpInput
  <2>3. ASSUME NEW y \in Caller, Active(y), y \notin clouded
        PROVE  /\ \A r \in wire' : r.type = "REPLY" => r.name = asked[y]
               /\ s_got_reply' => s_resolved' = asked[y]
    <3>1. (\A r \in wire : r.type = "REPLY" => r.name = asked[y]) /\ (s_got_reply => s_resolved = asked[y])
      BY <2>3, Zenon DEF DnsInv
    <3>2. \A r \in wire' : r.type = "REPLY" => r.name = asked[y]
      BY <2>1, <3>1, Zenon
    <3>3. CASE s_got_reply' = s_got_reply /\ s_resolved' = s_resolved
      BY <3>1, <3>2, <3>3, SMTT(40)
    <3>4. CASE m.type = "REPLY" /\ s_resolved' = m.name
      BY <3>1, <3>2, <3>4, Zenon
    <3>. QED BY <2>2, <3>3, <3>4, Zenon
  <2>. QED BY <2>1, <2>3, DnsStay, Zenon
<1>4. ASSUME NEW x \in Caller, Attempt(x) PROVE DnsInv'
  <2>1. /\ UNCHANGED <<s_got_reply, s_resolved, dpc, asked, result, clouded>>
        /\ Active(x) /\ wire' \subseteq wire \cup {Evoked(x)}
    BY <1>4, Zenon DEF Attempt
  <2>2. Evoked(x).type = "REPLY" => Evoked(x).name = asked[x]
    BY SMTT(40) DEF Evoked
  <2>3. \A y \in Caller : Active(y) /\ y \notin clouded =>
          /\ \A m \in wire' : m.type = "REPLY" => m.name = asked[y]
          /\ s_got_reply' => s_resolved' = asked[y]
    BY <2>1, <2>2, Zenon DEF DnsInv
  <2>. QED BY <2>1, <2>3, DnsStay, Zenon
<1>5. ASSUME NEW x \in Caller, Resolved(x) PROVE DnsInv'
  <2>1. /\ dpc' = [dpc EXCEPT ![x] = "user"] /\ Active(x)
        /\ result' = [result EXCEPT ![x] = IF s_got_reply THEN s_resolved ELSE 0]
        /\ UNCHANGED <<wire, s_got_reply, s_resolved, asked, clouded>>
    BY <1>5, Zenon DEF Resolved
  <2>2. /\ dpc' \in [Caller -> {"user", "resolve"}] /\ DOMAIN result' = Caller
        /\ dpc'[x] = "user" /\ \A y \in Caller : y # x => dpc'[y] = dpc[y] /\ result'[y] = result[y]
    BY <2>1, Zenon DEF DnsInv
  <2>3. result'[x] = IF s_got_reply THEN s_resolved ELSE 0
    BY <2>1, Zenon DEF DnsInv
  <2>4. ~Active(x)' /\ \A y \in Caller : y # x => (Active(y)' <=> Active(y))
    BY <2>2, Zenon DEF Active
  <2>5. ResolvesAsked'
    <3>1. x \notin clouded => result'[x] \in {0, asked[x]}
      BY <2>1, <2>3, Zenon DEF DnsInv
    <3>. QED BY <2>1, <2>2, <2>4, <3>1, Zenon DEF DnsInv, ResolvesAsked
  <2>6. \A y \in Caller : Active(y)' => y # x /\ Active(y)
    BY <2>4, Zenon
  <2>7. \A y \in Caller : Active(y)' /\ y \notin clouded =>
          /\ \A z \in Caller : Active(z)' => z = y
          /\ \A m \in wire : m.type = "REPLY" => m.name = asked[y]
          /\ s_got_reply => s_resolved = asked[y]
    BY <2>6, Zenon DEF DnsInv
  <2>. QED BY <2>1, <2>2, <2>5, <2>7, ZenonT(60) DEF DnsInv
<1>6. ASSUME NEW x \in Caller, NEW n \in Name, Resolve(x, n) PROVE DnsInv'
  <2>. DEFINE others == {y \in Caller : Active(y)}
              late == \E m \in wire : m.type = "REPLY" /\ m.name # n
  <2>1. /\ dpc' = [dpc EXCEPT ![x] = "resolve"] /\ asked' = [asked EXCEPT ![x] = n]
        /\ result' = [result EXCEPT ![x] = 0] /\ s_got_reply' = FALSE /\ wire' = wire
        /\ clouded' = (clouded \ {x}) \cup others \cup (IF others # {} \/ late THEN {x} ELSE {})
    BY <1>6, Zenon DEF Resolve, Reset
  <2>2. /\ dpc' \in [Caller -> {"user", "resolve"}] /\ DOMAIN result' = Caller /\ DOMAIN asked' = Caller
        /\ dpc'[x] = "resolve" /\ asked'[x] = n
        /\ \A y \in Caller : y # x => dpc'[y] = dpc[y] /\ result'[y] = result[y] /\ asked'[y] = asked[y]
    BY <2>1, Zenon DEF DnsInv
  <2>3. Active(x)' /\ \A y \in Caller : y # x => (Active(y)' <=> Active(y))
    BY <2>2, Zenon DEF Active
  <2>4. \A y \in Caller : y # x => (y \in clouded' <=> y \in clouded \/ Active(y))
    BY <2>1, Zenon
  <2>5. x \notin clouded' => (\A y \in Caller : ~Active(y)) /\ ~late
    BY <2>1, Zenon
  <2>6. ResolvesAsked'
    BY <2>2, <2>3, <2>4, Zenon DEF DnsInv, ResolvesAsked
  <2>7. \A y \in Caller : Active(y)' /\ y \notin clouded' => y = x
    BY <2>3, <2>4, Zenon
  <2>8. x \notin clouded' => /\ \A y \in Caller : Active(y)' => y = x
                             /\ \A m \in wire' : m.type = "REPLY" => m.name = asked'[x]
    BY <2>1, <2>2, <2>3, <2>5, Zenon
  <2>9. \A y \in Caller : Active(y)' /\ y \notin clouded' =>
          /\ \A z \in Caller : Active(z)' => z = y
          /\ \A m \in wire' : m.type = "REPLY" => m.name = asked'[y]
          /\ s_got_reply' => s_resolved' = asked'[y]
    BY <2>1, <2>7, <2>8, Zenon
  <2>. HIDE DEF others, late
  <2>. QED BY <2>2, <2>6, <2>9, Zenon DEF DnsInv
<1>. QED BY <1>1, <1>2, <1>3, <1>4, <1>5, <1>6, Zenon DEF UdpNext

LEMMA UdpInitInv == UdpInit => UdpInv
<1>. SUFFICES ASSUME UdpInit PROVE UdpInv
  BY Zenon
<1>1. /\ wire = {} /\ boot = "start" /\ s_binds = [i \in Bind |-> "none"] /\ dhcp = NoDhcp /\ cfg = NoConfig
      /\ dpc = [x \in Caller |-> "user"] /\ asked = [x \in Caller |-> 0] /\ result = [x \in Caller |-> 0]
  BY Zenon DEF UdpInit
<1>2. dhcp \in DhcpVars /\ ~dhcp.got_offer /\ ~dhcp.got_ack /\ cfg.ip = 0
  BY <1>1, SMTT(40) DEF NoDhcp, DhcpVars, NoConfig
<1>3. DhcpInv
  BY <1>1, <1>2, Zenon DEF DhcpInv, LeaseConsistent, Listening
<1>4. DnsInv
  BY <1>1, Zenon DEF DnsInv, ResolvesAsked, Active
<1>. QED BY <1>3, <1>4 DEF UdpInv

LEMMA UdpStutter ==
  ASSUME UdpInv, UNCHANGED udpVars
  PROVE  UdpInv'
<1>1. /\ UNCHANGED dhcpVars /\ wire' = wire /\ s_binds' = s_binds
      /\ UNCHANGED <<s_got_reply, s_resolved, dpc, asked, result, clouded>>
  BY Zenon DEF udpVars, dhcpVars
<1>2. DhcpInv'
  BY <1>1, DhcpStay, Zenon DEF UdpInv, DhcpInv, Callbacks
<1>3. DnsInv'
  BY <1>1, DnsStay, Zenon DEF UdpInv, DnsInv
<1>. QED BY <1>2, <1>3 DEF UdpInv

(* UdpInv is an invariant of dhcp_discover and dns_resolve, for any servers and hosts
   and any number of callers. *)
THEOREM UdpInvariant == UdpSpec => []UdpInv
<1>1. UdpInit => UdpInv
  BY UdpInitInv, Zenon
<1>2. UdpInv /\ [UdpNext]_udpVars => UdpInv'
  <2>1. ASSUME UdpInv, UdpNext PROVE UdpInv'
    <3>1. DhcpInv'
      <4>1. DhcpInv
        BY <2>1, Zenon DEF UdpInv
      <4>. QED BY <2>1, <4>1, DhcpDiscover, DhcpEnds, DhcpServe, DhcpFrame, DhcpDns, Zenon DEF UdpNext
    <3>2. DnsInv'
      BY <2>1, DnsNext, Zenon DEF UdpInv
    <3>. QED BY <3>1, <3>2 DEF UdpInv
  <2>. QED BY <2>1, UdpStutter, Zenon
<1>. QED BY <1>1, <1>2, PTL DEF UdpSpec

(* LeaseConsistent: dhcp_discover sets up the configuration of one server, the one
   that has acknowledged the request. *)
THEOREM LeaseConsistentHolds == UdpSpec => []LeaseConsistent
<1>1. UdpInv => LeaseConsistent
  BY Zenon DEF UdpInv, DhcpInv
<1>. QED BY <1>1, UdpInvariant, PTL

(* ResolvesAsked: a dns_resolve that meets no other call and no late reply returns the
   address of the name it was given, or fails. *)
THEOREM ResolvesAskedHolds == UdpSpec => []ResolvesAsked
<1>1. UdpInv => ResolvesAsked
  BY Zenon DEF UdpInv, DnsInv
<1>. QED BY <1>1, UdpInvariant, PTL

-----------------------------------------------------------------------------
(* The block devices *)

LEMMA DiskCallFacts ==
  /\ NoCall \notin DiskCall
  /\ \A l \in Lba : ReadOf(l) \in DiskCall /\ \A v \in Val : WriteOf(l, v) \in DiskCall
  /\ \A c \in DiskCall : /\ c.op \in {"read", "write"} /\ c.lba \in Lba
                         /\ c.op = "write" => c.val \in Val
<1>1. NoCall \notin DiskCall /\ \A l \in Lba : ReadOf(l) \in DiskCall /\ \A v \in Val : WriteOf(l, v) \in DiskCall
  BY DiskConstants, SMTT(40) DEF DiskCall
<1>2. ASSUME NEW c \in DiskCall
      PROVE  c.op \in {"read", "write"} /\ c.lba \in Lba /\ (c.op = "write" => c.val \in Val)
  <2>1. CASE \E l \in Lba : c = ReadOf(l)
    BY <2>1, SMTT(40) DEF ReadOf
  <2>2. CASE \E l \in Lba, v \in Val : c = WriteOf(l, v)
    BY <2>2, SMTT(40) DEF WriteOf
  <2>. QED BY <2>1, <2>2, SMTT(40) DEF DiskCall
<1>. QED BY <1>1, <1>2, Zenon

LEMMA DiskInitInv ==
  ASSUME DiskInit
  PROVE  DiskInv /\ call = NoCall /\ ~adrift
<1>. QED BY Zenon DEF DiskInit, DiskInv

LEMMA DiskSame ==
  ASSUME DiskInv, UNCHANGED diskVars
  PROVE  DiskInv' /\ call' = call /\ adrift' = adrift /\ (Done' <=> Done)
<1>1. disk' = disk /\ dbuf' = dbuf /\ call' = call /\ known' = known /\ adrift' = adrift
  BY Zenon DEF diskVars
<1>2. (\A l, v : Writing(l, v)' <=> Writing(l, v)) /\ (Done' <=> Done)
  BY <1>1, Zenon DEF Writing, Done
<1>. QED BY <1>1, <1>2, Zenon DEF DiskInv

(* A call begins. *)
LEMMA DiskCalled ==
  ASSUME DiskInv, NEW c \in DiskCall, Called(c)
  PROVE  DiskInv' /\ call' = c /\ adrift' = adrift
<1>1. call = NoCall /\ call' = c /\ disk' = disk /\ known' = known /\ adrift' = adrift
  BY Zenon DEF Called
<1>2. \A l, v : ~Writing(l, v)
  BY <1>1, Zenon DEF Writing
<1>. QED BY <1>1, <1>2, Zenon DEF DiskInv

(* The device carries out the command of the call. *)
LEMMA DiskExecuted ==
  ASSUME DiskInv, ~adrift, call \in DiskCall, NEW r \in BOOLEAN, Executed(call, r)
  PROVE  DiskInv' /\ call' = call /\ ~adrift' /\ (r => Done')
<1>0. call # NoCall /\ call.op \in {"read", "write"} /\ call.lba \in Lba /\ (call.op = "write" => call.val \in Val)
  BY DiskCallFacts, Zenon
<1>1. call' = call /\ known' = known /\ adrift' = adrift
  BY Zenon DEF Executed
<1>2. \A l, v : Writing(l, v)' <=> Writing(l, v)
  BY <1>1, Zenon DEF Writing
<1>3. CASE call.op = "write"
  <2>1. disk' = [disk EXCEPT ![call.lba] = call.val] \/ (~r /\ disk' = disk)
    BY <1>3, Zenon DEF Executed
  <2>2. CASE disk' = disk
    BY <1>1, <1>2, <2>1, <2>2, <1>0, <1>3, Zenon DEF DiskInv, Done
  <2>3. CASE disk' = [disk EXCEPT ![call.lba] = call.val]
    <3>1. /\ disk' \in [Lba -> Val] /\ disk'[call.lba] = call.val
          /\ \A l \in Lba : l # call.lba => disk'[l] = disk[l]
      BY <1>0, <1>3, <2>3, Zenon DEF DiskInv
    <3>2. Writing(call.lba, disk'[call.lba])
      BY <1>0, <1>3, <3>1, Zenon DEF Writing
    <3>3. \A l \in Lba : disk'[l] \in known[l] \/ Writing(l, disk'[l])
      BY <3>1, <3>2, Zenon DEF DiskInv
    <3>4. \A l \in Lba : disk'[l] \in known'[l] \/ Writing(l, disk[l])'
      BY <1>1, <1>2, <3>3, Zenon DEF Writing
    <3>5. Done'
      BY <1>1, <1>3, <3>1, Zenon DEF Done
    <3>. QED BY <1>1, <3>1, <3>4, <3>5, Zenon DEF DiskInv
  <2>. QED BY <2>1, <2>2, <2>3
<1>4. CASE call.op = "read"
  <2>1. disk' = disk /\ (r => dbuf' = disk[call.lba])
    BY <1>4, Zenon DEF Executed
  <2>. QED BY <1>0, <1>1, <1>2, <1>4, <2>1, Zenon DEF DiskInv, Done
<1>. QED BY <1>0, <1>3, <1>4, Zenon

(* A call returns: with true only when its command was carried out. *)
LEMMA DiskReturned ==
  ASSUME DiskInv, call \in DiskCall, NEW r \in BOOLEAN, NEW pending \in BOOLEAN, Returned(r, pending),
         r /\ ~adrift => Done
  PROVE  /\ DiskInv' /\ call' = NoCall /\ adrift' = (adrift \/ pending) /\ ok' = r
         /\ call.op = "read" /\ r /\ ~adrift => dbuf \in known[call.lba]
<1>0. call # NoCall /\ call.op \in {"read", "write"} /\ call.lba \in Lba
  BY DiskCallFacts, Zenon
<1>1. call' = NoCall /\ disk' = disk /\ ok' = r /\ adrift' = (adrift \/ pending) /\ adrift' \in BOOLEAN
  BY Zenon DEF Returned
<1>2. ASSUME call.op = "read", r, ~adrift
      PROVE  dbuf \in known[call.lba]
  <2>1. dbuf = disk[call.lba] /\ ~Writing(call.lba, disk[call.lba])
    BY <1>0, <1>2, Zenon DEF Done, Writing
  <2>. QED BY <1>0, <1>2, <2>1, Zenon DEF DiskInv
<1>3. ASSUME ~adrift'
      PROVE  /\ disk' \in [Lba -> Val] /\ DOMAIN known' = Lba
             /\ \A l \in Lba : disk'[l] \in known'[l]
  <2>0. ~adrift
    BY <1>1, <1>3, Zenon
  <2>1. CASE call.op = "read"
    <3>1. known' = known
      BY <1>3, <2>1, Zenon DEF Returned
    <3>. QED BY <1>1, <2>0, <2>1, <3>1, Zenon DEF DiskInv, Writing
  <2>2. CASE call.op = "write"
    <3>1. known' = [known EXCEPT ![call.lba] = {call.val} \cup (IF r THEN {} ELSE @)]
      BY <1>3, <2>2, Zenon DEF Returned
    <3>2. /\ DOMAIN known' = Lba /\ \A l \in Lba : l # call.lba => known'[l] = known[l]
          /\ known'[call.lba] = {call.val} \cup (IF r THEN {} ELSE known[call.lba])
      BY <1>0, <2>0, <3>1, Zenon DEF DiskInv
    <3>3. \A l \in Lba : l # call.lba => disk[l] \in known[l]
      BY <2>0, Zenon DEF DiskInv, Writing
    <3>4. disk[call.lba] \in known'[call.lba]
      <4>1. CASE r
        BY <2>0, <2>2, <3>2, <4>1, Zenon DEF Done
      <4>2. CASE ~r
        BY <1>0, <2>0, <3>2, <4>2, Zenon DEF DiskInv, Writing
      <4>. QED BY <4>1, <4>2
    <3>. QED BY <1>1, <2>0, <3>2, <3>3, <3>4, Zenon DEF DiskInv
  <2>. QED BY <1>0, <2>1, <2>2, Zenon
<1>. QED BY <1>1, <1>2, <1>3, Zenon DEF DiskInv

(* ahci.c *)
LEMMA AhciInitInv ==
  ASSUME DiskInit, AhciInit
  PROVE  AhciInv
<1>. QED BY DiskInitInv, Zenon DEF AhciInit, AhciInv

LEMMA AhciNextInv ==
  ASSUME AhciInv, AhciNext \/ UNCHANGED <<diskVars, ahciVars>>
  PROVE  /\ AhciInv'
         /\ call # NoCall /\ call' = NoCall /\ call.op = "read" /\ ok' /\ ~adrift => dbuf \in known[call.lba]
<1>0. DiskInv /\ (call # NoCall => call \in DiskCall)
  BY Zenon DEF AhciInv, DiskInv
<1>1. CASE PortInit \/ UNCHANGED <<diskVars, ahciVars>>
  <2>1. /\ UNCHANGED diskVars
        /\ cmd_table' = cmd_table /\ ci' = ci /\ tfd' = tfd /\ tfes' = tfes /\ hba' = hba /\ halted' = halted
    BY <1>1, Zenon DEF PortInit, ahciVars
  <2>2. DiskInv' /\ call' = call /\ adrift' = adrift /\ (Done' <=> Done)
    BY <1>0, <2>1, DiskSame, Zenon
  <2>. QED BY <2>1, <2>2, Zenon DEF AhciInv
<1>2. CASE Accept
  <2>1. /\ UNCHANGED diskVars
        /\ ci /\ ~halted /\ hba = NoCall /\ hba' = cmd_table
        /\ cmd_table' = cmd_table /\ ci' = ci /\ tfes' = tfes /\ halted' = halted
    BY <1>2, Zenon DEF Accept
  <2>2. DiskInv' /\ call' = call /\ adrift' = adrift /\ (Done' <=> Done)
    BY <1>0, <2>1, DiskSame, Zenon
  <2>3. ~adrift => call # NoCall /\ cmd_table = call
    BY <2>1, Zenon DEF AhciInv
  <2>. QED BY <2>1, <2>2, <2>3, Zenon DEF AhciInv
<1>3. CASE Finish
  <2>1. PICK r \in BOOLEAN :
          /\ Executed(hba, r)
          /\ IF r THEN tfd' = "idle" /\ ci' = FALSE /\ UNCHANGED <<tfes, halted>>
             ELSE /\ tfd' = "err" /\ tfes' = TRUE
                  /\ \/ ci' = FALSE /\ UNCHANGED halted
                     \/ halted' = TRUE /\ UNCHANGED ci
    BY <1>3, Zenon DEF Finish
  <2>2. hba # NoCall /\ hba' = NoCall /\ cmd_table' = cmd_table /\ call' = call /\ adrift' = adrift
    BY <1>3, Zenon DEF Finish, Executed
  <2>3. ~halted /\ ci
    BY <2>2, Zenon DEF AhciInv
  <2>4. (~ci' /\ ~halted') \/ (halted' /\ ci')
    <3>1. CASE ci' = FALSE /\ halted' = halted
      BY <2>3, <3>1, Zenon
    <3>2. CASE halted' = TRUE /\ ci' = ci
      BY <2>3, <3>2, Zenon
    <3>. QED BY <2>1, <3>1, <3>2, Zenon
  <2>5. CASE adrift
    <3>1. DiskInv'
      BY <1>0, <2>2, <2>5, Zenon DEF DiskInv
    <3>. QED BY <2>2, <2>4, <2>5, <3>1, Zenon DEF AhciInv
  <2>6. CASE ~adrift
    <3>1. ci /\ hba = call /\ call \in DiskCall
      BY <1>0, <2>2, <2>6, Zenon DEF AhciInv
    <3>2. DiskInv' /\ (r => Done')
      BY <1>0, <2>1, <2>6, <3>1, DiskExecuted, Zenon
    <3>3. ~tfes' => r
      BY <2>1, Zenon
    <3>. QED BY <2>2, <2>3, <2>4, <2>6, <3>1, <3>2, <3>3, Zenon DEF AhciInv
  <2>. QED BY <2>5, <2>6
<1>4. CASE AhciRead \/ AhciWrite
  <2>1. PICK c \in DiskCall : Issue(c)
    BY <1>4, DiskCallFacts, Zenon DEF AhciRead, AhciWrite
  <2>2. /\ Called(c) /\ cmd_table' = c /\ ci' = TRUE /\ hba' = hba /\ halted' = halted /\ call = NoCall
    BY <2>1, Zenon DEF Issue, Called
  <2>3. DiskInv' /\ call' = c /\ adrift' = adrift
    BY <1>0, <2>2, DiskCalled, Zenon
  <2>. QED BY <2>2, <2>3, DiskCallFacts, Zenon DEF AhciInv
<1>5. CASE AhciReturn
  <2>1. call # NoCall /\ UNCHANGED ahciVars
    BY <1>5, Zenon DEF AhciReturn
  <2>2. hba' = hba /\ ci' = ci /\ halted' = halted /\ call \in DiskCall
    BY <1>0, <2>1, Zenon DEF ahciVars
  <2>3. CASE ~ci /\ Returned(~tfes, FALSE)
    <3>1. ~tfes /\ ~adrift => Done
      BY <2>1, <2>3, Zenon DEF AhciInv
    <3>. DEFINE r == ~tfes
    <3>2. r \in BOOLEAN /\ FALSE \in BOOLEAN /\ Returned(r, FALSE) /\ (r /\ ~adrift => Done)
      BY <2>3, <3>1, Zenon
    <3>. HIDE DEF r
    <3>3. /\ DiskInv' /\ call' = NoCall /\ adrift' = (adrift \/ FALSE) /\ ok' = r
          /\ call.op = "read" /\ r /\ ~adrift => dbuf \in known[call.lba]
      BY <1>0, <2>2, <3>2, DiskReturned, Zenon
    <3>4. ~adrift' => ~adrift /\ hba = NoCall /\ ~ci
      BY <2>1, <2>3, <3>3, Zenon DEF AhciInv
    <3>. QED BY <2>2, <3>3, <3>4, Zenon DEF AhciInv
  <2>4. CASE ci /\ tfd = "err" /\ Returned(FALSE, ~halted)
    <3>. DEFINE p == ~halted
    <3>1. p \in BOOLEAN /\ FALSE \in BOOLEAN /\ Returned(FALSE, p) /\ (FALSE /\ ~adrift => Done)
      BY <2>4, Zenon
    <3>2. p <=> ~halted
      OBVIOUS
    <3>. HIDE DEF p
    <3>3. DiskInv' /\ call' = NoCall /\ adrift' = (adrift \/ p) /\ ok' = FALSE
      BY <1>0, <2>2, <3>1, DiskReturned, Zenon
    <3>4. ~adrift' => halted /\ hba = NoCall
      BY <3>2, <3>3, Zenon DEF AhciInv
    <3>. QED BY <2>2, <3>3, <3>4, Zenon DEF AhciInv
  <2>. QED BY <1>5, <2>3, <2>4, Zenon DEF AhciReturn, TaskFileError
<1>6. CASE AhciTimeout
  <2>1. call # NoCall /\ Returned(FALSE, TRUE) /\ hba' = hba /\ ci' = ci /\ halted' = halted
    BY <1>6, Zenon DEF AhciTimeout, ahciVars
  <2>2. TRUE \in BOOLEAN /\ FALSE \in BOOLEAN /\ (FALSE /\ ~adrift => Done)
    BY Zenon
  <2>3. DiskInv' /\ call' = NoCall /\ adrift' = (adrift \/ TRUE) /\ ok' = FALSE
    BY <1>0, <2>1, <2>2, DiskReturned, Zenon
  <2>. QED BY <2>1, <2>3, Zenon DEF AhciInv
<1>. QED BY <1>1, <1>2, <1>3, <1>4, <1>5, <1>6, Zenon DEF AhciNext

(* AhciInv is an invariant of the driver with its adapter. *)
THEOREM AhciInvariant == AhciSpec => []AhciInv
<1>1. DiskInit /\ AhciInit => AhciInv
  BY AhciInitInv, Zenon
<1>2. AhciInv /\ [AhciNext]_<<diskVars, ahciVars>> => AhciInv'
  BY AhciNextInv, Zenon
<1>. QED BY <1>1, <1>2, PTL DEF AhciSpec

(* ReadsLastWrite for ahci_read_sectors and ahci_write_sectors. *)
THEOREM AhciReadsLastWrite == AhciSpec => ReadsLastWrite
<1>1. AhciInv /\ [AhciNext]_<<diskVars, ahciVars>>
        => [call # NoCall /\ call' = NoCall /\ call.op = "read" /\ ok' /\ ~adrift
              => dbuf \in known[call.lba]]_diskVars
  BY AhciNextInv, Zenon
<1>. QED BY <1>1, AhciInvariant, PTL DEF AhciSpec, ReadsLastWrite

(* nvme.c: what the steps make of the I/O queue pair. *)
LEMMA SlotFacts ==
  /\ 0 \in Slots /\ IoqSize \in Nat /\ IoqSize > 0
  /\ \A n \in Slots : /\ n \in Nat /\ Step("io", n) \in Slots
                      /\ Step("io", n) = n + 1 \/ (n = IoqSize - 1 /\ Step("io", n) = 0)
<1>. QED BY NvmeConstants, SMTT(40) DEF Slots, Step, Size

(* Command c goes into the queue r, which is then u. *)
Puts(r, c) ==
  DOMAIN q = Queue /\ r = q["io"] /\ IoQueue(r) /\ c \in DiskCall /\ q' = Submitted("io", c)

PutsTo(r, c, u) ==
  /\ DOMAIN q' = Queue /\ q'["io"] = u /\ IoQueue(u)
  /\ u.sq[r.tail] = c /\ u.tail = Step("io", r.tail) /\ u.ctlHead = r.ctlHead
  /\ u.cq = r.cq /\ u.head = r.head /\ u.phase = r.phase
  /\ u.ctlTail = r.ctlTail /\ u.ctlPhase = r.ctlPhase

LEMMA IoSubmitted ==
  ASSUME NEW r, NEW c, Puts(r, c)
  PROVE  \E u : PutsTo(r, c, u)
<1>. USE DEF Puts
<1>. DEFINE u == [r EXCEPT !.sq[r.tail] = c, !.tail = Step("io", @)]
<1>1. DOMAIN q' = Queue /\ q'["io"] = u
  BY SMTT(40) DEF Submitted, Queue
<1>2. Step("io", r.tail) \in Slots /\ r.tail \in Slots
  BY SlotFacts, Zenon DEF IoQueue
<1>3. /\ u.sq = [r.sq EXCEPT ![r.tail] = c] /\ u.tail = Step("io", r.tail)
      /\ u.cq = r.cq /\ u.head = r.head /\ u.phase = r.phase
      /\ u.ctlHead = r.ctlHead /\ u.ctlTail = r.ctlTail /\ u.ctlPhase = r.ctlPhase
  BY SMTT(40) DEF IoQueue
<1>4. DOMAIN u = DOMAIN r
  BY SMTT(40)
<1>. HIDE DEF u
<1>5. u.sq \in [Slots -> DiskCall \cup {NoCall}] /\ u.sq[r.tail] = c
  BY ONLY IoQueue(r), c \in DiskCall, <1>2, <1>3, SMTT(40) DEF IoQueue
<1>6. IoQueue(u)
  BY <1>2, <1>3, <1>4, <1>5, Zenon DEF IoQueue
<1>. QED BY <1>1, <1>3, <1>5, <1>6, Zenon DEF PutsTo

LEMMA FlippedFacts ==
  ASSUME NEW n \in Slots, NEW phase \in {0, 1}
  PROVE  Flipped(n, phase) \in {0, 1} /\ Flipped(n, phase) = IF n = 0 THEN 1 - phase ELSE phase
<1>. QED BY SMTT(40) DEF Flipped

Posting(r, g) ==
  [r EXCEPT !.cq[r.ctlTail] = [phase |-> r.ctlPhase, good |-> g],
            !.sq[r.ctlHead] = NoCall,
            !.ctlHead = Step("io", @),
            !.ctlTail = Step("io", @),
            !.ctlPhase = Flipped(Step("io", r.ctlTail), @)]

LEMMA PostingFacts ==
  ASSUME NEW r, IoQueue(r), NEW g \in BOOLEAN, NEW u, u = Posting(r, g)
  PROVE  /\ IoQueue(u)
         /\ u.tail = r.tail /\ u.head = r.head /\ u.phase = r.phase
         /\ u.ctlHead = Step("io", r.ctlHead) /\ u.ctlTail = Step("io", r.ctlTail)
         /\ u.ctlPhase = Flipped(Step("io", r.ctlTail), r.ctlPhase)
         /\ u.cq[r.ctlTail].phase = r.ctlPhase /\ u.cq[r.ctlTail].good = g
         /\ \A n \in Slots : n # r.ctlTail => u.cq[n] = r.cq[n]
<1>. DEFINE e == [phase |-> r.ctlPhase, good |-> g]
            w == [r EXCEPT !.cq[r.ctlTail] = e, !.sq[r.ctlHead] = NoCall,
                           !.ctlHead = Step("io", @), !.ctlTail = Step("io", @),
                           !.ctlPhase = Flipped(Step("io", r.ctlTail), @)]
<1>1. u = w
  BY DEF Posting
<1>2. /\ Step("io", r.ctlHead) \in Slots /\ Step("io", r.ctlTail) \in Slots
      /\ Flipped(Step("io", r.ctlTail), r.ctlPhase) \in {0, 1}
  BY SlotFacts, FlippedFacts, Zenon DEF IoQueue
<1>3. /\ e \in [phase : {0, 1}, good : BOOLEAN] /\ e.phase = r.ctlPhase /\ e.good = g
  BY SMTT(40) DEF IoQueue
<1>. HIDE DEF e
<1>4. /\ w.cq = [r.cq EXCEPT ![r.ctlTail] = e] /\ w.sq = [r.sq EXCEPT ![r.ctlHead] = NoCall]
      /\ w.tail = r.tail /\ w.head = r.head /\ w.phase = r.phase
      /\ w.ctlHead = Step("io", r.ctlHead) /\ w.ctlTail = Step("io", r.ctlTail)
      /\ w.ctlPhase = Flipped(Step("io", r.ctlTail), r.ctlPhase)
  BY SMTT(40) DEF IoQueue
<1>5. DOMAIN w = DOMAIN r
  BY SMTT(40)
<1>. HIDE DEF w
<1>6. w.sq \in [Slots -> DiskCall \cup {NoCall}]
  BY ONLY IoQueue(r), <1>4, SMTT(40) DEF IoQueue
<1>7. /\ w.cq \in [Slots -> [phase : {0, 1}, good : BOOLEAN]] /\ w.cq[r.ctlTail] = e
      /\ \A n \in Slots : n # r.ctlTail => w.cq[n] = r.cq[n]
  BY ONLY IoQueue(r), <1>3, <1>4, SMTT(40) DEF IoQueue
<1>8. IoQueue(w)
  BY ONLY IoQueue(r), <1>2, <1>4, <1>5, <1>6, <1>7, SMTT(40) DEF IoQueue
<1>. QED BY ONLY <1>1, <1>3, <1>4, <1>7, <1>8, Zenon

LEMMA IoTaken ==
  ASSUME DOMAIN q = Queue, NEW r, r = q["io"], IoQueue(r), q' = Taken("io")
  PROVE  \E u : /\ DOMAIN q' = Queue /\ q'["io"] = u /\ IoQueue(u)
                /\ u.tail = r.tail /\ u.cq = r.cq /\ u.ctlHead = r.ctlHead /\ u.ctlTail = r.ctlTail
                /\ u.ctlPhase = r.ctlPhase /\ u.head = Step("io", r.head)
                /\ u.phase = Flipped(Step("io", r.head), r.phase)
<1>. DEFINE u == [r EXCEPT !.head = Step("io", r.head), !.phase = Flipped(Step("io", r.head), r.phase)]
<1>1. DOMAIN q' = Queue /\ q'["io"] = u
  BY SMTT(40) DEF Taken, PhaseAfter, Queue
<1>2. Step("io", r.head) \in Slots /\ Flipped(Step("io", r.head), r.phase) \in {0, 1}
  BY SlotFacts, FlippedFacts, Zenon DEF IoQueue
<1>3. /\ u.tail = r.tail /\ u.sq = r.sq /\ u.cq = r.cq /\ u.ctlHead = r.ctlHead /\ u.ctlTail = r.ctlTail
      /\ u.ctlPhase = r.ctlPhase /\ u.head = Step("io", r.head)
      /\ u.phase = Flipped(Step("io", r.head), r.phase)
  BY SMTT(40) DEF IoQueue
<1>4. DOMAIN u = DOMAIN r
  BY SMTT(40)
<1>. HIDE DEF u
<1>5. IoQueue(u)
  BY ONLY IoQueue(r), <1>2, <1>3, <1>4, SMTT(40) DEF IoQueue
<1>. QED BY <1>1, <1>3, <1>5, Zenon

LEMMA IoNew == IoQueue(NewQueue("io")) /\ Empty(NewQueue("io")) /\ Answered(NewQueue("io"))
<1>. DEFINE u == NewQueue("io")
<1>1. /\ DOMAIN u = {"sq", "tail", "cq", "head", "phase", "ctlHead", "ctlTail", "ctlPhase"}
      /\ u.sq = [n \in Slots |-> NoCall] /\ u.cq = [n \in Slots |-> [phase |-> 0, good |-> FALSE]]
      /\ u.tail = 0 /\ u.head = 0 /\ u.ctlHead = 0 /\ u.ctlTail = 0 /\ u.phase = 1 /\ u.ctlPhase = 1
  BY SMTT(40) DEF NewQueue, Slots, Size
<1>. HIDE DEF u
<1>2. /\ u.sq \in [Slots -> DiskCall \cup {NoCall}]
  BY <1>1, Zenon
<1>3. u.cq \in [Slots -> [phase : {0, 1}, good : BOOLEAN]] /\ \A n \in Slots : u.cq[n].phase = 0
  BY <1>1, SMTT(40)
<1>4. IoQueue(u)
  BY <1>1, <1>2, <1>3, SlotFacts, SMTT(40) DEF IoQueue
<1>5. Lap(u, 0)
  BY <1>1, <1>3, SMTT(40) DEF Lap, Slots
<1>. QED BY <1>1, <1>4, <1>5, ZenonT(40) DEF Empty, Answered, u

(* The laps: a completion is posted at the driver's head, and taking it moves the
   head on, into the next lap at the end of the queue. *)
LEMMA LapPosted ==
  ASSUME NEW r, NEW u, IoQueue(r), Answered(r),
         u.head = r.head, u.phase = r.phase, u.cq[r.ctlTail].phase = r.ctlPhase,
         \A n \in Slots : n # r.ctlTail => u.cq[n] = r.cq[n]
  PROVE  Lap(u, u.head + 1)
<1>1. r.head \in Nat /\ \A n \in Slots : n \in Nat
  BY SlotFacts, Zenon DEF IoQueue
<1>2. \A n \in Slots : r.cq[n].phase = IF n < r.head THEN r.phase ELSE 1 - r.phase
  BY Zenon DEF Answered, Lap
<1>3. r.ctlTail = r.head /\ r.ctlPhase = r.phase
  BY ZenonT(40) DEF Answered
<1>4. ASSUME NEW n \in Slots
      PROVE  u.cq[n].phase = IF n < u.head + 1 THEN u.phase ELSE 1 - u.phase
  <2>1. CASE n = r.head
    BY <1>1, <1>3, <2>1, SMTT(40)
  <2>2. CASE n # r.head
    <3>1. u.cq[n].phase = IF n < r.head THEN r.phase ELSE 1 - r.phase
      BY <1>2, <1>3, <2>2, Zenon
    <3>2. n < u.head + 1 <=> n < r.head
      BY <1>1, <2>2, SMTT(40)
    <3>. QED BY <3>1, <3>2, Zenon
  <2>. QED BY <2>1, <2>2, SMTT(30)
<1>. QED BY <1>4, Zenon DEF Lap

LEMMA LapTaken ==
  ASSUME NEW r, NEW u, IoQueue(r), Lap(r, r.head + 1), u.cq = r.cq,
         u.head = Step("io", r.head), u.phase = Flipped(Step("io", r.head), r.phase)
  PROVE  Lap(u, u.head)
<1>1. r.head \in Slots /\ r.phase \in {0, 1} /\ u.head \in Slots
  BY SlotFacts, Zenon DEF IoQueue
<1>2. \A n \in Slots : r.cq[n].phase = IF n < r.head + 1 THEN r.phase ELSE 1 - r.phase
  BY Zenon DEF Lap
<1>3. u.phase = IF u.head = 0 THEN 1 - r.phase ELSE r.phase
  BY <1>1, FlippedFacts, SMTT(40)
<1>4. ASSUME NEW n \in Slots
      PROVE  u.cq[n].phase = IF n < u.head THEN u.phase ELSE 1 - u.phase
  <2>0. u.cq[n].phase = IF n < r.head + 1 THEN r.phase ELSE 1 - r.phase
    BY <1>2, Zenon
  <2>1. CASE u.head = r.head + 1
    <3>1. u.phase = r.phase
      BY <1>1, <1>3, <2>1, SMTT(40) DEF Slots
    <3>. QED BY <2>0, <2>1, <3>1, Zenon
  <2>2. CASE r.head = IoqSize - 1 /\ u.head = 0
    <3>1. n < r.head + 1 /\ ~(n < u.head)
      BY <2>2, SlotFacts, SMTT(40) DEF Slots
    <3>2. u.cq[n].phase = r.phase /\ u.phase = 1 - r.phase
      BY <1>3, <2>0, <2>2, <3>1, SMTT(40)
    <3>3. 1 - u.phase = r.phase
      BY <1>1, <3>2, SMTT(40)
    <3>. QED BY <3>1, <3>2, <3>3, SMTT(40)
  <2>. QED BY <1>1, <2>1, <2>2, SlotFacts, Zenon
<1>. QED BY <1>4, Zenon DEF Lap

(* A step that does not concern the I/O queue pair. *)
LEMMA IoStay ==
  ASSUME NvmeInv, UNCHANGED diskVars, npos = "ready" => npos' = "ready",
         ~adrift => DOMAIN q' = Queue /\ q'["io"] = q["io"]
  PROVE  NvmeInv' /\ call' = call
<1>1. DiskInv' /\ call' = call /\ adrift' = adrift /\ (Done' <=> Done)
  BY DiskSame, Zenon DEF NvmeInv
<1>2. ASSUME ~adrift PROVE IoInv'
  <2>. DEFINE r == q["io"]
  <2>1. DOMAIN q' = Queue /\ q'["io"] = r /\ IoInv
    BY <1>2, Zenon DEF NvmeInv
  <2>2. (IoQueue(q["io"])' <=> IoQueue(r)) /\ (Empty(q["io"])' <=> Empty(r)) /\ (Answered(q["io"])' <=> Answered(r))
    BY <2>1, Zenon DEF IoQueue, Empty, Answered, Lap
  <2>3. Outstanding(q["io"])' <=> Outstanding(r)
    BY <1>1, <2>1, <2>2, Zenon DEF Outstanding, Step, Size
  <2>4. Completed(q["io"])' <=> Completed(r)
    <3>1. Lap(q["io"], q["io"].head + 1)' <=> Lap(r, r.head + 1)
      BY <2>1, SMTT(40) DEF Lap
    <3>2. (q["io"].ctlTail = Step("io", q["io"].head))' <=> r.ctlTail = Step("io", r.head)
      BY <2>1, Zenon DEF Step, Size
    <3>3. (q["io"].ctlPhase = Flipped(q["io"].ctlTail, q["io"].phase))' <=> r.ctlPhase = Flipped(r.ctlTail, r.phase)
      BY <2>1, Zenon DEF Flipped
    <3>4. (q["io"].cq[q["io"].head].good => Done)' <=> (r.cq[r.head].good => Done)
      BY <1>1, <2>1, Zenon
    <3>. QED BY <2>2, <3>1, <3>2, <3>3, <3>4, Zenon DEF Completed
  <2>. QED BY <1>1, <2>1, <2>2, <2>3, <2>4, Zenon DEF IoInv
<1>. QED BY <1>1, <1>2, Zenon DEF NvmeInv

LEMMA NvmeNextInv ==
  ASSUME NvmeInv, NvmeNext \/ UNCHANGED <<diskVars, nvmeVars>>
  PROVE  /\ NvmeInv'
         /\ call # NoCall /\ call' = NoCall /\ call.op = "read" /\ ok' /\ ~adrift => dbuf \in known[call.lba]
<1>. DEFINE r == q["io"]
<1>0. /\ DiskInv /\ (call # NoCall => call \in DiskCall) /\ adrift \in BOOLEAN
      /\ ~adrift => DOMAIN q = Queue /\ IoQueue(r)
  BY Zenon DEF NvmeInv, DiskInv, IoInv
<1>1. CASE NvmeEnable \/ NvmeIdentify \/ NvmeAdminTimeout \/ Complete("admin") \/ UNCHANGED <<diskVars, nvmeVars>>
  <2>1. UNCHANGED diskVars /\ (npos = "ready" => npos' = "ready")
    BY <1>1, Zenon DEF NvmeEnable, NvmeIdentify, NvmeAdminTimeout, Complete, At2, nvmeVars, NextStage
  <2>2. ~adrift => DOMAIN q' = Queue /\ q'["io"] = q["io"]
    <3>1. CASE NvmeEnable
      BY <1>0, <3>1, Zenon DEF NvmeEnable, Queue
    <3>2. CASE NvmeIdentify
      BY <1>0, <3>2, SMTT(40) DEF NvmeIdentify, Submitted, Queue
    <3>3. CASE Complete("admin")
      BY <1>0, <3>3, Zenon DEF Complete, Queue
    <3>4. CASE q' = q
      BY <1>0, <3>4, Zenon
    <3>. QED BY <1>1, <3>1, <3>2, <3>3, <3>4, Zenon DEF NvmeAdminTimeout, nvmeVars
  <2>. QED BY <2>1, <2>2, IoStay, Zenon
<1>2. CASE NvmeAdmin
  <2>1. UNCHANGED diskVars /\ npos # "ready"
    BY <1>2, SMTT(40) DEF NvmeAdmin, NextStage
  <2>2. call = NoCall /\ DiskInv' /\ call' = call /\ adrift' = adrift
    BY <1>0, <2>1, DiskSame, Zenon DEF NvmeInv
  <2>3. ~adrift => DOMAIN q' = Queue /\ q'["io"] \in {q["io"], NewQueue("io")}
    BY <1>0, <1>2, SMTT(40) DEF NvmeAdmin, Queue
  <2>4. ~adrift => IoQueue(r) /\ Empty(r) /\ Answered(r)
    BY <2>2, Zenon DEF NvmeInv, IoInv
  <2>5. ~adrift => IoInv'
    <3>. DEFINE u == q'["io"]
    <3>1. ASSUME ~adrift PROVE IoQueue(u) /\ Empty(u) /\ Answered(u)
      BY <2>3, <2>4, <3>1, IoNew, Zenon
    <3>. QED BY <2>2, <2>3, <3>1, Zenon DEF IoInv, IoQueue, Empty, Answered, Lap
  <2>. QED BY <2>2, <2>5, Zenon DEF NvmeInv
<1>3. CASE Complete("io")
  <2>1. PICK g \in BOOLEAN :
          /\ Executed(r.sq[r.ctlHead], g)
          /\ q' = [q EXCEPT !["io"] =
                    [r EXCEPT !.cq[r.ctlTail] = [phase |-> r.ctlPhase, good |-> g],
                              !.sq[r.ctlHead] = NoCall,
                              !.ctlHead = Step("io", @),
                              !.ctlTail = Step("io", @),
                              !.ctlPhase = Flipped(Step("io", r.ctlTail), @)]]
    BY <1>3, Zenon DEF Complete
  <2>2. r.ctlHead # r.tail /\ npos' = npos /\ call' = call /\ adrift' = adrift
    BY <1>3, <2>1, Zenon DEF Complete, Pending, Executed
  <2>3. CASE adrift
    BY <1>0, <2>2, <2>3, Zenon DEF NvmeInv, DiskInv
  <2>4. CASE ~adrift
    <3>1. call # NoCall /\ call \in DiskCall /\ Outstanding(r)
      BY <1>0, <2>2, <2>4, Zenon DEF NvmeInv, IoInv, Empty, Completed
    <3>2. DiskInv' /\ (g => Done')
      BY <1>0, <2>1, <2>4, <3>1, DiskExecuted, Zenon DEF Outstanding
    <3>. HIDE DEF r
    <3>3. PICK u : /\ DOMAIN q' = Queue /\ q'["io"] = u /\ IoQueue(u)
                   /\ u.tail = r.tail /\ u.head = r.head /\ u.phase = r.phase
                   /\ u.ctlHead = Step("io", r.ctlHead) /\ u.ctlTail = Step("io", r.ctlTail)
                   /\ u.ctlPhase = Flipped(Step("io", r.ctlTail), r.ctlPhase)
                   /\ u.cq[r.ctlTail].phase = r.ctlPhase /\ u.cq[r.ctlTail].good = g
                   /\ \A n \in Slots : n # r.ctlTail => u.cq[n] = r.cq[n]
      <4>. DEFINE u == Posting(r, g)
      <4>1. DOMAIN q = Queue /\ IoQueue(r)
        BY <1>0, <2>4, Zenon DEF r
      <4>2. q' = [q EXCEPT !["io"] = u]
        BY <2>1 DEF r, Posting
      <4>. HIDE DEF u
      <4>3. DOMAIN q' = Queue /\ q'["io"] = u
        BY <4>1, <4>2, Zenon DEF Queue
      <4>4. u = Posting(r, g)
        BY SMTT(30) DEF u
      <4>5. /\ IoQueue(u)
            /\ u.tail = r.tail /\ u.head = r.head /\ u.phase = r.phase
            /\ u.ctlHead = Step("io", r.ctlHead) /\ u.ctlTail = Step("io", r.ctlTail)
            /\ u.ctlPhase = Flipped(Step("io", r.ctlTail), r.ctlPhase)
            /\ u.cq[r.ctlTail].phase = r.ctlPhase /\ u.cq[r.ctlTail].good = g
            /\ \A n \in Slots : n # r.ctlTail => u.cq[n] = r.cq[n]
        BY ONLY g \in BOOLEAN, <4>1, <4>4, PostingFacts, SMTT(40)
      <4>. QED BY ONLY <4>3, <4>5, Zenon
    <3>4. Lap(u, u.head + 1)
      BY <1>0, <2>4, <3>1, <3>3, LapPosted, Zenon DEF Outstanding
    <3>5. /\ r.ctlTail = r.head /\ r.ctlPhase = r.phase /\ Step("io", r.ctlHead) = r.tail
      BY <3>1, Zenon DEF Outstanding, Answered
    <3>6. Empty(u) /\ u.ctlTail = Step("io", u.head) /\ u.ctlPhase = Flipped(u.ctlTail, u.phase) /\ u.cq[u.head].good = g
      BY <3>3, <3>5, Zenon DEF Empty
    <3>7. Completed(q["io"])'
      <4>1. q'["io"] = u /\ (g => Done')
        BY <3>2, <3>3, Zenon
      <4>2. Empty(q'["io"]) /\ Lap(q'["io"], q'["io"].head + 1) /\ (q'["io"].cq[q'["io"].head].good => Done')
        <5>1. u.cq[u.head].good => Done'
          BY <3>6, <4>1, Zenon
        <5>. QED BY <3>4, <3>6, <4>1, <5>1, Zenon
      <4>. QED BY <3>6, <4>1, <4>2, Zenon DEF Completed, Empty, Lap, Step, Size, Flipped
    <3>8. IoQueue(q["io"])'
      BY <3>3, Zenon DEF IoQueue
    <3>. QED BY <2>2, <2>4, <3>1, <3>2, <3>3, <3>7, <3>8, Zenon DEF NvmeInv, IoInv
  <2>. QED BY <2>3, <2>4
<1>4. CASE NvmeRead \/ NvmeWrite
  <2>1. PICK c \in DiskCall : IoCmd(c)
    BY <1>4, DiskCallFacts, Zenon DEF NvmeRead, NvmeWrite
  <2>2. npos = "ready" /\ npos' = npos /\ Called(c) /\ q' = Submitted("io", c) /\ call = NoCall
    BY <2>1, Zenon DEF IoCmd, Called
  <2>3. DiskInv' /\ call' = c /\ adrift' = adrift /\ c # NoCall
    BY <1>0, <2>2, DiskCalled, DiskCallFacts, Zenon
  <2>4. ASSUME ~adrift PROVE IoInv'
    <3>1. Empty(r) /\ Answered(r) /\ DOMAIN q = Queue /\ IoQueue(r) /\ r = q["io"]
      <4>1. IoInv
        BY <2>2, <2>4, ZenonT(40) DEF NvmeInv
      <4>. QED BY ONLY <2>2, <4>1, Zenon DEF IoInv
    <3>. HIDE DEF r
    <3>p. Puts(r, c)
      BY <2>1, <2>2, <3>1, Zenon DEF Puts
    <3>q. PICK u : PutsTo(r, c, u)
      BY <3>p, IoSubmitted, Zenon
    <3>2. /\ DOMAIN q' = Queue /\ q'["io"] = u /\ IoQueue(u)
          /\ u.sq[r.tail] = c /\ u.tail = Step("io", r.tail) /\ u.ctlHead = r.ctlHead
          /\ u.cq = r.cq /\ u.head = r.head /\ u.phase = r.phase
          /\ u.ctlTail = r.ctlTail /\ u.ctlPhase = r.ctlPhase
      BY <3>q, Zenon DEF PutsTo
    <3>3. Answered(u)
      BY <3>1, <3>2, Zenon DEF Answered, Lap
    <3>4. Step("io", u.ctlHead) = u.tail /\ u.sq[u.ctlHead] = c
      BY <3>1, <3>2, Zenon DEF Empty
    <3>5. Outstanding(q["io"])'
      <4>1. q'["io"] = u /\ call' = c
        BY <2>3, <3>2, Zenon
      <4>. QED BY <3>3, <3>4, <4>1, Zenon DEF Outstanding, Answered, Lap, Step, Size
    <3>6. IoQueue(q["io"])'
      BY <3>2, ZenonT(40) DEF IoQueue
    <3>. QED BY <2>3, <3>2, <3>5, <3>6, Zenon DEF IoInv
  <2>. QED BY <2>2, <2>3, <2>4, Zenon DEF NvmeInv
<1>5. CASE NvmeReturn
  <2>1. /\ call # NoCall /\ r.cq[r.head].phase = r.phase /\ q' = Taken("io") /\ npos' = npos
        /\ Returned(r.cq[r.head].good, Pending("io"))
    BY <1>5, Zenon DEF NvmeReturn, Posted
  <2>2. call \in DiskCall
    BY <1>0, <2>1, Zenon
  <2>3. CASE adrift
    <3>1. call' = NoCall /\ adrift'
      BY <2>1, <2>3, Zenon DEF Returned
    <3>2. adrift' \in BOOLEAN
      BY <2>1, Zenon DEF Returned
    <3>. QED BY <2>3, <3>1, <3>2, Zenon DEF NvmeInv, DiskInv
  <2>4. CASE ~adrift
    <3>1. IoQueue(r) /\ DOMAIN q = Queue /\ r = q["io"] /\ r.head \in Slots /\ r.head \in Nat /\ r.phase \in {0, 1}
      <4>1. IoQueue(r) /\ DOMAIN q = Queue /\ r = q["io"]
        BY <1>0, <2>4, Zenon
      <4>2. r.head \in Slots /\ r.phase \in {0, 1}
        BY ONLY <4>1, ZenonT(40) DEF IoQueue
      <4>. QED BY ONLY <4>1, <4>2, SlotFacts, Zenon
    <3>2. ~Answered(r)
      <4>1. SUFFICES ASSUME Lap(r, r.head) PROVE FALSE
        BY ZenonT(40) DEF Answered
      <4>2. r.cq[r.head].phase = 1 - r.phase
        <5>1. r.cq[r.head].phase = IF r.head < r.head THEN r.phase ELSE 1 - r.phase
          BY ONLY <3>1, <4>1, Zenon DEF Lap
        <5>. QED BY ONLY <3>1, <5>1, SMTT(40)
      <4>. QED BY ONLY <2>1, <3>1, <4>2, SMTT(40)
    <3>3. Completed(r)
      BY <2>1, <2>4, <3>2, Zenon DEF NvmeInv, IoInv, Outstanding
    <3>4. /\ Empty(r) /\ r.ctlTail = Step("io", r.head) /\ r.ctlPhase = Flipped(r.ctlTail, r.phase)
          /\ Lap(r, r.head + 1) /\ (r.cq[r.head].good => Done)
      BY <3>3, ZenonT(40) DEF Completed
    <3>. DEFINE g == r.cq[r.head].good  p == Pending("io")
    <3>5. g \in BOOLEAN
      BY <3>1, SMTT(40) DEF IoQueue
    <3>6. p \in BOOLEAN /\ ~p
      BY <3>4, Zenon DEF Pending, Empty
    <3>7. Returned(g, p) /\ (g /\ ~adrift => Done)
      BY <2>1, <3>4, Zenon
    <3>. HIDE DEF g, p
    <3>8. /\ DiskInv' /\ call' = NoCall /\ adrift' = (adrift \/ p) /\ ok' = g
          /\ call.op = "read" /\ g /\ ~adrift => dbuf \in known[call.lba]
      BY <1>0, <2>2, <3>5, <3>6, <3>7, DiskReturned, Zenon
    <3>. HIDE DEF r
    <3>9. PICK u : /\ DOMAIN q' = Queue /\ q'["io"] = u /\ IoQueue(u)
                   /\ u.tail = r.tail /\ u.cq = r.cq /\ u.ctlHead = r.ctlHead /\ u.ctlTail = r.ctlTail
                   /\ u.ctlPhase = r.ctlPhase /\ u.head = Step("io", r.head)
                   /\ u.phase = Flipped(Step("io", r.head), r.phase)
      BY ONLY <2>1, <3>1, IoTaken, Zenon
    <3>10. Lap(u, u.head)
      BY <3>1, <3>4, <3>9, LapTaken, Zenon
    <3>11. Empty(u) /\ Answered(u)
      BY <3>4, <3>9, <3>10, Zenon DEF Empty, Answered
    <3>12. IoInv'
      BY <3>8, <3>9, <3>11, Zenon DEF IoInv, IoQueue, Empty, Answered, Lap
    <3>13. ok' => g
      BY <3>8, Zenon
    <3>. QED BY <2>4, <3>8, <3>12, <3>13, Zenon DEF NvmeInv
  <2>. QED BY <2>3, <2>4
<1>6. CASE NvmeTimeout
  <2>1. call # NoCall /\ Returned(FALSE, TRUE)
    BY <1>6, Zenon DEF NvmeTimeout
  <2>2. TRUE \in BOOLEAN /\ FALSE \in BOOLEAN /\ (FALSE /\ ~adrift => Done)
    BY Zenon
  <2>3. DiskInv' /\ call' = NoCall /\ adrift' = (adrift \/ TRUE) /\ ok' = FALSE
    BY <1>0, <2>1, <2>2, DiskReturned, Zenon
  <2>. QED BY <2>3, Zenon DEF NvmeInv
<1>. QED BY <1>1, <1>2, <1>3, <1>4, <1>5, <1>6, Zenon DEF NvmeNext, Queue

LEMMA NvmeInitInv ==
  ASSUME DiskInit, NvmeInit
  PROVE  NvmeInv
<1>1. DOMAIN q = Queue /\ q["io"] = NewQueue("io")
  BY Zenon DEF NvmeInit, Queue
<1>. QED BY <1>1, IoNew, DiskInitInv, Zenon DEF NvmeInv, IoInv

(* NvmeInv is an invariant of the driver with its controller, for queues of any size. *)
THEOREM NvmeInvariant == NvmeSpec => []NvmeInv
<1>1. DiskInit /\ NvmeInit => NvmeInv
  BY NvmeInitInv, Zenon
<1>2. NvmeInv /\ [NvmeNext]_<<diskVars, nvmeVars>> => NvmeInv'
  BY NvmeNextInv, Zenon
<1>. QED BY <1>1, <1>2, PTL DEF NvmeSpec

(* ReadsLastWrite for nvme_read_sectors and nvme_write_sectors. *)
THEOREM NvmeReadsLastWrite == NvmeSpec => ReadsLastWrite
<1>1. NvmeInv /\ [NvmeNext]_<<diskVars, nvmeVars>>
        => [call # NoCall /\ call' = NoCall /\ call.op = "read" /\ ok' /\ ~adrift
              => dbuf \in known[call.lba]]_diskVars
  BY NvmeNextInv, Zenon
<1>. QED BY <1>1, NvmeInvariant, PTL DEF NvmeSpec, ReadsLastWrite
=============================================================================
