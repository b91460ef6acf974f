-------------------------------- MODULE Cred --------------------------------
(***************************************************************************)
(* kernel/security/cred.c and the system calls that use it: the real,      *)
(* effective and saved ids of every process, how they change, and how a    *)
(* child gets them in spawn_process and sys_spawn_as.  The executables on  *)
(* disk keep their owner and their setuid bit.                             *)
(***************************************************************************)
EXTENDS Naturals

CONSTANTS
  Proc,
  Login,     \* the process kernel_main starts
  Id,        \* user and group ids; 0 is root
  Program    \* executables: [uid, gid, setuid, mode]

ASSUME CredConstants ==
  /\ Login \in Proc
  /\ Id \subseteq Nat
  /\ 0 \in Id
  /\ Program \subseteq [uid : Id, gid : Id, setuid : BOOLEAN, mode : [{"owner", "group", "other"} -> BOOLEAN]]

VARIABLES
  alive,     \* the processes that exist
  cred,      \* proc->cred
  born       \* the user ids the process was started with

credVars == <<alive, cred, born>>

CredRec == [uid : Id, gid : Id, euid : Id, egid : Id, suid : Id, sgid : Id]

(* Every process has its six ids, all of them known ones. *)
CredTypeOK ==
  /\ alive \subseteq Proc
  /\ cred \in [Proc -> CredRec]
  /\ born \in [Proc -> SUBSET Id]

(* cred_init *)
AllIds(u, g) == [uid |-> u, gid |-> g, euid |-> u, egid |-> g, suid |-> u, sgid |-> g]

UserIds(c) == {c.uid, c.euid, c.suid}
GroupIds(c) == {c.gid, c.egid, c.sgid}

CredInit ==
  /\ alive = {Login}
  /\ cred = [p \in Proc |-> AllIds(0, 0)]
  /\ born = [p \in Proc |-> {0}]

-----------------------------------------------------------------------------
(* cred.c: the new credentials, or the old ones when the call is refused. *)

WithUser(c, u, e, s) ==
  [uid |-> u, gid |-> c.gid, euid |-> e, egid |-> c.egid, suid |-> s, sgid |-> c.sgid]

WithGroup(c, g, e, s) ==
  [uid |-> c.uid, gid |-> g, euid |-> c.euid, egid |-> e, suid |-> c.suid, sgid |-> s]

cred_setuid(c, id) ==
  IF c.euid = 0 THEN WithUser(c, id, id, id)
  ELSE IF id \in {c.uid, c.suid} THEN WithUser(c, c.uid, id, c.suid)
  ELSE c

MaySeteuid_Any(c, id) == TRUE

MaySeteuid(c, id) == c.euid = 0 \/ id \in {c.uid, c.euid, c.suid}

cred_seteuid(c, id) ==
  IF MaySeteuid(c, id) THEN WithUser(c, c.uid, id, c.suid) ELSE c

cred_setgid(c, id) ==
  IF c.euid = 0 THEN WithGroup(c, id, id, id)
  ELSE IF id \in {c.gid, c.sgid} THEN WithGroup(c, c.gid, id, c.sgid)
  ELSE c

MaySetegid_Any(c, id) == TRUE

MaySetegid(c, id) == c.euid = 0 \/ id \in {c.gid, c.egid, c.sgid}

cred_setegid(c, id) ==
  IF MaySetegid(c, id) THEN WithGroup(c, c.gid, id, c.sgid) ELSE c

(* cred_check for one kind of access: the first class that fits decides. *)
cred_check(c, file) ==
  \/ c.euid = 0
  \/ file.mode[IF c.euid = file.uid THEN "owner"
               ELSE IF c.egid = file.gid THEN "group" ELSE "other"]

-----------------------------------------------------------------------------
(* System calls. *)

SetCred(p, c) ==
  /\ p \in alive
  /\ cred' = [cred EXCEPT ![p] = c]
  /\ UNCHANGED <<alive, born>>

SysSetuid(p, id) == SetCred(p, cred_setuid(cred[p], id))

SysSeteuid(p, id) == SetCred(p, cred_seteuid(cred[p], id))

SysSetgid(p, id) == SetCred(p, cred_setgid(cred[p], id))

SysSetegid(p, id) == SetCred(p, cred_setegid(cred[p], id))

(* spawn_process: the parent's credentials, the owner of a setuid executable as
   effective user (root's group with root), the saved ids from the effective ones. *)
ChildCred(c, f) ==
  LET e == IF f.setuid THEN f.uid ELSE c.euid
      g == IF f.setuid /\ f.uid = 0 THEN 0 ELSE c.egid
  IN  [uid |-> c.uid, gid |-> c.gid, euid |-> e, egid |-> g, suid |-> e, sgid |-> g]

NewProcess(q, c) ==
  /\ q \notin alive
  /\ alive' = alive \cup {q}
  /\ cred' = [cred EXCEPT ![q] = c]
  /\ born' = [born EXCEPT ![q] = UserIds(c)]

SysSpawn(p, q, f) ==
  /\ p \in alive
  /\ cred_check(cred[p], f)
  /\ NewProcess(q, ChildCred(cred[p], f))

(* sys_spawn_as: for root only; all six ids are overwritten before the start. *)
SysSpawnAs(p, q, f, u, g) ==
  /\ p \in alive
  /\ cred[p].euid = 0
  /\ cred_check(cred[p], f)
  /\ NewProcess(q, AllIds(u, g))

(* sys_exit; the process struct is used again for another process. *)
SysExit(p) ==
  /\ p \in alive \ {Login}
  /\ alive' = alive \ {p}
  /\ UNCHANGED <<cred, born>>

CredNext ==
  \E p \in Proc :
    \/ \E id \in Id : SysSetuid(p, id) \/ SysSeteuid(p, id) \/ SysSetgid(p, id) \/ SysSetegid(p, id)
    \/ \E q \in Proc, f \in Program : SysSpawn(p, q, f)
    \/ \E q \in Proc, f \in Program, u, g \in Id : SysSpawnAs(p, q, f, u, g)
    \/ SysExit(p)

CredSpec == CredInit /\ [][CredNext]_credVars

-----------------------------------------------------------------------------
(* Properties *)

(* A process can only ever act as one of the users it was started with: its real,
   effective and saved user ids stay among them, unless root was one of them. *)
UserIdsBounded ==
  \A p \in alive : 0 \in born[p] \/ UserIds(cred[p]) \subseteq born[p]

(* Once none of its three user ids is root, no sequence of calls gives a process a
   root id again, nor a group it did not have (cred_setuid, cred_seteuid,
   cred_setgid, cred_setegid). *)
DropIsPermanent ==
  [][\A p \in alive :
       (p \in alive' /\ 0 \notin UserIds(cred[p])) =>
         /\ 0 \notin UserIds(cred'[p])
         /\ GroupIds(cred'[p]) \subseteq GroupIds(cred[p])]_credVars
=============================================================================
