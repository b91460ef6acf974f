---------------------------- MODULE Descriptors ----------------------------
(***************************************************************************)
(* kernel/proc/fd.c and the descriptor system calls of                     *)
(* kernel/syscall/syscall.c: every process has a private table whose       *)
(* entries index three global tables, the VFS open files, the sockets and  *)
(* the pipes.  The global tables are each under a lock, so one call on     *)
(* them is one step; between two such calls of one system call the other   *)
(* processes run, and so does a process that kills this one.               *)
(*                                                                         *)
(* Pipes are the byte FIFOs of PipeFifo, which Pipe implements.            *)
(***************************************************************************)
EXTENDS PipeFifo, FiniteSets

CONSTANTS
  Proc,
  Root,     \* the process that exists at start
  MaxFds,   \* MAX_FDS
  Files,    \* 0..VFS_MAX_OPEN - 1
  Socks,    \* 0..MAX_SOCKETS - 1
  Workloads \* what may happen in a behaviour: [calls, procs]

AllCalls == {"open", "socket", "pipe", "close", "read", "write", "spawn", "spawn_io", "exit", "kill"}

ASSUME DescConstants ==
  /\ MaxFds \in Nat /\ MaxFds > 3
  /\ Root \in Proc
  /\ Files \subseteq Nat /\ Socks \subseteq Nat /\ Pipes \subseteq Nat
  /\ Cap \in Nat /\ MaxLen \in Nat
  /\ Workloads \subseteq [calls : SUBSET AllCalls, procs : SUBSET Proc]

VARIABLES
  workload, \* the system calls made and the processes there may be
  fds,      \* proc->fds: the open descriptors of each process
  s_files,  \* the slots of s_files[] in use
  s_used,   \* the slots of s_used[] that are set
  life,     \* none, live or dead
  pc,       \* where each process is in a system call
  obj,      \* the file, socket or pipe index the call holds
  at,       \* the descriptor, or the loop index, the call holds
  vic,      \* whose table a process_kill or sys_exit walks
  kbuf      \* what sys_write has still to put into the pipe

descVars == <<workload, fifo, ret, fds, s_files, s_used, life, pc, obj, at, vic, kbuf>>

Fd == 0..MaxFds - 1
NoFd == -1
Entry == [type : {"FD_NONE", "FD_FILE", "FD_SOCKET", "FD_PIPE_READ", "FD_PIPE_WRITE"}, id : Nat]
Unused == [type |-> "FD_NONE", id |-> 0]

Pcs == {"user", "open", "socket", "pipe", "closed", "read", "write", "spawn", "loop", "clear"}

(* The descriptor tables, the global tables and every call's locals stay in range. *)
DescTypeOK ==
  /\ workload \in Workloads
  /\ fds \in [Proc -> [Fd -> Entry]]
  /\ s_files \subseteq Files
  /\ s_used \subseteq Socks
  /\ life \in [Proc -> {"none", "live", "dead"}]
  /\ pc \in [Proc -> Pcs]
  /\ obj \in [Proc -> Nat]
  /\ at \in [Proc -> 0..MaxFds]
  /\ vic \in [Proc -> Proc]
  /\ \A i \in Pipes : Len(fifo[i].q) <= Cap

DescInit ==
  /\ FifoInit
  /\ workload \in Workloads
  /\ fds = [p \in Proc |-> [i \in Fd |-> Unused]]
  /\ s_files = {}
  /\ s_used = {}
  /\ life = [p \in Proc |-> IF p = Root THEN "live" ELSE "none"]
  /\ pc = [p \in Proc |-> "user"]
  /\ obj = [p \in Proc |-> 0]
  /\ at = [p \in Proc |-> 0]
  /\ vic = [p \in Proc |-> p]
  /\ kbuf = [p \in Proc |-> <<>>]

-----------------------------------------------------------------------------
(* fd.c *)

fd_type(p, fd) == IF fd \in Fd THEN fds[p][fd].type ELSE "FD_NONE"

fd_id(p, fd) == fds[p][fd].id

(* The descriptors the three fd_alloc functions may hand out, and their choice. *)
Unopened(table, from) == {i \in Fd : i >= from /\ table[i].type = "FD_NONE"}

Lowest(S) == CHOOSE i \in S : \A j \in S : i <= j

(* The table once one more descriptor is installed at the lowest free place. *)
Installed(table, from, type, id) ==
  [table EXCEPT ![Lowest(Unopened(table, from))] = [type |-> type, id |-> id]]

FirstFile == 3     \* fd_alloc
FirstPipe == 3     \* fd_alloc_pipe
FirstSocket == 0   \* fd_alloc_socket

-----------------------------------------------------------------------------
(* The global tables of vfs.c and socket.c: the free slots, lowest first. *)

FreeFiles_All == Files

FreeFiles == Files \ s_files

FreeSocks == Socks \ s_used

-----------------------------------------------------------------------------
(* System calls. *)

At(p, l) == life[p] = "live" /\ pc[p] = l
Goto(p, l) == pc' = [pc EXCEPT ![p] = l]
Return(p) ==
  /\ Goto(p, "user")
  /\ obj' = [obj EXCEPT ![p] = 0]
  /\ at' = [at EXCEPT ![p] = 0]
  /\ vic' = [vic EXCEPT ![p] = p]
Hold(p, x) == obj' = [obj EXCEPT ![p] = x]
SetFds(p, table) == fds' = [fds EXCEPT ![p] = table]

(* A call that fails without having taken anything changes nothing and has no
   step of its own.  ret is the result of the last pipe.c call.

   sys_open up to vfs_open_ex. *)
SysOpen(p) ==
  /\ "open" \in workload.calls
  /\ At(p, "user")
  /\ FreeFiles # {}
  /\ s_files' = s_files \cup {Lowest(FreeFiles)}
  /\ Hold(p, Lowest(FreeFiles))
  /\ Goto(p, "open")
  /\ UNCHANGED <<workload, fifo, ret, fds, s_used, life, at, vic, kbuf>>

(* sys_open after vfs_open_ex: fd_alloc, or vfs_close and EMFILE. *)
OpenInstall(p) ==
  /\ At(p, "open")
  /\ LET room == Unopened(fds[p], FirstFile) IN
     IF room # {}
     THEN /\ SetFds(p, Installed(fds[p], FirstFile, "FD_FILE", obj[p]))
          /\ UNCHANGED s_files
     ELSE /\ s_files' = s_files \ {obj[p]}
          /\ UNCHANGED fds
  /\ Return(p)
  /\ UNCHANGED <<workload, fifo, ret, s_used, life, kbuf>>

(* sys_socket: sock_alloc, then fd_alloc_socket or sock_free. *)
SysSocket(p) ==
  /\ "socket" \in workload.calls
  /\ At(p, "user")
  /\ FreeSocks # {}
  /\ s_used' = s_used \cup {Lowest(FreeSocks)}
  /\ Hold(p, Lowest(FreeSocks))
  /\ Goto(p, "socket")
  /\ UNCHANGED <<workload, fifo, ret, fds, s_files, life, at, vic, kbuf>>

SocketInstall(p) ==
  /\ At(p, "socket")
  /\ LET room == Unopened(fds[p], FirstSocket) IN
     IF room # {}
     THEN /\ SetFds(p, Installed(fds[p], FirstSocket, "FD_SOCKET", obj[p]))
          /\ UNCHANGED s_used
     ELSE /\ s_used' = s_used \ {obj[p]}
          /\ UNCHANGED fds
  /\ Return(p)
  /\ UNCHANGED <<workload, fifo, ret, s_files, life, kbuf>>

(* sys_pipe: pipe_alloc ... *)
SysPipe(p) ==
  /\ "pipe" \in workload.calls
  /\ At(p, "user")
  /\ \/ /\ FNone
        /\ UNCHANGED <<obj, pc>>
     \/ \E i \in Pipes :
          /\ FAlloc(i)
          /\ Hold(p, i)
          /\ Goto(p, "pipe")
  /\ UNCHANGED <<workload, fds, s_files, s_used, life, at, vic, kbuf>>

(* ... then both ends, the read end first. *)
PipeInstall(p) ==
  /\ At(p, "pipe")
  /\ \E r, w \in Unopened(fds[p], FirstPipe) : r # w
  /\ SetFds(p, Installed(Installed(fds[p], FirstPipe, "FD_PIPE_READ", obj[p]),
                         FirstPipe, "FD_PIPE_WRITE", obj[p]))
  /\ Return(p)
  /\ UNCHANGED <<workload, fifo, ret, s_files, s_used, life, kbuf>>

PipeUndo_Keep(p) == UNCHANGED fifo

(* The three error paths of sys_pipe: no room for the read end, none for the
   write end, or copy_to_user fails.  Each takes back what was done. *)
PipeUndo(p) == fifo' = [fifo EXCEPT ![obj[p]] = Holding(@, FALSE, @.q)]

PipeInstallFails(p) ==
  /\ At(p, "pipe")
  /\ PipeUndo(p)
  /\ Return(p)
  /\ UNCHANGED <<workload, ret, fds, s_files, s_used, life, kbuf>>

(* sock_close, pipe_close_read, pipe_close_write or vfs_close. *)
CloseObject(e) ==
  /\ s_used' = IF e.type = "FD_SOCKET" THEN s_used \ {e.id} ELSE s_used
  /\ s_files' = IF e.type = "FD_FILE" THEN s_files \ {e.id} ELSE s_files
  /\ \/ e.type = "FD_PIPE_READ" /\ FCloseRead(e.id)
     \/ e.type = "FD_PIPE_WRITE" /\ FCloseWrite(e.id)
     \/ e.type \in {"FD_SOCKET", "FD_FILE"} /\ UNCHANGED <<fifo, ret>>

(* sys_close: the object first, then fd_free. *)
SysClose(p, fd) ==
  /\ "close" \in workload.calls
  /\ At(p, "user")
  /\ fd_type(p, fd) # "FD_NONE"
  /\ CloseObject(fds[p][fd])
  /\ at' = [at EXCEPT ![p] = fd]
  /\ Goto(p, "closed")
  /\ UNCHANGED <<workload, fds, life, obj, vic, kbuf>>

Freed(table, fd) == [table EXCEPT ![fd] = Unused]

CloseFree(p) ==
  /\ At(p, "closed")
  /\ SetFds(p, Freed(fds[p], at[p]))
  /\ Return(p)
  /\ UNCHANGED <<workload, fifo, ret, s_files, s_used, life, kbuf>>

(* Where sys_read and sys_write send a transfer on fd. *)
ReadRoute(p, fd) ==
  IF fd = 0
  THEN IF fd_type(p, 0) = "FD_PIPE_READ" THEN "pipe" ELSE "tty"
  ELSE IF fd_type(p, fd) = "FD_SOCKET" THEN "socket"
  ELSE IF fd_type(p, fd) = "FD_FILE" THEN "file" ELSE "bad"

WriteRoute(p, fd) ==
  IF fd \in {1, 2}
  THEN IF fd = 1 /\ fd_type(p, 1) = "FD_PIPE_WRITE" THEN "pipe" ELSE "tty"
  ELSE IF fd_type(p, fd) = "FD_SOCKET" THEN "socket"
  ELSE IF fd_type(p, fd) = "FD_FILE" THEN "file" ELSE "bad"

(* sys_read on a pipe: the index is looked up once, then pipe_read is retried
   with a yield in between for as long as it says -2. *)
SysRead(p) ==
  /\ "read" \in workload.calls
  /\ At(p, "user")
  /\ ReadRoute(p, 0) = "pipe"
  /\ Hold(p, fd_id(p, 0))
  /\ Goto(p, "read")
  /\ UNCHANGED <<workload, fifo, ret, fds, s_files, s_used, life, at, vic, kbuf>>

ReadTry(p) ==
  /\ At(p, "read")
  /\ FRead(obj[p], MaxLen)
  /\ ret' # <<-2>>
  /\ Return(p)
  /\ UNCHANGED <<workload, fds, s_files, s_used, life, kbuf>>

(* sys_write on a pipe: retried with what did not fit until all of it is in. *)
SysWrite(p, data) ==
  /\ "write" \in workload.calls
  /\ At(p, "user")
  /\ WriteRoute(p, 1) = "pipe"
  /\ Hold(p, fd_id(p, 1))
  /\ kbuf' = [kbuf EXCEPT ![p] = data]
  /\ Goto(p, "write")
  /\ UNCHANGED <<workload, fifo, ret, fds, s_files, s_used, life, at, vic>>

Unwritten_Resend(data, n) == SubSeq(data, IF n = 0 THEN 1 ELSE n, Len(data))

(* What pipe_write did not take: kbuf + w. *)
Unwritten(data, n) == SubSeq(data, n + 1, Len(data))

WriteTry(p) ==
  /\ At(p, "write")
  /\ FWrite(obj[p], kbuf[p])
  /\ ret' # <<0>>
  /\ LET n == ret'[1]
         rest == IF n < 0 THEN <<>> ELSE Unwritten(kbuf[p], n)
     IN  /\ kbuf' = [kbuf EXCEPT ![p] = rest]
         /\ IF rest = <<>> THEN Return(p) ELSE UNCHANGED <<pc, obj, at, vic>>
  /\ UNCHANGED <<workload, fds, s_files, s_used, life>>

(* spawn_process: the executable is read through a VFS slot of its own ... *)
SysSpawn(p) ==
  /\ {"spawn", "spawn_io"} \cap workload.calls # {}
  /\ At(p, "user")
  /\ FreeFiles # {}
  /\ s_files' = s_files \cup {Lowest(FreeFiles)}
  /\ Hold(p, Lowest(FreeFiles))
  /\ Goto(p, "spawn")
  /\ UNCHANGED <<workload, fifo, ret, fds, s_used, life, at, vic, kbuf>>

(* ... then the child gets an empty table and the two pipe ends, if any. *)
ChildFds(p, in, out) ==
  [i \in Fd |->
     IF i = 0 /\ fd_type(p, in) = "FD_PIPE_READ" THEN fds[p][in]
     ELSE IF i = 1 /\ fd_type(p, out) = "FD_PIPE_WRITE" THEN fds[p][out]
     ELSE Unused]

SpawnChild(p, q, in, out) ==
  /\ At(p, "spawn")
  /\ q \in workload.procs
  /\ life[q] = "none"
  /\ s_files' = s_files \ {obj[p]}
  /\ life' = [life EXCEPT ![q] = "live"]
  /\ SetFds(q, ChildFds(p, in, out))
  /\ Return(p)
  /\ UNCHANGED <<workload, fifo, ret, s_used, kbuf>>

(* elf_load or an allocation fails. *)
SpawnFails(p) ==
  /\ At(p, "spawn")
  /\ s_files' = s_files \ {obj[p]}
  /\ Return(p)
  /\ UNCHANGED <<workload, fifo, ret, fds, s_used, life, kbuf>>

-----------------------------------------------------------------------------
(* sys_exit and process_kill walk the table: pipe ends are closed, the other
   objects are not, and every entry is marked closed. *)

StillOpen(v, from) == {i \in Fd : i >= from /\ fds[v][i].type # "FD_NONE"}

WalkTable(p, v) ==
  /\ At(p, "user")
  /\ vic' = [vic EXCEPT ![p] = v]
  /\ at' = [at EXCEPT ![p] = 0]
  /\ Goto(p, "loop")
  /\ UNCHANGED <<workload, fifo, ret, fds, s_files, s_used, life, obj, kbuf>>

SysExit(p) == "exit" \in workload.calls /\ WalkTable(p, p)

SysKill(p, v) == "kill" \in workload.calls /\ life[v] = "live" /\ WalkTable(p, v)

(* One turn of the loop, up to the pipe_close call. *)
WalkClose(p) ==
  LET open == StillOpen(vic[p], at[p])
      i == Lowest(open)
      e == fds[vic[p]][i]
  IN
  /\ At(p, "loop")
  /\ open # {}
  /\ \/ e.type = "FD_PIPE_READ" /\ FCloseRead(e.id)
     \/ e.type = "FD_PIPE_WRITE" /\ FCloseWrite(e.id)
     \/ e.type \in {"FD_SOCKET", "FD_FILE"} /\ UNCHANGED <<fifo, ret>>
  /\ at' = [at EXCEPT ![p] = i]
  /\ Goto(p, "clear")
  /\ UNCHANGED <<workload, fds, s_files, s_used, life, obj, vic, kbuf>>

(* The rest of the turn: fds[i].open = false. *)
WalkClear(p) ==
  /\ At(p, "clear")
  /\ SetFds(vic[p], Freed(fds[vic[p]], at[p]))
  /\ at' = [at EXCEPT ![p] = @ + 1]
  /\ Goto(p, "loop")
  /\ UNCHANGED <<workload, fifo, ret, s_files, s_used, life, obj, vic, kbuf>>

(* process_mark_exited, and the thread is dead. *)
WalkDone(p) ==
  /\ At(p, "loop")
  /\ StillOpen(vic[p], at[p]) = {}
  /\ life' = [life EXCEPT ![vic[p]] = "dead"]
  /\ Return(p)
  /\ UNCHANGED <<workload, fifo, ret, fds, s_files, s_used, kbuf>>

(* Processes that pass no pipe ends to their children; Pipeline has the others,
   and with them the reads and writes. *)
ProcStep(p) ==
  \/ SysOpen(p) \/ OpenInstall(p)
  \/ SysSocket(p) \/ SocketInstall(p)
  \/ SysPipe(p) \/ PipeInstall(p) \/ PipeInstallFails(p)
  \/ \E fd \in Fd : SysClose(p, fd)
  \/ CloseFree(p)
  \/ SysSpawn(p) \/ SpawnFails(p)
  \/ \E q \in Proc : SpawnChild(p, q, NoFd, NoFd)
  \/ SysExit(p) \/ WalkClose(p) \/ WalkClear(p) \/ WalkDone(p)
  \/ \E v \in Proc \ {p} : SysKill(p, v)

DescNext == \E p \in Proc : ProcStep(p)

DescSpec == DescInit /\ [][DescNext]_descVars

-----------------------------------------------------------------------------
(* Properties *)

(* The descriptor a process is in the middle of closing no longer counts. *)
BeingClosed(p, fd) ==
  at[p] = fd /\ (pc[p] = "closed" \/ (pc[p] = "clear" /\ vic[p] = p))

(* What refers to a slot of a global table: an open descriptor of that type, or,
   at NoFd, the system call that has taken the slot and not installed it yet. *)
Place == Fd \cup {NoFd}

Taking(type) ==
  IF type = "FD_FILE" THEN {"open", "spawn"} ELSE IF type = "FD_SOCKET" THEN {"socket"} ELSE {"pipe"}

Refers(type, p, f) ==
  /\ life[p] = "live"
  /\ IF f = NoFd THEN pc[p] \in Taking(type)
     ELSE fds[p][f].type = type /\ ~BeingClosed(p, f)

Slot(p, f) == IF f = NoFd THEN obj[p] ELSE fds[p][f].id

Ended(type, i) == IF type = "FD_PIPE_READ" THEN fifo[i].read_closed ELSE fifo[i].write_closed

(* The slots taken; of the pipes, those with this end open. *)
Taken(type) ==
  IF type = "FD_FILE" THEN s_files ELSE IF type = "FD_SOCKET" THEN s_used
  ELSE {i \in Pipes : fifo[i].in_use /\ ~Ended(type, i)}

Exclusive(type) ==
  \A p \in Proc, f \in Place : Refers(type, p, f) =>
    /\ Slot(p, f) \in Taken(type)
    /\ \A q \in Proc, g \in Place :
         Refers(type, q, g) /\ Slot(q, g) = Slot(p, f) => q = p /\ g = f

Covered(type) ==
  \A i \in Taken(type) : \E p \in Proc, f \in Place : Refers(type, p, f) /\ Slot(p, f) = i

(* Two descriptors never share an open-file or a socket slot, and none outlives its
   slot: a file opened by one process is never read through another's descriptor,
   whatever is killed or fails half-way (vfs_open_ex, sock_alloc, fd_alloc,
   sys_close, process_kill). *)
SlotsExclusive ==
  /\ DescTypeOK
  /\ Exclusive("FD_FILE")
  /\ Exclusive("FD_SOCKET")

(* Without inheritance and without kill, an end of a pipe is open exactly as long as
   one descriptor stands for it: no descriptor is left on a dead pipe, and no error
   path of sys_pipe, close or exit leaks one of the MAX_PIPES slots. *)
OwnPipes == workload.calls \cap {"kill", "spawn_io"} = {}

PipeEndsExact ==
  OwnPipes => \A type \in {"FD_PIPE_READ", "FD_PIPE_WRITE"} : Exclusive(type) /\ Covered(type)

(* The inductive invariants behind them: a process that does not exist yet is in no
   system call; what a call on a pipe holds, and what a descriptor of one refers to, is
   a pipe; a process that exits walks its own table, and what it has passed is closed. *)
FifoTypes ==
  fifo \in [Pipes -> [in_use : BOOLEAN, q : Seq(Byte), write_closed : BOOLEAN, read_closed : BOOLEAN]]

SlotInv ==
  /\ SlotsExclusive
  /\ FifoTypes /\ kbuf \in [Proc -> Seq(Byte)]
  /\ \A p \in Proc :
       /\ life[p] = "none" => pc[p] = "user"
       /\ pc[p] \in {"closed", "clear"} => at[p] \in Fd
       /\ pc[p] \in {"pipe", "read", "write"} => obj[p] \in Pipes
       /\ \A f \in Fd : fds[p][f].type \in {"FD_PIPE_READ", "FD_PIPE_WRITE"} => fds[p][f].id \in Pipes

Walked(p) ==
  /\ vic[p] = p
  /\ pc[p] \in {"loop", "clear"} => \A f \in Fd : f < at[p] => fds[p][f].type = "FD_NONE"

EndInv == PipeEndsExact /\ (OwnPipes => \A p \in Proc : Walked(p))
=============================================================================
