------------------------------ MODULE Pipeline ------------------------------
(***************************************************************************)
(* A pipeline typed at the shell: run_pipeline of user/shell/shell.c       *)
(* creates the pipes, spawns the stages with their ends, closes its own    *)
(* descriptors and waits.  The stages are the programs of user/bin: the    *)
(* first one writes a file to its standard output (cat), the others read   *)
(* their standard input to its end and pass it on (grep, wc).  In the      *)
(* workloads without spawn_io there is no shell and the processes make     *)
(* their descriptor calls in any order.                                    *)
(***************************************************************************)
EXTENDS Descriptors

CONSTANTS
  Stages,   \* the processes of the pipeline, in order
  Message   \* the chunks the first stage writes

ASSUME PipelineConstants ==
  /\ Stages \in Seq(Proc \ {Root})
  /\ Len(Stages) >= 2
  /\ Message \in Seq(Data \ {<<>>})

VARIABLES
  sh,       \* where the shell is in run_pipeline
  k,        \* its loop index
  pipes,    \* pipes[][2]
  pids,     \* the stages that were spawned
  todo,     \* the chunks the first stage has still to write
  line,     \* what a middle stage has read and not passed on
  eof,      \* the stages whose input has ended
  got       \* what the last stage has received

shellVars == <<sh, k, pipes, pids>>
stageVars == <<todo, line, eof, got>>
allVars == <<descVars, shellVars, stageVars>>

NSeg == Len(Stages)
First == Stages[1]
Last == Stages[NSeg]

PipelineInit ==
  /\ DescInit
  /\ sh = IF "spawn_io" \in workload.calls THEN "pipe" ELSE "none"
  /\ k = 1
  /\ pipes = <<>>
  /\ pids = {}
  /\ todo = Message
  /\ line = [p \in Proc |-> <<>>]
  /\ eof = {}
  /\ got = <<>>

(* The bytes of a sequence of chunks. *)
Bytes(chunks) ==
  LET total[n \in 0..Len(chunks)] == IF n = 0 THEN <<>> ELSE total[n - 1] \o chunks[n]
  IN  total[Len(chunks)]

-----------------------------------------------------------------------------
(* The shell. *)

Step(label, index) == sh' = label /\ k' = index

(* pipe(): on failure run_pipeline returns and leaves the earlier pipes open. *)
ShPipe ==
  /\ sh = "pipe"
  /\ SysPipe(Root)
  /\ IF pc'[Root] = "pipe" THEN UNCHANGED <<sh, k>> ELSE Step("prompt", k)
  /\ UNCHANGED <<pipes, pids, stageVars>>

ShPipeInstall ==
  LET room == Unopened(fds[Root], FirstPipe)
      r == Lowest(room)
  IN
  /\ PipeInstall(Root)
  /\ pipes' = Append(pipes, <<r, Lowest(room \ {r})>>)
  /\ IF k < NSeg - 1 THEN Step("pipe", k + 1) ELSE Step("spawn", 1)
  /\ UNCHANGED <<pids, stageVars>>

ShPipeFails ==
  /\ PipeInstallFails(Root)
  /\ Step("prompt", k)
  /\ UNCHANGED <<pipes, pids, stageVars>>

(* spawn_command with in_fd and out_fd. *)
ShSpawn ==
  /\ sh = "spawn"
  /\ SysSpawn(Root)
  /\ UNCHANGED <<shellVars, stageVars>>

Spawned == IF k < NSeg THEN Step("spawn", k + 1) ELSE Step("close", 1)

ShSpawnChild ==
  /\ SpawnChild(Root, Stages[k], IF k = 1 THEN NoFd ELSE pipes[k - 1][1],
                IF k = NSeg THEN NoFd ELSE pipes[k][2])
  /\ pids' = pids \cup {Stages[k]}
  /\ Spawned
  /\ UNCHANGED <<pipes, stageVars>>

ShSpawnFails ==
  /\ SpawnFails(Root)
  /\ Spawned
  /\ UNCHANGED <<pipes, pids, stageVars>>

(* close(pipes[i][0]); close(pipes[i][1]): k counts the closes. *)
ShClose ==
  /\ sh = "close"
  /\ SysClose(Root, pipes[(k + 1) \div 2][IF k % 2 = 1 THEN 1 ELSE 2])
  /\ UNCHANGED <<shellVars, stageVars>>

ShCloseFree ==
  /\ CloseFree(Root)
  /\ IF k < 2 * Len(pipes) THEN Step("close", k + 1) ELSE Step("wait", NSeg)
  /\ UNCHANGED <<pipes, pids, stageVars>>

(* waitpid, the last stage first. *)
ShWait ==
  /\ sh = "wait"
  /\ Stages[k] \in pids => life[Stages[k]] = "dead"
  /\ IF k > 1 THEN Step("wait", k - 1) ELSE Step("prompt", k)
  /\ UNCHANGED <<descVars, pipes, pids, stageVars>>

Shell ==
  \/ ShPipe \/ ShPipeInstall \/ ShPipeFails
  \/ ShSpawn \/ ShSpawnChild \/ ShSpawnFails
  \/ ShClose \/ ShCloseFree
  \/ ShWait

-----------------------------------------------------------------------------
(* The stages. *)

(* cat: write(1, buf, n), whatever it returns. *)
CatWrite ==
  /\ todo # <<>>
  /\ SysWrite(First, Head(todo))
  /\ todo' = Tail(todo)
  /\ UNCHANGED <<shellVars, line, eof, got>>

(* while ((n = read(0, buf, sizeof buf)) > 0) *)
ReadStops_OnlyEof(n) == n = 0

ReadStops(n) == n <= 0

StageRead(p) ==
  /\ p # First
  /\ p \notin eof
  /\ line[p] = <<>>
  /\ SysRead(p)
  /\ UNCHANGED <<shellVars, stageVars>>

StageReadTry(p) ==
  LET data == IF ret'[1] > 0 THEN ret'[2] ELSE <<>> IN
  /\ ReadTry(p)
  /\ eof' = IF ReadStops(ret'[1]) THEN eof \cup {p} ELSE eof
  /\ got' = IF p = Last THEN got \o data ELSE got
  /\ line' = IF p = Last THEN line ELSE [line EXCEPT ![p] = data]
  /\ UNCHANGED <<shellVars, todo>>

(* A middle stage passes on what it has read. *)
StageWrite(p) ==
  /\ line[p] # <<>>
  /\ SysWrite(p, line[p])
  /\ line' = [line EXCEPT ![p] = <<>>]
  /\ UNCHANGED <<shellVars, todo, eof, got>>

StageExit(p) ==
  /\ IF p = First THEN todo = <<>> ELSE p \in eof
  /\ SysExit(p)
  /\ UNCHANGED <<shellVars, stageVars>>

Stage(p) ==
  \/ p = First /\ CatWrite
  \/ StageRead(p) \/ StageReadTry(p) \/ StageWrite(p) \/ StageExit(p)
  \/ (WriteTry(p) \/ WalkClose(p) \/ WalkClear(p) \/ WalkDone(p))
     /\ UNCHANGED <<shellVars, stageVars>>

StageSet == {Stages[i] : i \in 1..NSeg}

(* The shell is back at its prompt. *)
Idle == sh = "prompt" /\ (\A p \in pids : life[p] = "dead") /\ UNCHANGED allVars

(* No shell: any process may make any call. *)
AnyCall == sh = "none" /\ DescNext /\ UNCHANGED <<shellVars, stageVars>>

PipelineNext ==
  \/ sh # "none" /\ (Shell \/ \E p \in StageSet : Stage(p))
  \/ Idle \/ AnyCall

PipelineSpec == PipelineInit /\ [][PipelineNext]_allVars

(* Every process gets the CPU again and again: round robin with preemption. *)
FairPipeline ==
  /\ PipelineSpec
  /\ WF_allVars(sh # "none" /\ Shell)
  /\ \A p \in StageSet : WF_allVars(sh # "none" /\ Stage(p))

-----------------------------------------------------------------------------
(* Properties *)

(* What the last stage receives is always a prefix of what the first one wrote:
   the retries of sys_write and sys_read lose, repeat and reorder nothing. *)
DeliversPrefix ==
  /\ Len(got) <= Len(Bytes(Message))
  /\ got = SubSeq(Bytes(Message), 1, Len(got))

(* The inductive invariant behind the properties of Descriptors: the shell is there
   exactly when ends are inherited, and only bytes are passed on. *)
ShellInv ==
  /\ SlotInv /\ EndInv
  /\ sh = "none" <=> "spawn_io" \notin workload.calls
  /\ todo \in Seq(Data) /\ line \in [Proc -> Seq(Byte)]

(* "pipelines work": when the shell is back at its prompt and every stage was
   started, all of the first stage's output has gone through. *)
PipelineDelivers ==
  (sh = "prompt" /\ pids = StageSet) => got = Bytes(Message)

(* Every pipeline ends and the shell prompts again, also when pipe() or a spawn
   fails: nobody waits for ever on a pipe whose other end is gone. *)
PipelineEnds ==
  sh # "none" => <>(sh = "prompt" /\ \A p \in pids : life[p] = "dead")
=============================================================================
