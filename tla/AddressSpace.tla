---------------------------- MODULE AddressSpace ----------------------------
(***************************************************************************)
(* kernel/mem/vmm.c and kernel/exec/elf.c: the 4-level page tables of      *)
(* processes, built by elf_load page by page and taken apart by            *)
(* vmm_space_destroy in the timer interrupt's reaper.  Every call of the   *)
(* page allocator is a step of its own, so loads and destructions on       *)
(* several CPUs interleave; what lies between two calls touches only the   *)
(* caller's own tables.  A client is one such address space.               *)
(***************************************************************************)
EXTENDS Pmm

CONSTANTS
  Index,        \* indices of a table, 0..511
  KernelIndex,  \* the PML4 indices of the kernel half, 256..511
  KernelTable,  \* the page the kernel's own PML4 has in every entry of that half
  Images,       \* what elf_load finds in a file: sequences of pages to map
  Stack,        \* the pages of the user stack
  MaxLoads      \* bound on the calls of elf_load
\* A page to map is [va : <<pml4i, pdpti, pdi, pti>>, flags, ok : BOOLEAN];
\* one that is not ok stands for a segment the checks of elf_load reject.

None == -1
UserPage == [va : [1..4 -> Index], flags : Nat, ok : BOOLEAN]

(* No two pages to map have one address. *)
Apart(s) == \A m, n \in 1..Len(s) : m # n /\ s[m].ok /\ s[n].ok => s[m].va # s[n].va

(* No two segments of a program share a page, with each other or with the stack. *)
ASSUME SpaceConstants ==
  /\ Index \subseteq Nat /\ KernelIndex \subseteq Index /\ KernelTable \in Page
  /\ Stack \in Seq(UserPage)
  /\ \A im \in Images : im \in Seq(UserPage) /\ Apart(im \o Stack)

VARIABLES
  table,        \* the 512 entries of each page, when it is used as a table
  pc,           \* what a client is doing
  root,         \* its cr3
  todo,         \* elf_load: the pages still to map
  leaf,         \* elf_load: the page allocated and not yet mapped
  image,        \* what it was asked to load
  done,         \* vmm_space_destroy: the entries whose page has been freed
  lost,         \* pages of loads that failed
  loads         \* calls of elf_load so far

spaceVars == <<table, pc, root, todo, leaf, image, done, lost, loads>>
allVars == <<spaceVars, pmmVars>>

UserIndex == Index \ KernelIndex
Nothing == [pg |-> None, flags |-> None]
ZeroTable == [i \in Index |-> Nothing]
(* What is left in a page nobody owns.  No step may depend on it, so the model
   forgets it: every entry leads to a page of the kernel. *)
Junk == [i \in Index |-> [pg |-> KernelTable, flags |-> 0]]
Present(t, i) == table[t][i].pg # None

SpaceTypeOK ==
  /\ PmmTypeOK
  /\ table \in [Page -> [Index -> [pg : Page \cup {None}, flags : Int]]]
  /\ pc \in [Client -> {"none", "load", "ready", "destroy"}]
  /\ root \in [Client -> Page \cup {None}] /\ leaf \in [Client -> Page \cup {None}]
  /\ todo \in [Client -> Seq(UserPage)] /\ image \in [Client -> Seq(UserPage)]
  /\ done \in [Client -> SUBSET Seq(Index)]
  /\ lost \subseteq Page

SpaceInit ==
  /\ PmmInit
  /\ table = [pg \in Page |-> Junk]
  /\ pc = [c \in Client |-> "none"]
  /\ root = [c \in Client |-> None]
  /\ todo = [c \in Client |-> <<>>]
  /\ leaf = [c \in Client |-> None]
  /\ image = [c \in Client |-> <<>>]
  /\ done = [c \in Client |-> {}]
  /\ lost = {}
  /\ loads = 0

Boot ==
  /\ InitFree \/ InitUsed
  /\ UNCHANGED spaceVars

-----------------------------------------------------------------------------
(* elf_load *)

(* vmm_space_create: an empty user half and the kernel's entries. *)
SpaceTable(pg) == [i \in Index |-> IF i \in KernelIndex THEN [pg |-> KernelTable, flags |-> 0] ELSE Nothing]

ElfLoad(c, im) ==
  /\ pc[c] = "none" /\ loads < MaxLoads
  /\ loads' = loads + 1
  /\ \E pg \in Page :
       /\ PmmAlloc(c, pg)
       /\ root' = [root EXCEPT ![c] = pg]
       /\ table' = [table EXCEPT ![pg] = SpaceTable(pg)]
  /\ pc' = [pc EXCEPT ![c] = "load"]
  /\ todo' = [todo EXCEPT ![c] = im \o Stack]
  /\ image' = [image EXCEPT ![c] = im \o Stack]
  /\ UNCHANGED <<leaf, done, lost>>

Loading(c) == pc[c] = "load" /\ todo[c] # <<>>
Va(c) == Head(todo[c]).va

(* A zeroed page for the contents. *)
LoadLeaf(c) ==
  /\ Loading(c) /\ leaf[c] = None /\ Head(todo[c]).ok
  /\ \E pg \in Page :
       /\ PmmAlloc(c, pg)
       /\ leaf' = [leaf EXCEPT ![c] = pg]
       /\ table' = [table EXCEPT ![pg] = ZeroTable]
  /\ UNCHANGED <<pc, root, todo, image, done, lost, loads>>

(* The table vmm_space_map reaches after n levels, None below a missing entry. *)
Pdpt(c) == table[root[c]][Va(c)[1]].pg
Pd(c) == IF Pdpt(c) = None THEN None ELSE table[Pdpt(c)][Va(c)[2]].pg
Pt_WrongIndex(c) == IF Pd(c) = None THEN None ELSE table[Pd(c)][Va(c)[2]].pg
Pt(c) == IF Pd(c) = None THEN None ELSE table[Pd(c)][Va(c)[3]].pg

(* The entry of the first table that is missing. *)
MissingAt(c) ==
  IF Pdpt(c) = None THEN <<root[c], Va(c)[1]>>
  ELSE IF Pd(c) = None THEN <<Pdpt(c), Va(c)[2]>>
  ELSE <<Pd(c), Va(c)[3]>>

Mappable(c) == Loading(c) /\ leaf[c] # None /\ Va(c)[1] \notin KernelIndex

Fresh_Dirty(pg) == table[pg]

Fresh(pg) == ZeroTable

(* ensure_table_in: a zeroed table where there was none. *)
LoadTable(c) ==
  /\ Mappable(c) /\ Pt(c) = None
  /\ \E pg \in Page :
       /\ PmmAlloc(c, pg)
       /\ LET e == MissingAt(c)
          IN  table' = [table EXCEPT ![pg] = Fresh(pg), ![e[1]][e[2]] = [pg |-> pg, flags |-> 0]]
  /\ UNCHANGED <<pc, root, todo, leaf, image, done, lost, loads>>

(* vmm_space_map sets the entry. *)
LoadMap(c) ==
  /\ Mappable(c) /\ Pt(c) # None
  /\ table' = [table EXCEPT ![Pt(c)][Va(c)[4]] = [pg |-> leaf[c], flags |-> Head(todo[c]).flags]]
  /\ leaf' = [leaf EXCEPT ![c] = None]
  /\ todo' = [todo EXCEPT ![c] = Tail(@)]
  /\ UNCHANGED <<pc, root, image, done, lost, loads>>
  /\ UNCHANGED pmmVars

OutOfMemory == Page \subseteq used

(* elf_load returns false: a bad segment, no memory, or an address in the kernel
   half.  Nothing it allocated is freed. *)
LoadFails(c) ==
  /\ Loading(c)
  /\ \/ leaf[c] = None /\ ~Head(todo[c]).ok
     \/ leaf[c] = None /\ OutOfMemory
     \/ leaf[c] # None /\ Va(c)[1] \in KernelIndex
     \/ Mappable(c) /\ Pt(c) = None /\ OutOfMemory
  /\ lost' = lost \cup held[c]
  /\ held' = [held EXCEPT ![c] = {}]
  /\ pc' = [pc EXCEPT ![c] = "none"]
  /\ root' = [root EXCEPT ![c] = None]
  /\ leaf' = [leaf EXCEPT ![c] = None]
  /\ todo' = [todo EXCEPT ![c] = <<>>]
  /\ image' = [image EXCEPT ![c] = <<>>]
  /\ table' = [pg \in Page |-> IF pg \in held[c] THEN Junk ELSE table[pg]]
  /\ UNCHANGED <<loads, done, boot, step, used, pmm_free>>

LoadDone(c) ==
  /\ pc[c] = "load" /\ todo[c] = <<>>
  /\ pc' = [pc EXCEPT ![c] = "ready"]
  /\ UNCHANGED <<table, root, todo, leaf, image, done, lost, loads>>
  /\ UNCHANGED pmmVars

-----------------------------------------------------------------------------
(* vmm_space_destroy.  A path names an entry by the indices that lead to it. *)

DestroyBegin(c) ==
  /\ pc[c] = "ready"
  /\ pc' = [pc EXCEPT ![c] = "destroy"]
  /\ UNCHANGED <<table, root, todo, leaf, image, done, lost, loads>>
  /\ UNCHANGED pmmVars

(* The loop over the PML4 covers the user half, the other loops everything. *)
WalkIndex(path) == IF path = <<>> THEN UserIndex ELSE Index

(* The entries of table t the loop has yet to come to. *)
Ahead(c, t, path) ==
  {i \in WalkIndex(path) : Present(t, i) /\ Append(path, i) \notin done[c]}

Next1(c, t, path) == CHOOSE i \in Ahead(c, t, path) : \A j \in Ahead(c, t, path) : i <= j

TableDone_Early(c, t, path) == TRUE

TableDone(c, t, path) == Ahead(c, t, path) = {}

(* The page freed next and its path: a table goes after everything below it. *)
FreePt(c, t, path) ==
  IF Ahead(c, t, path) = {} THEN [pg |-> t, path |-> path]
  ELSE LET i == Next1(c, t, path) IN [pg |-> table[t][i].pg, path |-> Append(path, i)]

FreePd(c, t, path) ==
  IF TableDone(c, t, path) THEN [pg |-> t, path |-> path]
  ELSE LET i == Next1(c, t, path) IN FreePt(c, table[t][i].pg, Append(path, i))

FreePdpt(c, t, path) ==
  IF Ahead(c, t, path) = {} THEN [pg |-> t, path |-> path]
  ELSE LET i == Next1(c, t, path) IN FreePd(c, table[t][i].pg, Append(path, i))

NextFree(c) ==
  LET t == root[c] IN
  IF Ahead(c, t, <<>>) = {} THEN [pg |-> t, path |-> <<>>]
  ELSE LET i == Next1(c, t, <<>>) IN FreePdpt(c, table[t][i].pg, <<i>>)

Destroy(c) ==
  /\ pc[c] = "destroy"
  /\ LET e == NextFree(c)
     IN  /\ PmmFree(c, e.pg)
         /\ table' = [table EXCEPT ![e.pg] = Junk]
         /\ IF e.path = <<>>
            THEN /\ pc' = [pc EXCEPT ![c] = "none"]
                 /\ root' = [root EXCEPT ![c] = None]
                 /\ done' = [done EXCEPT ![c] = {}]
                 /\ image' = [image EXCEPT ![c] = <<>>]
            ELSE /\ done' = [done EXCEPT ![c] = @ \cup {e.path}]
                 /\ UNCHANGED <<pc, root, image>>
  /\ UNCHANGED <<todo, leaf, lost, loads>>

SpaceNext ==
  \/ Boot
  \/ \E c \in Client :
       \/ \E im \in Images : ElfLoad(c, im)
       \/ LoadLeaf(c) \/ LoadTable(c) \/ LoadMap(c) \/ LoadFails(c) \/ LoadDone(c)
       \/ DestroyBegin(c) \/ Destroy(c)

SpaceSpec == SpaceInit /\ [][SpaceNext]_allVars

-----------------------------------------------------------------------------
(* Properties *)

(* The entries of a space that vmm_space_destroy has not yet freed, level by level. *)
Place(path, pg) == [path |-> path, pg |-> pg]
Under(c, e) == {Place(Append(e.path, i), table[e.pg][i].pg) : i \in Ahead(c, e.pg, e.path)}
Below(c, entries) == UNION {Under(c, e) : e \in entries}

Level0(c) == {Place(<<>>, root[c])}
Level1(c) == Below(c, Level0(c))
Level2(c) == Below(c, Level1(c))
Level3(c) == Below(c, Level2(c))
Level4(c) == Below(c, Level3(c))
Tables(c) == Level0(c) \cup Level1(c) \cup Level2(c) \cup Level3(c)
Entries(c) == Tables(c) \cup Level4(c)

OnePlace(c) ==
  /\ held[c] = {e.pg : e \in Entries(c)} \cup ({leaf[c]} \ {None})
  /\ \A e, f \in Entries(c) : e.pg = f.pg => e = f
  /\ \A e \in Entries(c) : e.pg # leaf[c]

(* Every page a process was given is at one place of its tables, or about to be
   mapped, and nothing else is: so vmm_space_destroy frees each page once, frees
   no page of another process or of the kernel, and leaves none behind. *)
PagesAtOnePlace == SpaceTypeOK /\ \A c \in Client : pc[c] # "none" => OnePlace(c)

(* Half way through vmm_space_destroy the page freed next is one the process still
   holds, although pages freed before may already be tables of someone else; and at
   the end all of them were given back. *)
DestroyFreesItsOwn ==
  \A c \in Client :
    /\ pc[c] = "destroy" => NextFree(c).pg \in held[c] /\ NextFree(c).pg \in used
    /\ pc[c] = "none" => held[c] = {}

(* A loaded program finds at every address what its segments asked for there: a
   page of its own, with the flags of the segment (elf_load, vmm_space_map). *)
LoadedAsAsked ==
  \A c \in Client :
    pc[c] = "ready" =>
      \A n \in 1..Len(image[c]) :
        LET va == image[c][n].va IN
        \E e \in Entries(c) :
          /\ e.path = va
          /\ table[table[table[table[root[c]][va[1]].pg][va[2]].pg][va[3]].pg][va[4]] =
               [pg |-> e.pg, flags |-> image[c][n].flags]

(* The inductive invariant behind the three: what elf_load has mapped and has still
   to map are together the image, the tables hold what was mapped and nothing else,
   and a page that is about to be mapped is clear. *)
Mapped(c) == Len(image[c]) - Len(todo[c])

Resolves(c, va, flags) ==
  /\ va[1] \in UserIndex
  /\ \E p1, p2, p3, p4 \in held[c] :
       /\ table[root[c]][va[1]].pg = p1 /\ table[p1][va[2]].pg = p2 /\ table[p2][va[3]].pg = p3
       /\ table[p3][va[4]] = [pg |-> p4, flags |-> flags]

ImageInv(c) ==
  /\ Mapped(c) \in Nat
  /\ \A n \in 1..Len(todo[c]) : todo[c][n] = image[c][Mapped(c) + n]
  /\ Apart(image[c])
  /\ \A n \in 1..Mapped(c) : image[c][n].ok /\ Resolves(c, image[c][n].va, image[c][n].flags)
  /\ \A e \in Level4(c) : \E n \in 1..Mapped(c) : image[c][n].va = e.path

CallInv(c) ==
  /\ pc[c] = "none" => held[c] = {}
  /\ pc[c] # "none" => root[c] \in Page
  /\ pc[c] # "destroy" => done[c] = {}
  /\ pc[c] \in {"ready", "destroy"} => todo[c] = <<>>
  /\ leaf[c] # None => pc[c] = "load" /\ todo[c] # <<>> /\ Head(todo[c]).ok /\ table[leaf[c]] = ZeroTable
  /\ pc[c] \in {"load", "ready"} => ImageInv(c)

TreeInv == PagesAtOnePlace /\ \A c \in Client : CallInv(c)
=============================================================================
