-------------------------------- MODULE Vfs ---------------------------------
(***************************************************************************)
(* The VFS layer of kernel/fs/vfs.c over the ext2 driver: the open-file    *)
(* table and the calls, each of which holds vfs_lock from start to end and *)
(* is one step here.  A call is given a fault: none, or the number of its  *)
(* block writes after which the device fails.  A power loss is followed by *)
(* the next boot's vfs_init, which mounts what reached the disk.           *)
(* Paths are the normalised ones vfs_resolve hands on.                     *)
(*                                                                         *)
(* What a caller may do is the set Misuse: without a member of it, callers *)
(* write, truncate and unlink regular files only, create nothing below a   *)
(* regular file, do not unlink or replace a file that is open, and do not  *)
(* move a directory below itself.  The code checks none of these.          *)
(***************************************************************************)
EXTENDS Ext2

CONSTANTS Workloads,      \* what may happen in a behaviour, see IsWorkload
          AllPath,        \* every path that can come to exist, sequences of names
          Handle,         \* indices of s_files
          TData,          \* what write calls may carry
          FaultIsCrash,   \* whether a fault is a power loss or an I/O error
          Misuse,         \* what careless callers do
          MaxFaults, MaxWrites

VARIABLES workload,       \* what happens in this behaviour
          disk,           \* what is on the disk
          cached_sb,      \* the mounted superblock's free counters
          s_files,        \* open-file table
          view,           \* ViewOf(disk), kept so that it is computed once a state
          faults,         \* faults so far
          refused         \* whether a call wrote to the disk and then reported failure

vars == <<workload, disk, cached_sb, s_files, view, faults, refused>>

\* The calls made, the ones that may meet a fault, the paths, the data written,
\* the s_files slots another process keeps open on the root directory, the longest
\* file, and what mkfs left in use: the root directory, reserved inodes with their
\* blocks, padding bits.
IsWorkload(w) ==
    /\ w.faulty \subseteq w.calls /\ w.path \subseteq AllPath
    /\ w.data \subseteq TData /\ w.busy \subseteq Handle
    /\ w.cells \in Nat /\ w.blocks \subseteq Nat
    /\ {1, Root} \subseteq w.inodes /\ w.inodes \subseteq Ino

ASSUME VfsConstants == \A w \in Workloads : IsWorkload(w)

Free == [use |-> FALSE, inode |-> 0, off |-> 0]
OnRoot == [use |-> TRUE, inode |-> Root, off |-> 0]
Kinds == {"none", "reg", "dir"}
RootBlock == FirstData
RootEntries == <<[n |-> ".", i |-> Root], [n |-> "..", i |-> Root]>>
FreeInGroup(bm, g) ==
    Cardinality({bit \in 0 .. BlocksInGroup(g) - 1 :
                   g * BlocksPerGroup + FirstData + bit \notin bm})
FreeInodesIn(im, g) ==
    Cardinality({bit \in 0 .. InodesPerGroup - 1 : g * InodesPerGroup + bit + 1 \notin im})
RECURSIVE Total(_, _)
Total(f, S) == IF S = {} THEN 0 ELSE LET x == CHOOSE x \in S : TRUE IN f[x] + Total(f, S \ {x})

\* A disk as mkfs leaves it.
FreshDisk(w) ==
    LET gb == [g \in BlockGroups |-> FreeInGroup(w.blocks, g)]
        gi == [g \in InodeGroups |-> FreeInodesIn(w.inodes, g)]
    IN  [bmap |-> w.blocks, imap |-> w.inodes, gb |-> gb, gi |-> gi,
         db |-> Total(gb, BlockGroups), di |-> Total(gi, InodeGroups),
         inode |-> [i \in Ino |-> IF i = Root
                      THEN [NewInode("dir", 2) EXCEPT !.block[0] = RootBlock, !.size = BlockSize]
                      ELSE NewInode("none", 0)],
         blk |-> [b \in FirstData .. BlocksCount - 1 |->
                    IF b = RootBlock THEN [t |-> "dir", e |-> RootEntries] ELSE Zero]]

\* What a caller can see of a disk: where every path leads, and the kind and
\* the contents of what is there.
ViewOf(d) ==
    LET name == [p \in AllPath |-> ext2_lookup(d, p)]
        live == {name[p] : p \in AllPath} \ {0}
    IN  [name |-> name,
         node |-> [i \in Ino |->
                     IF i \notin live THEN [k |-> "none", c |-> <<>>]
                     ELSE [k |-> d.inode[i].k,
                           c |-> IF d.inode[i].k = "reg"
                                   THEN ext2_read(d, i, 0, d.inode[i].size) ELSE <<>>]]]

Mounted(d) == [b |-> d.db, i |-> d.di]

Init == /\ workload \in Workloads
        /\ disk = FreshDisk(workload)
        /\ cached_sb = Mounted(disk)
        /\ s_files = [h \in Handle |-> IF h \in workload.busy THEN OnRoot ELSE Free]
        /\ view = ViewOf(disk)
        /\ faults = 0 /\ refused = FALSE

(***************************************************************************)
(* A call: the driver state it starts from, and how it ends.               *)
(***************************************************************************)
NoFault == -1
FaultsOf(call) ==
    {NoFault} \cup {n \in 0 .. MaxWrites - 1 : faults < MaxFaults /\ call \in workload.faulty}

Entered(f) == [d |-> disk, cb |-> cached_sb.b, ci |-> cached_sb.i,
               left |-> f, crash |-> FaultIsCrash, ok |-> TRUE]

Returned(s, f, files, good) ==
    /\ f # NoFault => s.left <= 0
    /\ workload' = workload
    /\ disk' = s.d
    /\ view' = ViewOf(s.d)
    /\ faults' = IF f = NoFault THEN faults ELSE faults + 1
    /\ IF f # NoFault /\ FaultIsCrash
         THEN /\ cached_sb' = Mounted(s.d)
              /\ s_files' = [h \in Handle |-> Free]
              /\ refused' = TRUE
         ELSE /\ cached_sb' = [b |-> s.cb, i |-> s.ci]
              /\ s_files' = files
              /\ refused' = (refused \/ (~good /\ s.d # disk))

Lookup(p) == view.name[p]
Opened(i) == \E h \in Handle : s_files[h].use /\ s_files[h].inode = i
IsReg(i) == disk.inode[i].k = "reg"
Parent(p) == IF p = <<>> THEN 0 ELSE Lookup(Front(p))
ParentOK(p) == Parent(p) # 0 => ("file_parent" \in Misuse \/ ~IsReg(Parent(p)))
MayDrop(i) == /\ "drop_open" \in Misuse \/ ~Opened(i)
              /\ "unlink_dir" \in Misuse \/ IsReg(i)

TakeSlot(i, off) ==
    LET free == {h \in Handle : ~s_files[h].use}
    IN  IF free = {} THEN s_files
        ELSE [s_files EXCEPT ![LeastOf(free)] = [use |-> TRUE, inode |-> i, off |-> off]]

vfs_creat(p) ==
    /\ "creat" \in workload.calls /\ ParentOK(p)
    /\ \E f \in FaultsOf("creat") :
         LET c == ext2_create(Entered(f), p) IN Returned(c.s, f, s_files, c.r # 0)

vfs_mkdir(p) ==
    /\ "mkdir" \in workload.calls /\ ParentOK(p)
    /\ \E f \in FaultsOf("mkdir") :
         LET c == ext2_mkdir(Entered(f), p) IN Returned(c.s, f, s_files, c.r # 0)

vfs_unlink(p) ==
    /\ "unlink" \in workload.calls /\ Lookup(p) # 0 /\ MayDrop(Lookup(p))
    /\ \E f \in FaultsOf("unlink") :
         LET c == ext2_unlink(Entered(f), p) IN Returned(c.s, f, s_files, c.r)

vfs_rename(p, q) ==
    /\ "rename" \in workload.calls /\ Lookup(p) # 0 /\ ParentOK(q)
    /\ "into_self" \in Misuse \/ p = q \/ ~IsPrefix(p, q)
    /\ Lookup(q) # 0 /\ IsReg(Lookup(q)) => MayDrop(Lookup(q)) \/ p = q
    /\ \E f \in FaultsOf("rename") :
         LET c == ext2_rename(Entered(f), p, q) IN Returned(c.s, f, s_files, c.r)

\* vfs_open_ex, and vfs_open when no flag is given.
vfs_open_ex(p, create, trunc, append) ==
    /\ "open" \in workload.calls /\ ParentOK(p)
    /\ Lookup(p) # 0 => IsReg(Lookup(p))
    /\ Lookup(p) = 0 => create
    /\ trunc => "trunc" \in workload.calls
    /\ \E f \in FaultsOf("open") :
         LET s == Entered(f)
             made == ext2_create(s, p)
             cut == ext2_truncate(s, Lookup(p))
             s1 == IF Lookup(p) = 0 THEN made.s ELSE IF trunc THEN cut.s ELSE s
             i == IF Lookup(p) = 0 THEN made.r ELSE Lookup(p)
             off == IF append THEN s1.d.inode[i].size ELSE 0
         IN  IF i = 0 THEN Returned(s1, f, s_files, FALSE)
             ELSE Returned(s1, f, TakeSlot(i, off), \E h \in Handle : ~s_files[h].use)

Ours(h) == s_files[h].use /\ s_files[h].inode # Root

vfs_close(h) ==
    /\ "open" \in workload.calls /\ Ours(h)
    /\ s_files' = [s_files EXCEPT ![h] = Free]
    /\ UNCHANGED <<workload, disk, cached_sb, view, faults, refused>>

Advance(h, n) == [s_files EXCEPT ![h].off = @ + n]

vfs_write(h, data) ==
    /\ "write" \in workload.calls /\ Ours(h)
    /\ s_files[h].off + Len(data) <= workload.cells
    /\ \E f \in FaultsOf("write") :
         LET c == ext2_write(Entered(f), s_files[h].inode, s_files[h].off, data)
         IN  Returned(c.s, f, Advance(h, c.r), c.r = Len(data))

vfs_read(h, size) ==
    /\ "read" \in workload.calls /\ Ours(h)
    /\ LET got == ext2_read(disk, s_files[h].inode, s_files[h].off, size)
       IN  s_files' = Advance(h, Len(got))
    /\ UNCHANGED <<workload, disk, cached_sb, view, faults, refused>>

Next == \/ \E p \in workload.path : vfs_creat(p) \/ vfs_mkdir(p) \/ vfs_unlink(p)
        \/ \E p, q \in workload.path : vfs_rename(p, q)
        \/ \E p \in workload.path, create, trunc, append \in BOOLEAN : vfs_open_ex(p, create, trunc, append)
        \/ \E h \in Handle : vfs_close(h)
        \/ \E h \in Handle, data \in workload.data : vfs_write(h, data)
        \/ \E h \in Handle, size \in 1 .. BlockSize : vfs_read(h, size)

Spec == Init /\ [][Next]_vars

(***************************************************************************)
(* Properties.                                                             *)
(***************************************************************************)
Block == FirstData .. BlocksCount - 1
Live == {view.name[p] : p \in AllPath} \ {0}

\* The tables and blocks an inode points to, with where it does.
Refs(i) ==
    LET n == disk.inode[i]
        Of(b, from) == {<<from, k, PtrOf(disk.blk[b], k)>> : k \in 0 .. Ptrs - 1}
        direct == {<<<<"inode", 0>>, k, n.block[k]>> : k \in 0 .. NDirect + 1}
        ind == n.block[IndirectAt]
        dbl == n.block[DoubleAt]
        one == IF ind = 0 THEN {} ELSE Of(ind, <<"ind", 0>>)
        two == IF dbl = 0 THEN {} ELSE Of(dbl, <<"dbl", 0>>)
        far == UNION {IF r[3] = 0 THEN {} ELSE Of(r[3], <<"far", r[2]>>) : r \in two}
    IN  {r \in direct \cup one \cup two \cup far : r[3] # 0}

InodeOK(n) == /\ n.k \in Kinds /\ n.links \in Nat /\ n.size \in 0 .. workload.cells + NDirect * BlockSize
              /\ n.block \in [0 .. NDirect + 1 -> Block \cup {0}]

\* Type invariant: every pointer an inode or a table holds is a block of the
\* partition, the counters never go below zero, handles name inodes.
VfsTypeOK ==
    /\ disk.imap \subseteq Ino
    /\ \A i \in Ino : InodeOK(disk.inode[i])
    /\ DOMAIN disk.blk = Block
    /\ \A g \in BlockGroups : disk.gb[g] \in 0 .. BlocksPerGroup
    /\ \A g \in InodeGroups : disk.gi[g] \in 0 .. InodesPerGroup
    /\ cached_sb.b \in Nat /\ cached_sb.i \in Nat
    /\ \A h \in Handle : s_files[h].use => s_files[h].inode \in Ino

\* No block belongs to two places, so no file can be changed by writing another,
\* and whatever a name leads to is allocated: its inode and every block behind it
\* are marked in the bitmaps, so alloc_block and alloc_inode cannot hand them out
\* again (ext2_write, dir_add_entry, free_block).
BlocksSound ==
    /\ VfsTypeOK
    /\ \A i, j \in Live : \A r \in Refs(i), q \in Refs(j) : r[3] = q[3] => i = j /\ r = q
    /\ \A i \in Live : /\ i \in disk.imap /\ disk.inode[i].links > 0
                       /\ \A r \in Refs(i) : r[3] \in disk.bmap

\* The free counters of the group descriptors, of the superblock on disk and of
\* the cached superblock all say what the bitmaps say, until the power goes
\* between two of the writes that keep them.
CountsExact ==
  faults = 0 =>
    /\ \A g \in BlockGroups : disk.gb[g] = FreeInGroup(disk.bmap, g)
    /\ \A g \in InodeGroups : disk.gi[g] = FreeInodesIn(disk.imap, g)
    /\ disk.db = Total(disk.gb, BlockGroups) /\ disk.di = Total(disk.gi, InodeGroups)
    /\ cached_sb = Mounted(disk)

\* The names form a tree: nothing has two of them, and the "." and ".." of a
\* directory are itself and the directory that holds it.
TreeSound ==
    /\ \A p, q \in AllPath : Lookup(p) # 0 /\ Lookup(p) = Lookup(q) => p = q
    /\ \A p \in AllPath :
         Lookup(p) # 0 /\ ~IsReg(Lookup(p)) =>
           /\ dir_find(disk, Lookup(p), ".") = Lookup(p)
           /\ dir_find(disk, Lookup(p), "..") = IF p = <<>> THEN Root ELSE Parent(p)

\* Space is lost only by a call that reported failure: as long as none did, the
\* bitmaps mark exactly what can be reached from the root.
LeakOnlyAfterFailure ==
    ~refused => /\ disk.imap = (workload.inodes \ {Root}) \cup Live
                /\ disk.bmap = workload.blocks \cup {r[3] : r \in UNION {Refs(i) : i \in Live}}

\* ext2.h on ext2_truncate: "Truncate inode `ino` to zero length (frees all
\* data blocks)": a file of length zero holds no block.
EmptyHoldsNoBlock ==
    \A i \in Live : IsReg(i) /\ disk.inode[i].size = 0 => Refs(i) = {}

\* The calls implement FileTree: names, contents and open handles change as it
\* allows, whichever blocks and inodes are behind them, and a power loss in the
\* middle of a call loses nothing but that call.
T == INSTANCE FileTree WITH
       TPath <- AllPath, TId <- Ino, TRoot <- Root, THandle <- Handle, TData <- TData,
       name <- view.name, node <- view.node,
       handle <- [h \in Handle |-> IF s_files[h].use
                    THEN [id |-> s_files[h].inode, off |-> s_files[h].off]
                    ELSE [id |-> 0, off |-> 0]]
ImplementsTree == T!TreeSpec
=============================================================================
