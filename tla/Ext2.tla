-------------------------------- MODULE Ext2 --------------------------------
(***************************************************************************)
(* The ext2 driver of kernel/fs/ext2.c.  Every operation runs under the    *)
(* VFS lock, so nothing interleaves with it; what makes it hard is that it *)
(* is a sequence of block writes any of which may fail or be the last one  *)
(* before the power goes.  An operation is therefore an operator on a      *)
(* state s that is threaded through its writes:                            *)
(*   s.d          the disk                                                 *)
(*   s.cb, s.ci   the cached superblock's free counters                    *)
(*   s.left       the writes that still succeed (-1: all of them)          *)
(*   s.crash      whether the write that fails is a power loss, after      *)
(*                which nothing is written, or a single I/O error          *)
(*   s.ok         the result of the last write                             *)
(* An operator with a result returns [s |-> the state, r |-> the result].  *)
(* A block holds zeros, directory entries, block pointers or file data; a  *)
(* file is measured in cells, BlockSize of them to a block.                *)
(***************************************************************************)
EXTENDS Integers, Sequences, FiniteSets, SequencesExt

CONSTANTS NDirect,          \* direct pointers of an inode (12)
          Ptrs,             \* pointers in an indirect block (block_size / 4)
          BlockSize,        \* cells in a block
          DirCap,           \* entries that fit a directory block
          BlocksCount,      \* s_blocks_count, block 0 included
          FirstData,        \* s_first_data_block
          BlocksPerGroup,
          InodesCount,
          InodesPerGroup

Root == 2
Zero == [t |-> "zero"]
IndirectAt == NDirect
DoubleAt == NDirect + 1

CeilDiv(n, k) == (n + k - 1) \div k
BlockGroups == 0 .. CeilDiv(BlocksCount, BlocksPerGroup) - 1
InodeGroups == 0 .. CeilDiv(InodesCount, InodesPerGroup) - 1
Ino == 1 .. InodesCount

(***************************************************************************)
(* One block write: dropped when the device fails or the power is gone.    *)
(***************************************************************************)
Written(s, d) ==
    IF s.left = 0
      THEN [s EXCEPT !.ok = FALSE, !.left = IF s.crash THEN 0 ELSE -1]
      ELSE [s EXCEPT !.d = d, !.ok = TRUE, !.left = IF @ > 0 THEN @ - 1 ELSE @]

write_block(s, b, c) == Written(s, [s.d EXCEPT !.blk[b] = c])
write_inode(s, i, n) == Written(s, [s.d EXCEPT !.inode[i] = n])
write_bgd(s, gb, gi) == Written(s, [s.d EXCEPT !.gb = gb, !.gi = gi])
write_super(s) == Written(s, [s.d EXCEPT !.db = s.cb, !.di = s.ci])

(***************************************************************************)
(* Block allocation: the first group whose descriptor shows a free block   *)
(* and whose bitmap has a clear bit.  The bits of the last group run to    *)
(* s_blocks_count although bit 0 of group 0 is block FirstData.            *)
(***************************************************************************)
BlocksInGroup(g) ==
    IF (g + 1) * BlocksPerGroup > BlocksCount
      THEN BlocksCount - g * BlocksPerGroup ELSE BlocksPerGroup

ClearBlocks(s, g) ==
    {g * BlocksPerGroup + FirstData + bit : bit \in 0 .. BlocksInGroup(g) - 1} \ s.d.bmap

LeastOf(S) == CHOOSE n \in S : \A m \in S : n <= m

Zeroed_Not(s, b) == s
Zeroed(s, b) == write_block(s, b, Zero)

MarkBlock_Not(s, b) == Written(s, s.d)
MarkBlock(s, b) == Written(s, [s.d EXCEPT !.bmap = @ \cup {b}])

alloc_block(s) ==
    LET groups == {g \in BlockGroups : s.d.gb[g] > 0 /\ ClearBlocks(s, g) # {}}
        g == LeastOf(groups)
        b == LeastOf(ClearBlocks(s, g))
        s1 == MarkBlock(s, b)
        s2 == write_bgd(s1, [s.d.gb EXCEPT ![g] = @ - 1], s.d.gi)
        s3 == write_super([s2 EXCEPT !.cb = @ - 1])
    IN  IF groups = {} THEN [s |-> s, r |-> 0]
        ELSE [s |-> Zeroed(s3, b), r |-> b]

free_block_NoCount(s, b) == Written(s, [s.d EXCEPT !.bmap = @ \ {b}])
free_block(s, b) ==
    LET g == (b - FirstData) \div BlocksPerGroup
        s1 == Written(s, [s.d EXCEPT !.bmap = @ \ {b}])
        s2 == write_bgd(s1, [s.d.gb EXCEPT ![g] = @ + 1], s.d.gi)
    IN  IF b < FirstData THEN s ELSE write_super([s2 EXCEPT !.cb = @ + 1])

ClearInodes(s, g) ==
    {g * InodesPerGroup + bit + 1 : bit \in 0 .. InodesPerGroup - 1} \ s.d.imap

alloc_inode(s) ==
    LET groups == {g \in InodeGroups : s.d.gi[g] > 0 /\ ClearInodes(s, g) # {}}
        g == LeastOf(groups)
        i == LeastOf(ClearInodes(s, g))
        s1 == Written(s, [s.d EXCEPT !.imap = @ \cup {i}])
        s2 == write_bgd(s1, s.d.gb, [s.d.gi EXCEPT ![g] = @ - 1])
    IN  IF groups = {} THEN [s |-> s, r |-> 0]
        ELSE [s |-> write_super([s2 EXCEPT !.ci = @ - 1]), r |-> i]

InodeCounted(s) == write_super([s EXCEPT !.ci = @ + 1])

free_inode(s, i) ==
    LET g == (i - 1) \div InodesPerGroup
        s1 == Written(s, [s.d EXCEPT !.imap = @ \ {i}])
        s2 == write_bgd(s1, s.d.gb, [s.d.gi EXCEPT ![g] = @ + 1])
    IN  IF i < 2 THEN s ELSE InodeCounted(s2)

(***************************************************************************)
(* Directories: the direct blocks up to the first absent one, each a       *)
(* sequence of entries in which i = 0 marks a deleted one.                 *)
(***************************************************************************)
Entries(c) == IF c.t = "dir" THEN c.e ELSE <<>>

DirBlocks(n) ==
    LET gaps == {k \in 0 .. NDirect - 1 : n.block[k] = 0}
        len == IF gaps = {} THEN NDirect ELSE LeastOf(gaps)
    IN  [k \in 1 .. len |-> n.block[k - 1]]

\* The entries with their place: entry j of block b, the k-th of the directory.
Slots(d, n) ==
    LET bs == DirBlocks(n)
    IN  UNION {LET e == Entries(d.blk[bs[k]])
               IN  {[k |-> k, j |-> j, b |-> bs[k], n |-> e[j].n, i |-> e[j].i] :
                      j \in 1 .. Len(e)} : k \in 1 .. Len(bs)}
Before(x, y) == x.k < y.k \/ (x.k = y.k /\ x.j <= y.j)
FirstSlot(S) == CHOOSE x \in S : \A y \in S : Before(x, y)

Named(d, n, nm) == {x \in Slots(d, n) : x.i # 0 /\ x.n = nm}

dir_find(d, dir, nm) ==
    LET found == Named(d, d.inode[dir], nm)
    IN  IF found = {} THEN 0 ELSE FirstSlot(found).i

RECURSIVE LookupFrom(_, _, _)
LookupFrom(d, dir, path) ==
    IF path = <<>> \/ dir = 0 THEN dir
    ELSE LookupFrom(d, dir_find(d, dir, Head(path)), Tail(path))
ext2_lookup(d, path) == LookupFrom(d, Root, path)

\* A block takes one more entry in a deleted slot or behind its last entry.
CanTake(e) == \/ \E j \in 1 .. Len(e) : e[j].i = 0
              \/ Len(e) \in 1 .. DirCap - 1
Taken(e, ent) ==
    LET deleted == {j \in 1 .. Len(e) : e[j].i = 0}
    IN  IF deleted = {} THEN Append(e, ent) ELSE [e EXCEPT ![LeastOf(deleted)] = ent]

AttachEntryBlock(s, dir, n, b) ==
    LET gaps == {k \in 0 .. NDirect - 1 : n.block[k] = 0}
        grown == [n EXCEPT !.block[LeastOf(gaps)] = b, !.size = @ + BlockSize]
    IN  IF gaps = {} THEN [s |-> free_block(s, b), r |-> FALSE]
        ELSE [s |-> write_inode(s, dir, grown), r |-> TRUE]

\* new is what alloc_block returned: the block holds the entry, then the inode the block.
AddInNewBlock(new, dir, n, ent) ==
    IF new.r = 0 THEN [s |-> new.s, r |-> FALSE]
    ELSE AttachEntryBlock(write_block(new.s, new.r, [t |-> "dir", e |-> <<ent>>]), dir, n, new.r)

dir_add_entry(s, dir, nm, child) ==
    LET n == s.d.inode[dir]
        bs == DirBlocks(n)
        room == {k \in 1 .. Len(bs) : CanTake(Entries(s.d.blk[bs[k]]))}
        b == bs[LeastOf(room)]
        ent == [n |-> nm, i |-> child]
    IN  IF room = {} THEN AddInNewBlock(alloc_block(s), dir, n, ent)
        ELSE [s |-> write_block(s, b, [t |-> "dir", e |-> Taken(Entries(s.d.blk[b]), ent)]),
              r |-> TRUE]

EntrySet(s, x, i) == write_block(s, x.b, [s.d.blk[x.b] EXCEPT !.e[x.j].i = i])

dir_remove_entry(s, dir, nm) ==
    LET n == s.d.inode[dir]
        found == Named(s.d, n, nm)
    IN  IF found = {} THEN [s |-> s, r |-> FALSE]
        ELSE [s |-> EntrySet(s, FirstSlot(found), 0), r |-> TRUE]

(***************************************************************************)
(* File data.                                                              *)
(***************************************************************************)
PtrOf(c, k) == IF c.t = "ptr" THEN c.p[k] ELSE 0
WithPtr(c, k, b) ==
    [t |-> "ptr", p |-> [[j \in 0 .. Ptrs - 1 |-> PtrOf(c, j)] EXCEPT ![k] = b]]
CellsOf(c) == IF c.t = "data" THEN c.c ELSE [j \in 1 .. BlockSize |-> 0]

MaxBlocks == NDirect + Ptrs + Ptrs * Ptrs
L1(x) == (x - NDirect - Ptrs) \div Ptrs
L2(x) == (x - NDirect - Ptrs) % Ptrs

\* The block behind index x of a file, 0 where there is none.
BlockAt(d, n, x) ==
    LET dbl == n.block[DoubleAt]
        l1 == PtrOf(d.blk[dbl], L1(x))
    IN  IF x < NDirect THEN n.block[x]
        ELSE IF x < NDirect + Ptrs
          THEN IF n.block[IndirectAt] = 0 THEN 0
               ELSE PtrOf(d.blk[n.block[IndirectAt]], x - NDirect)
        ELSE IF dbl = 0 THEN 0
        ELSE IF l1 = 0 THEN 0 ELSE PtrOf(d.blk[l1], L2(x))

CellAt(d, n, off) ==
    LET b == BlockAt(d, n, off \div BlockSize)
    IN  IF b = 0 THEN 0 ELSE CellsOf(d.blk[b])[(off % BlockSize) + 1]

\* What ext2_read returns: a sparse block reads as zeros, an absent table
\* ends the read.
ReadStops(n, d, x) ==
    \/ x >= NDirect /\ x < NDirect + Ptrs /\ n.block[IndirectAt] = 0
    \/ x >= NDirect + Ptrs /\ x < MaxBlocks
       /\ (n.block[DoubleAt] = 0 \/ PtrOf(d.blk[n.block[DoubleAt]], L1(x)) = 0)
    \/ x >= MaxBlocks
ext2_read(d, i, off, size) ==
    LET n == d.inode[i]
        want == {k \in 0 .. size - 1 : off + k < n.size}
        stops == {k \in want : ReadStops(n, d, (off + k) \div BlockSize)}
        len == IF stops = {} THEN Cardinality(want) ELSE LeastOf(stops)
    IN  [k \in 1 .. len |-> CellAt(d, n, off + k - 1)]

\* Block b, if the write that s comes from succeeded.
Checked(s, b) == [s |-> s, r |-> IF s.ok THEN b ELSE 0]

\* A new pointer table: allocated and zeroed; 0 on failure.
TableZeroed(new) ==
    IF new.r = 0 THEN new ELSE Checked(write_block(new.s, new.r, Zero), new.r)
NewTable(s) == TableZeroed(alloc_block(s))

\* What the inode points to at a place, or what new allocates when that is nothing.
Top(s, n, at, new) == IF n.block[at] # 0 THEN [s |-> s, r |-> n.block[at]] ELSE new

\* Entry k of table tab, filled with what new allocates when it is 0.
TableEntry(s, tab, k, new) ==
    LET c == s.d.blk[tab]
    IN  IF PtrOf(c, k) # 0 THEN [s |-> s, r |-> PtrOf(c, k)]
        ELSE IF new.r = 0 THEN new
        ELSE Checked(write_block(new.s, tab, WithPtr(c, k, new.r)), new.r)

\* The same for the table an earlier step has found, or has failed to.
TableIn(tab, k) == IF tab.r = 0 THEN tab ELSE TableEntry(tab.s, tab.r, k, NewTable(tab.s))
BlockIn(tab, k) == IF tab.r = 0 THEN tab ELSE TableEntry(tab.s, tab.r, k, alloc_block(tab.s))

\* The in-memory inode points to what was found or allocated for it.
Rooted(n, at, top, got) ==
    [s |-> got.s, r |-> got.r, n |-> IF top.r = 0 THEN n ELSE [n EXCEPT !.block[at] = top.r]]
DirectTarget(n, x, top) == Rooted(n, x, top, top)
IndirectTarget(n, x, top) == Rooted(n, IndirectAt, top, BlockIn(top, x - NDirect))
DoubleTarget(n, x, top) == Rooted(n, DoubleAt, top, BlockIn(TableIn(top, L1(x)), L2(x)))

\* The block that index x is written to; n is the in-memory inode.
WriteTarget(s, n, x) ==
    IF x < NDirect THEN DirectTarget(n, x, Top(s, n, x, alloc_block(s)))
    ELSE IF x < NDirect + Ptrs THEN IndirectTarget(n, x, Top(s, n, IndirectAt, NewTable(s)))
    ELSE IF x < MaxBlocks THEN DoubleTarget(n, x, Top(s, n, DoubleAt, NewTable(s)))
    ELSE [s |-> s, r |-> 0, n |-> n]

PatchedCells(c, from, data) ==
    [j \in 1 .. BlockSize |->
       IF j - 1 \in from .. from + Len(data) - 1 THEN data[j - from] ELSE CellsOf(c)[j]]

Stored(target, from, cells) ==
    write_block(target.s, target.r,
                [t |-> "data", c |-> PatchedCells(target.s.d.blk[target.r], from, cells)])

\* The loop of ext2_write: w has the inode and the cells written so far; it ends when
\* there is no block to write to or a write fails.
RECURSIVE WriteLoop(_, _, _)
WriteNext(w, s, chunk, off, data) ==
    IF s.ok THEN WriteLoop([w EXCEPT !.s = s, !.r = @ + chunk], off, data) ELSE [w EXCEPT !.s = s]
WriteInto(target, w, chunk, off, data) ==
    LET reached == [s |-> target.s, n |-> target.n, r |-> w.r]
    IN  IF target.r = 0 THEN reached
        ELSE WriteNext(reached,
                       Stored(target, (off + w.r) % BlockSize, SubSeq(data, w.r + 1, w.r + chunk)),
                       chunk, off, data)
WriteLoop(w, off, data) ==
    LET at == off + w.r
        chunk == LeastOf({BlockSize - (at % BlockSize), Len(data) - w.r})
    IN  IF w.r = Len(data) THEN w
        ELSE WriteInto(WriteTarget(w.s, w.n, at \div BlockSize), w, chunk, off, data)

SizeAfter(n, end) == IF end > n.size THEN end ELSE n.size

\* The inode goes back to the disk when something was written.
WriteDone(w, i, off) ==
    IF w.r = 0 THEN [s |-> w.s, r |-> 0]
    ELSE [s |-> write_inode(w.s, i, [w.n EXCEPT !.size = SizeAfter(w.n, off + w.r)]), r |-> w.r]

ext2_write(s, i, off, data) ==
    WriteDone(WriteLoop([s |-> s, n |-> s.d.inode[i], r |-> 0], off, data), i, off)

FreedBlocks_NoTable(d, n) ==
    LET ind == n.block[IndirectAt]
        listed == [k \in 1 .. NDirect |-> n.block[k - 1]]
                  \o (IF ind = 0 THEN <<>> ELSE [k \in 1 .. Ptrs |-> PtrOf(d.blk[ind], k - 1)])
    IN  SelectSeq(listed, LAMBDA b : b # 0)
\* Direct blocks, then what the indirect block points to, then that block;
\* the doubly-indirect tree is left alone.
FreedBlocks(d, n) ==
    LET ind == n.block[IndirectAt]
        listed == [k \in 1 .. NDirect |-> n.block[k - 1]]
                  \o (IF ind = 0 THEN <<>>
                      ELSE [k \in 1 .. Ptrs |-> PtrOf(d.blk[ind], k - 1)] \o <<ind>>)
    IN  SelectSeq(listed, LAMBDA b : b # 0)

Emptied(n) == [n EXCEPT !.size = 0,
                 !.block = [k \in 0 .. NDirect + 1 |-> IF k = DoubleAt THEN @[k] ELSE 0]]

FreeContents(s, i, n) ==
    write_inode(FoldLeft(free_block, s, FreedBlocks(s.d, n)), i, Emptied(n))

ext2_truncate(s, i) ==
    LET s1 == FreeContents(s, i, s.d.inode[i])
    IN  IF i < 2 THEN [s |-> s, r |-> FALSE] ELSE [s |-> s1, r |-> s1.ok]

(***************************************************************************)
(* Names.                                                                  *)
(***************************************************************************)
NewInode(k, links) ==
    [k |-> k, links |-> links, size |-> 0, block |-> [j \in 0 .. NDirect + 1 |-> 0]]

\* A new object on its way: r is its inode, or 0 once a step has failed, which then
\* has given the inode back and is followed by no other.
Undone(s, i) == [s |-> free_inode(s, i), r |-> 0]
Kept(s, i, good) == IF good THEN [s |-> s, r |-> i] ELSE Undone(s, i)
InodeWritten(s, i) == Kept(s, i, s.ok)
InodeMade(new, n) == IF new.r = 0 THEN new ELSE InodeWritten(write_inode(new.s, new.r, n), new.r)
EntryKept(added, i) == Kept(added.s, i, added.r)
EntryMade(new, dir, nm, child) ==
    IF new.r = 0 THEN new ELSE EntryKept(dir_add_entry(new.s, dir, nm, child), new.r)
NameMade(new, parent, nm) == EntryMade(new, parent, nm, new.r)

\* "." and ".." of a new directory.
DotsMade(new, parent) ==
    EntryMade(EntryMade(new, new.r, ".", new.r), new.r, "..", parent)
ParentCounted(new, parent) ==
    IF new.r = 0 THEN new
    ELSE [s |-> write_inode(new.s, parent, [new.s.d.inode[parent] EXCEPT !.links = @ + 1]),
          r |-> new.r]

MayMake(d, path) ==
    path # <<>> /\ ext2_lookup(d, Front(path)) # 0 /\ ext2_lookup(d, path) = 0

ext2_create(s, path) ==
    IF ~MayMake(s.d, path) THEN [s |-> s, r |-> 0]
    ELSE NameMade(InodeMade(alloc_inode(s), NewInode("reg", 1)),
                  ext2_lookup(s.d, Front(path)), Last(path))

ext2_mkdir(s, path) ==
    LET parent == ext2_lookup(s.d, Front(path))
    IN  IF ~MayMake(s.d, path) THEN [s |-> s, r |-> 0]
        ELSE ParentCounted(
               NameMade(DotsMade(InodeMade(alloc_inode(s), NewInode("dir", 2)), parent),
                        parent, Last(path)),
               parent)

ext2_unlink(s, path) ==
    LET parent == ext2_lookup(s.d, Front(path))
        i == ext2_lookup(s.d, path)
        n == [s.d.inode[i] EXCEPT !.links = IF @ > 0 THEN @ - 1 ELSE 0]
        s1 == IF n.links = 0 THEN free_inode(FreeContents(s, i, n), i)
              ELSE write_inode(s, i, n)
    IN  IF path = <<>> THEN [s |-> s, r |-> FALSE]
        ELSE IF parent = 0 \/ i = 0 THEN [s |-> s, r |-> FALSE]
        ELSE dir_remove_entry(s1, parent, Last(path))

\* The ".." of a moved directory.
Reparent_Skip(s, i, parent) == s
Reparent(s, i, parent) ==
    LET n == s.d.inode[i]
        up == Named(s.d, n, "..")
    IN  IF up = {} THEN s ELSE EntrySet(s, FirstSlot(up), parent)

ext2_rename(s, old, new) ==
    LET src == ext2_lookup(s.d, old)
        dst == ext2_lookup(s.d, new)
        from == ext2_lookup(s.d, Front(old))
        to == ext2_lookup(s.d, Front(new))
        isdir == s.d.inode[src].k = "dir"
        s1 == IF dst = 0 THEN s ELSE ext2_unlink(s, new).s
        added == dir_add_entry(s1, to, Last(new), src)
        removed == dir_remove_entry(added.s, from, Last(old))
    IN  IF src = 0 THEN [s |-> s, r |-> FALSE]
        ELSE IF dst = src THEN [s |-> s, r |-> TRUE]
        ELSE IF old = <<>> \/ new = <<>> THEN [s |-> s, r |-> FALSE]
        ELSE IF to = 0 THEN [s |-> s, r |-> FALSE]
        ELSE IF dst # 0 /\ s.d.inode[dst].k = "dir" THEN [s |-> s, r |-> FALSE]
        ELSE IF ~added.r THEN [s |-> added.s, r |-> FALSE]
        ELSE IF ~removed.r
          THEN [s |-> dir_remove_entry(removed.s, to, Last(new)).s, r |-> FALSE]
        ELSE [s |-> IF isdir /\ from # to THEN Reparent(removed.s, src, to) ELSE removed.s,
              r |-> TRUE]
=============================================================================
