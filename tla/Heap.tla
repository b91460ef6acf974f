-------------------------------- MODULE Heap --------------------------------
(***************************************************************************)
(* kernel/mem/heap.c: the kernel heap, blocks in address order with a      *)
(* doubly linked list of the free ones.  kmalloc and kfree hold heap_lock  *)
(* with interrupts off, so each is one step.  Addresses are offsets from   *)
(* HEAP_VIRT_BASE in units of 8 bytes, and sizes wrap around at Wrap.      *)
(***************************************************************************)
EXTENDS Integers, FiniteSets

CONSTANTS
  Hdr,       \* sizeof(struct block)
  Align,     \* 16 bytes
  PageSize,  \* OS_PAGE_SIZE
  MaxPages,  \* bound on the pages the heap grows to
  Wrap,      \* 2^64
  Sizes      \* the sizes asked for

ASSUME HeapConstants ==
  /\ Hdr \in Nat \ {0} /\ Align \in Nat \ {0} /\ PageSize \in Nat \ {0} /\ MaxPages \in Nat \ {0}
  /\ Wrap \in Nat /\ Wrap > Hdr + Align + MaxPages * PageSize
  /\ Sizes \subseteq 1..Wrap - 1

Nil == -1
MinSplit == Hdr + Align

VARIABLES
  blocks,     \* the block headers: address -> [free, size, prev, next_free, prev_free]
  free_list,
  heap_last,
  heap_end,
  live        \* what callers hold: block address -> the size asked for

heapVars == <<blocks, free_list, heap_last, heap_end, live>>

Heap == [blocks |-> blocks, free_list |-> free_list, last |-> heap_last, end |-> heap_end]

(* f with the value v at x, whether or not x was in its domain. *)
Put(f, x, v) == [y \in DOMAIN f \cup {x} |-> IF y = x THEN v ELSE f[y]]
Drop(f, x) == [y \in DOMAIN f \ {x} |-> f[y]]

(* h with one field of block b set; b = Nil is the test the code makes first. *)
SetField(h, b, field, v) ==
  IF b = Nil THEN h ELSE [h EXCEPT !.blocks[b][field] = v]

free_list_add(h, b) ==
  LET h1 == SetField(SetField(h, b, "next_free", h.free_list), b, "prev_free", Nil)
  IN  [SetField(h1, h.free_list, "prev_free", b) EXCEPT !.free_list = b]

UnlinkPrev(h, b) ==
  IF h.blocks[b].prev_free # Nil
  THEN SetField(h, h.blocks[b].prev_free, "next_free", h.blocks[b].next_free)
  ELSE [h EXCEPT !.free_list = h.blocks[b].next_free]

free_list_remove(h, b) ==
  LET h1 == UnlinkPrev(h, b)
      h2 == SetField(h1, h.blocks[b].next_free, "prev_free", h.blocks[b].prev_free)
  IN  SetField(SetField(h2, b, "next_free", Nil), b, "prev_free", Nil)

block_next_mem(h, b) ==
  LET n == b + h.blocks[b].size IN IF n >= h.end THEN Nil ELSE n

NewBlock(size, prev) ==
  [free |-> TRUE, size |-> size, prev |-> prev, next_free |-> Nil, prev_free |-> Nil]

(* expand, when the page and its mapping are there. *)
Expand(h) ==
  LET g == [h EXCEPT !.end = @ + PageSize]
  IN  IF h.last # Nil /\ h.blocks[h.last].free
      THEN free_list_add(SetField(free_list_remove(g, h.last), h.last, "size",
                                  h.blocks[h.last].size + PageSize), h.last)
      ELSE free_list_add([g EXCEPT !.blocks = Put(@, h.end, NewBlock(PageSize, h.last)),
                                   !.last = h.end], h.end)

RECURSIVE ExpandBy(_, _)
ExpandBy(h, n) == IF n = 0 THEN h ELSE ExpandBy(Expand(h), n - 1)

(* The first block from b on that is large enough. *)
RECURSIVE FirstFit(_, _, _)
FirstFit(h, b, total) ==
  IF b = Nil \/ h.blocks[b].size >= total THEN b ELSE FirstFit(h, h.blocks[b].next_free, total)

Fits_Any(size) == TRUE

Fits(size) == size <= Wrap - 1 - Hdr - Align

Total(size) == ((((size + Align - 1) % Wrap) \div Align) * Align + Hdr) % Wrap

AfterSplit_NoPrev(h, tail) == h

(* The block behind the new tail gets its prev. *)
AfterSplit(h, tail) == SetField(h, block_next_mem(h, tail), "prev", tail)

(* Take block b, and make what is left over a free block. *)
Carve(h, b, total) ==
  LET tail == b + total
      rest == h.blocks[b].size - total
      h1 == [h EXCEPT !.blocks = Put(@, tail, NewBlock(rest, b))]
      h2 == [AfterSplit(h1, tail) EXCEPT !.last = IF @ = b THEN tail ELSE @]
      h3 == free_list_add(free_list_remove(SetField(h2, b, "size", total), b), tail)
  IN  SetField(IF h.blocks[b].size >= total + MinSplit THEN h3 ELSE free_list_remove(h, b),
               b, "free", FALSE)

Install(h) ==
  /\ blocks' = h.blocks
  /\ free_list' = h.free_list
  /\ heap_last' = h.last
  /\ heap_end' = h.end

(* heap_init *)
HeapInit ==
  LET h == Expand([blocks |-> << >>, free_list |-> Nil, last |-> Nil, end |-> 0])
  IN  /\ blocks = h.blocks
      /\ free_list = h.free_list
      /\ heap_last = h.last
      /\ heap_end = h.end
      /\ live = << >>

Take(h, b, size) ==
  IF b = Nil THEN Install(h) /\ UNCHANGED live
  ELSE Install(Carve(h, b, Total(size))) /\ live' = Put(live, b, size)

(* kmalloc; granted is how many of the pages it asks for there are. *)
Kmalloc(size, granted) ==
  LET pages == (Total(size) + PageSize - 1) \div PageSize
      fit == FirstFit(Heap, free_list, Total(size))
      h == ExpandBy(Heap, granted)
  IN  /\ Fits(size)
      /\ heap_end + granted * PageSize <= MaxPages * PageSize
      /\ IF fit # Nil THEN granted = 0 /\ Take(Heap, fit, size)
         ELSE /\ granted <= pages
              /\ Take(h, IF granted < pages THEN Nil ELSE FirstFit(h, h.free_list, Total(size)), size)

(* heap_last once b has absorbed n. *)
LastAfter(h, n, b) == IF h.last = n THEN b ELSE h.last

(* b absorbs its neighbour n. *)
Absorb(h, b, n) ==
  LET h1 == SetField(h, b, "size", h.blocks[b].size + h.blocks[n].size)
      h2 == [h1 EXCEPT !.blocks = Drop(@, n), !.last = LastAfter(h, n, b)]
  IN  SetField(h2, block_next_mem(h2, b), "prev", b)

IsFree(h, b) == b # Nil /\ h.blocks[b].free

MergePrev(h, b) ==
  LET p == h.blocks[b].prev IN
  IF IsFree(h, p) THEN free_list_add(Absorb(free_list_remove(h, p), p, b), p)
  ELSE free_list_add(h, b)

(* kfree of a pointer its caller holds. *)
Kfree(b) ==
  /\ b \in DOMAIN live
  /\ LET h == SetField(Heap, b, "free", TRUE)
         n == block_next_mem(h, b)
     IN  Install(MergePrev(IF IsFree(h, n) THEN Absorb(free_list_remove(h, n), b, n) ELSE h, b))
  /\ live' = Drop(live, b)

HeapNext ==
  \/ \E size \in Sizes, granted \in 0..MaxPages : Kmalloc(size, granted)
  \/ \E b \in DOMAIN live : Kfree(b)

HeapSpec == HeapInit /\ [][HeapNext]_heapVars

-----------------------------------------------------------------------------
(* Properties *)

HeapTypeOK ==
  /\ DOMAIN blocks \subseteq 0..heap_end - 1
  /\ heap_end \in 0..MaxPages * PageSize
  /\ free_list \in DOMAIN blocks \cup {Nil} /\ heap_last \in DOMAIN blocks

(* The blocks tile the heap: each ends where the next begins, the next one's prev
   leads back to it, and heap_last is the one that ends at heap_end.  kfree finds
   its neighbours only through these links. *)
BlocksTile ==
  /\ 0 \in DOMAIN blocks /\ blocks[0].prev = Nil
  /\ \A b \in DOMAIN blocks :
       LET n == b + blocks[b].size IN
       /\ IF n = heap_end THEN heap_last = b ELSE n \in DOMAIN blocks /\ blocks[n].prev = b
       /\ blocks[b].size > 0
       /\ \A x \in DOMAIN blocks : x <= b \/ x >= n

(* The free list runs through every free block once, in both directions. *)
FreeListExact ==
  LET Free == {b \in DOMAIN blocks : blocks[b].free}
      Next(b) == blocks[b].next_free
  IN  /\ (free_list = Nil) = (Free = {})
      /\ free_list # Nil => free_list \in Free /\ blocks[free_list].prev_free = Nil
      /\ \A b \in Free : Next(b) # Nil => Next(b) \in Free /\ blocks[Next(b)].prev_free = b
      /\ \A b \in Free \ {free_list} : blocks[b].prev_free \in Free /\ Next(blocks[b].prev_free) = b
      /\ Cardinality({b \in Free : Next(b) = Nil}) <= 1

(* No two free blocks are neighbours: kfree and expand leave no memory in pieces
   that could be one ("first-fit heap with coalescing"). *)
Coalesced ==
  \A b \in DOMAIN blocks :
    blocks[b].free /\ b # heap_last => ~blocks[b + blocks[b].size].free

(* kmalloc, kfree and expand keep all three: the blocks tile the heap, the free
   list is exact and free neighbours are merged. *)
HeapSound == HeapTypeOK /\ BlocksTile /\ FreeListExact /\ Coalesced

(* Every allocation a caller holds is a used block with room for what was asked,
   so with HeapSound no two of them overlap; and nothing else is in use. *)
AllocationsFit ==
  /\ DOMAIN live = {b \in DOMAIN blocks : ~blocks[b].free}
  /\ \A b \in DOMAIN live : blocks[b].size >= Hdr + live[b]
=============================================================================
