-------------------------------- MODULE Pmm ---------------------------------
(***************************************************************************)
(* kernel/mem/pmm.c: the bitmap of physical pages, built at boot from the  *)
(* UEFI memory map and then shared by every CPU.  pmm_alloc_page and       *)
(* pmm_free_page hold pmm_lock with interrupts off, so each is one step.   *)
(***************************************************************************)
EXTENDS Integers, Sequences, FiniteSets

CONSTANTS
  PageSize,    \* OS_PAGE_SIZE
  MaxPages,    \* PMM_MAX_PAGES
  LowEnd,      \* 0x100000: the memory below it is never handed out
  BootInfos,   \* [map : Seq([start, pages, usable]), reserved : Seq([start, end])]
  Client       \* whoever asks for pages

Page == 0..MaxPages - 1
MaxBytes == MaxPages * PageSize

VARIABLES
  boot,        \* the boot_info handed to pmm_init
  step,        \* how many descriptors and reserved ranges pmm_init has marked
  used,        \* the pages whose bit in pmm_bitmap is set
  pmm_free,    \* the counter pmm_free
  held         \* the pages each client was given and has not freed

pmmVars == <<boot, step, used, pmm_free, held>>

Reserved(b) == <<[start |-> 0, end |-> LowEnd]>> \o b.reserved
InitSteps(b) == Len(b.map) + Len(Reserved(b))
Ready == step = InitSteps(boot)

(* A boot description: page-aligned descriptors, as UEFI makes them, and
   reserved ranges that may start and end anywhere. *)
IsBootInfo(b) ==
  /\ b.map \in Seq([start : Nat, pages : Nat, usable : BOOLEAN])
  /\ b.reserved \in Seq([start : Nat, end : Nat])

ASSUME PmmConstants ==
  /\ PageSize \in Nat \ {0}
  /\ MaxPages \in Nat
  /\ LowEnd \in Nat
  /\ \A b \in BootInfos : IsBootInfo(b)

PmmTypeOK ==
  /\ boot \in BootInfos
  /\ step \in 0..InitSteps(boot)
  /\ used \subseteq Page
  /\ pmm_free \in 0..MaxPages
  /\ held \in [Client -> SUBSET Page]

-----------------------------------------------------------------------------
(* The ranges of pmm_init, in bytes, cut off at the end of the direct map. *)

Clip(end) == IF end > MaxBytes THEN MaxBytes ELSE end

(* mark_range_free: only the pages that lie wholly in the range. *)
PagesInside(start, end) ==
  {pg \in Page : start < MaxBytes /\ pg >= (start + PageSize - 1) \div PageSize
                 /\ pg < Clip(end) \div PageSize}

PagesTouched_RoundIn(start, end) ==
  {pg \in Page : start < MaxBytes /\ pg >= start \div PageSize
                 /\ pg < Clip(end) \div PageSize}

(* mark_range_used: every page the range touches. *)
PagesTouched(start, end) ==
  {pg \in Page : start < MaxBytes /\ pg >= start \div PageSize
                 /\ pg < (Clip(end) + PageSize - 1) \div PageSize}

PmmInit ==
  /\ boot \in BootInfos
  /\ step = 0
  /\ used = Page
  /\ pmm_free = 0
  /\ held = [c \in Client |-> {}]

(* One descriptor of the map; the pages of an unusable one stay marked. *)
InitFree ==
  /\ step < Len(boot.map)
  /\ LET d == boot.map[step + 1]
         pages == IF d.usable THEN PagesInside(d.start, d.start + d.pages * PageSize) ELSE {}
     IN  /\ pmm_free' = pmm_free + Cardinality(pages \cap used)
         /\ used' = used \ pages
  /\ step' = step + 1
  /\ UNCHANGED <<boot, held>>

Counted_Again(pages) == Cardinality(pages)

(* A page that is marked already is not counted again. *)
Counted(pages) == Cardinality(pages \ used)

(* One of the three reserved ranges: low memory, the kernel, its page tables. *)
InitUsed ==
  /\ step >= Len(boot.map) /\ step < InitSteps(boot)
  /\ LET r == Reserved(boot)[step + 1 - Len(boot.map)]
         pages == PagesTouched(r.start, r.end)
     IN  /\ pmm_free' = pmm_free - Counted(pages)
         /\ used' = used \cup pages
  /\ step' = step + 1
  /\ UNCHANGED <<boot, held>>

-----------------------------------------------------------------------------
(* The lowest clear bit. *)
IsFirstFree(pg) == pg \notin used /\ \A q \in Page : q < pg => q \in used

PmmAlloc_NoMark(c, pg) ==
  /\ Ready
  /\ IsFirstFree(pg)
  /\ held' = [held EXCEPT ![c] = @ \cup {pg}]
  /\ UNCHANGED <<boot, step, used, pmm_free>>

PmmAlloc(c, pg) ==
  /\ Ready
  /\ IsFirstFree(pg)
  /\ used' = used \cup {pg}
  /\ pmm_free' = pmm_free - 1
  /\ held' = [held EXCEPT ![c] = @ \cup {pg}]
  /\ UNCHANGED <<boot, step>>

(* pmm_free_page; a clear bit is a panic, which no step leaves. *)
PmmFree(c, pg) ==
  /\ Ready
  /\ pg \in used
  /\ used' = used \ {pg}
  /\ pmm_free' = pmm_free + 1
  /\ held' = [held EXCEPT ![c] = @ \ {pg}]
  /\ UNCHANGED <<boot, step>>

(* Clients give back pages they were given. *)
PmmNext ==
  \/ InitFree
  \/ InitUsed
  \/ \E c \in Client, pg \in Page : PmmAlloc(c, pg)
  \/ \E c \in Client : \E pg \in held[c] : PmmFree(c, pg)

PmmSpec == PmmInit /\ [][PmmNext]_pmmVars

-----------------------------------------------------------------------------
(* Properties *)

(* The counter pmm_free, which pmm_init and every allocation and free move on
   their own, is always the number of clear bits. *)
CountExact == pmm_free = Cardinality(Page \ used)

(* The bytes of page pg. *)
PageBytes(pg) == pg * PageSize .. (pg + 1) * PageSize - 1

(* Once pmm_init is done, a page that is free or was handed out lies wholly in
   a usable descriptor, and no byte of it is reserved: rounding never gives away
   part of the kernel, of its page tables or of firmware memory. *)
HandsOutUsable ==
  Ready =>
    \A pg \in (Page \ used) \cup UNION {held[c] : c \in Client} :
      /\ \E i \in 1..Len(boot.map) :
           /\ boot.map[i].usable
           /\ \A a \in PageBytes(pg) :
                boot.map[i].start <= a /\ a < boot.map[i].start + boot.map[i].pages * PageSize
      /\ \A i \in 1..Len(Reserved(boot)) : \A a \in PageBytes(pg) :
           a < Reserved(boot)[i].start \/ a >= Reserved(boot)[i].end

(* A page has one holder: no page is handed out twice, and what is held is marked
   used, on whatever CPU the calls run (pmm_alloc_page, pmm_free_page). *)
OneHolder ==
  /\ \A c \in Client : held[c] \subseteq used
  /\ \A c, d \in Client : c # d => held[c] \cap held[d] = {}
=============================================================================
