---------------------------- MODULE MemoryProofs ----------------------------
(***************************************************************************)
(* Proofs about memory.  The page allocator is exact and exclusive and     *)
(* gives out only usable memory, for any memory map and any clients.  The  *)
(* address spaces built on it hold each of their pages at one place, are   *)
(* taken apart completely, and resolve every address of a loaded program   *)
(* as it asked, for any number of processes, of any images that fit.       *)
(***************************************************************************)
EXTENDS SpaceProofs, FiniteSetTheorems

-----------------------------------------------------------------------------
(* The page allocator *)

(* What division by the page size means, without division. *)
LEMMA DivBounds ==
  ASSUME NEW a \in Nat
  PROVE  /\ a \div PageSize \in Nat
         /\ (a \div PageSize) * PageSize <= a
         /\ a < (a \div PageSize) * PageSize + PageSize
BY PmmConstants

(* Multiplying by the page size keeps the order. *)
LEMMA MulMono ==
  ASSUME NEW x \in Nat, NEW y \in Nat, x <= y
  PROVE  x * PageSize <= y * PageSize
<1>1. PICK k \in Nat : y = x + k
  <2>1. y - x \in Nat /\ y = x + (y - x)
    OBVIOUS
  <2>. QED BY <2>1, Zenon
<1>2. y * PageSize = x * PageSize + k * PageSize
  BY <1>1, PmmConstants, SMTT(30)
<1>3. k * PageSize \in Nat /\ x * PageSize \in Nat
  BY PmmConstants
<1>. QED BY <1>2, <1>3, SMTT(30)

(* An element of a sequence. *)
LEMMA SeqElement ==
  ASSUME NEW T, NEW s \in Seq(T), NEW i \in 1..Len(s)
  PROVE  s[i] \in T
OBVIOUS

(* There are MaxPages pages. *)
LEMMA PageFinite == IsFiniteSet(Page) /\ Cardinality(Page) = MaxPages
BY PmmConstants, FS_Interval, SMTT(30) DEF Page

(* mark_range_free clears only pages whose every byte is in the range. *)
LEMMA InsideIsInside ==
  ASSUME NEW start \in Nat, NEW end \in Nat, NEW pg \in PagesInside(start, end),
         NEW a \in PageBytes(pg)
  PROVE  start <= a /\ a < end
<1>. DEFINE lo == (start + PageSize - 1) \div PageSize
            hi == Clip(end) \div PageSize
            top == Clip(end)
<1>1. pg \in Nat /\ pg >= lo /\ pg < hi
  BY DEF PagesInside, Page
<1>2. /\ top \in Nat /\ top <= end
      /\ MaxBytes \in Nat /\ start + PageSize - 1 \in Nat
  BY PmmConstants DEF Clip, MaxBytes
<1>3. /\ lo \in Nat /\ start + PageSize - 1 < lo * PageSize + PageSize
      /\ hi \in Nat /\ hi * PageSize <= top
  <2>. HIDE DEF top
  <2>1. lo \in Nat /\ start + PageSize - 1 < lo * PageSize + PageSize
    BY <1>2, DivBounds, Zenon
  <2>2. top \div PageSize \in Nat /\ (top \div PageSize) * PageSize <= top
    BY <1>2, DivBounds, Zenon
  <2>. QED BY <2>1, <2>2, Zenon DEF top
<1>. HIDE DEF lo, hi, top
<1>4. lo * PageSize <= pg * PageSize
  BY <1>1, <1>3, MulMono, Zenon
<1>5. (pg + 1) * PageSize <= hi * PageSize
  <2>1. pg + 1 \in Nat /\ pg + 1 <= hi
    BY <1>1, <1>3, SMTT(30)
  <2>. QED BY <2>1, <1>3, MulMono, Zenon
<1>6. /\ lo * PageSize \in Nat /\ hi * PageSize \in Nat
      /\ pg * PageSize \in Nat /\ (pg + 1) * PageSize \in Nat
  BY <1>1, <1>3, PmmConstants, SMTT(30)
<1>7. a \in Int /\ pg * PageSize <= a /\ a <= (pg + 1) * PageSize - 1
  BY <1>6 DEF PageBytes
<1>. QED BY <1>2, <1>3, <1>4, <1>5, <1>6, <1>7, PmmConstants, SMTT(40)

(* mark_range_used leaves clear only pages no byte of which is in the range. *)
LEMMA UntouchedAvoids ==
  ASSUME NEW start \in Nat, NEW end \in Nat, NEW pg \in Page \ PagesTouched(start, end),
         NEW a \in PageBytes(pg)
  PROVE  a < start \/ a >= end
<1>. DEFINE lo == start \div PageSize
            top == Clip(end)
            hi == (top + PageSize - 1) \div PageSize
<1>0. pg \in Nat /\ pg < MaxPages /\ MaxPages \in Nat
  BY PmmConstants DEF Page
<1>1. /\ top \in Nat /\ top <= end /\ (top = end \/ top = MaxBytes)
      /\ MaxBytes \in Nat /\ top + PageSize - 1 \in Nat
  BY PmmConstants DEF Clip, MaxBytes
<1>2. /\ lo \in Nat /\ lo * PageSize <= start /\ start < lo * PageSize + PageSize
      /\ hi \in Nat /\ top + PageSize - 1 < hi * PageSize + PageSize
  <2>. HIDE DEF top
  <2>. QED BY <1>1, DivBounds, Zenon
<1>3. start >= MaxBytes \/ pg < lo \/ pg >= hi
  <2>1. start < MaxBytes /\ pg >= lo /\ pg < hi => pg \in PagesTouched(start, end)
    BY Zenon DEF PagesTouched
  <2>. QED BY <2>1, <1>0, <1>1, <1>2, SMTT(40)
<1>. HIDE DEF lo, hi, top
<1>4. /\ pg * PageSize \in Nat /\ (pg + 1) * PageSize \in Nat
      /\ (pg + 1) * PageSize = pg * PageSize + PageSize
      /\ lo * PageSize \in Nat /\ hi * PageSize \in Nat
  BY <1>0, <1>2, PmmConstants, SMTT(30)
<1>5. a \in Int /\ pg * PageSize <= a /\ a <= (pg + 1) * PageSize - 1
  BY <1>4 DEF PageBytes
<1>6. (pg + 1) * PageSize <= MaxBytes
  <2>1. pg + 1 \in Nat /\ pg + 1 <= MaxPages
    BY <1>0
  <2>. QED BY <2>1, <1>0, MulMono, Zenon DEF MaxBytes
<1>7. CASE start >= MaxBytes
  BY <1>1, <1>4, <1>5, <1>6, <1>7, PmmConstants, SMTT(40)
<1>8. CASE pg < lo
  <2>1. pg + 1 \in Nat /\ pg + 1 <= lo
    BY <1>0, <1>2, <1>8, SMTT(30)
  <2>2. (pg + 1) * PageSize <= lo * PageSize
    BY <2>1, <1>2, MulMono, Zenon
  <2>. QED BY <2>2, <1>2, <1>4, <1>5, PmmConstants, SMTT(40)
<1>9. CASE pg >= hi
  <2>1. hi * PageSize <= pg * PageSize
    BY <1>0, <1>2, <1>9, MulMono, ZenonT(40)
  <2>2. a >= top
    BY <2>1, <1>1, <1>2, <1>4, <1>5, PmmConstants, SMTT(40)
  <2>3. CASE top = end
    BY <2>2, <2>3, Zenon
  <2>4. CASE top = MaxBytes
    BY <2>2, <2>4, <1>1, <1>4, <1>5, <1>6, PmmConstants, SMTT(40)
  <2>. QED BY <2>3, <2>4, <1>1, Zenon
<1>. QED BY <1>3, <1>7, <1>8, <1>9, Zenon

-----------------------------------------------------------------------------
(* The inductive invariant: half way through pmm_init, a clear page is in one of
   the descriptors and outside all of the reserved ranges marked so far. *)

Handed == (Page \ used) \cup UNION {held[c] : c \in Client}

InsideUsable(pg) ==
  \E i \in 1..Len(boot.map) :
    boot.map[i].usable
    /\ pg \in PagesInside(boot.map[i].start, boot.map[i].start + boot.map[i].pages * PageSize)

OutsideReserved(pg) ==
  \A i \in 1..Len(Reserved(boot)) :
    i <= step - Len(boot.map) =>
      pg \notin PagesTouched(Reserved(boot)[i].start, Reserved(boot)[i].end)

PmmInv ==
  /\ boot \in BootInfos
  /\ step \in 0..InitSteps(boot)
  /\ used \subseteq Page
  /\ held \in [Client -> SUBSET Page]
  /\ CountExact
  /\ OneHolder
  /\ ~Ready => \A c \in Client : held[c] = {}
  /\ \A pg \in Handed : InsideUsable(pg) /\ OutsideReserved(pg)

(* The parts of a boot description. *)
LEMMA BootTypes ==
  ASSUME boot \in BootInfos
  PROVE  /\ boot.map \in Seq([start : Nat, pages : Nat, usable : BOOLEAN])
         /\ Reserved(boot) \in Seq([start : Nat, end : Nat])
         /\ Len(boot.map) \in Nat
         /\ Len(Reserved(boot)) \in Nat
         /\ InitSteps(boot) = Len(boot.map) + Len(Reserved(boot))
<1>1. IsBootInfo(boot)
  BY PmmConstants, Zenon
<1>2. <<[start |-> 0, end |-> LowEnd]>> \in Seq([start : Nat, end : Nat])
  BY PmmConstants
<1>. QED BY <1>1, <1>2, SMTT(30) DEF IsBootInfo, Reserved, InitSteps

(* It holds before pmm_init. *)
LEMMA PmmInitInv == PmmInit => PmmInv
<1>. SUFFICES ASSUME PmmInit PROVE PmmInv
  BY Zenon
<1>1. Cardinality(Page \ used) = 0
  <2>1. Page \ used = {}
    BY Zenon DEF PmmInit
  <2>. QED BY <2>1, FS_EmptySet, Zenon
<1>2. Handed = {}
  BY Zenon DEF PmmInit, Handed
<1>3. step \in 0..InitSteps(boot)
  BY BootTypes, SMTT(30) DEF PmmInit
<1>. QED BY <1>1, <1>2, <1>3, Zenon DEF PmmInit, PmmInv, CountExact, OneHolder

(* The counter after pages were cleared. *)
LEMMA CountAfterClear ==
  ASSUME NEW S \in SUBSET Page, used \subseteq Page
  PROVE  /\ Cardinality(Page \ (used \ S)) = Cardinality(Page \ used) + Cardinality(S \cap used)
         /\ Cardinality(Page \ used) \in Nat
<1>1. IsFiniteSet(Page \ used) /\ IsFiniteSet(S \cap used)
  BY PageFinite, FS_Subset, Zenon
<1>2. Page \ (used \ S) = (Page \ used) \cup (S \cap used)
  BY Zenon
<1>3. (Page \ used) \cap (S \cap used) = {}
  BY Zenon
<1>4. Cardinality((Page \ used) \cap (S \cap used)) = 0
  BY <1>3, FS_EmptySet, Zenon
<1>5. Cardinality(Page \ (used \ S)) = Cardinality(Page \ used) + Cardinality(S \cap used) - 0
  BY <1>1, <1>2, <1>4, FS_Union, ZenonT(40)
<1>6. Cardinality(Page \ used) \in Nat /\ Cardinality(S \cap used) \in Nat
  BY <1>1, FS_CardinalityType, Zenon
<1>. QED BY <1>5, <1>6, SMTT(30)

(* The counter after pages were marked. *)
LEMMA CountAfterMark ==
  ASSUME NEW S \in SUBSET Page, used \subseteq Page
  PROVE  Cardinality(Page \ (used \cup S)) = Cardinality(Page \ used) - Cardinality(S \ used)
<1>1. IsFiniteSet(Page \ (used \cup S)) /\ IsFiniteSet(S \ used)
  BY PageFinite, FS_Subset, Zenon
<1>2. Page \ used = (Page \ (used \cup S)) \cup (S \ used)
  BY Zenon
<1>3. (Page \ (used \cup S)) \cap (S \ used) = {}
  BY Zenon
<1>4. Cardinality((Page \ (used \cup S)) \cap (S \ used)) = 0
  BY <1>3, FS_EmptySet, Zenon
<1>5. Cardinality(Page \ used) = Cardinality(Page \ (used \cup S)) + Cardinality(S \ used) - 0
  BY <1>1, <1>2, <1>4, FS_Union, Zenon
<1>6. Cardinality(Page \ (used \cup S)) \in Nat /\ Cardinality(S \ used) \in Nat
  BY <1>1, FS_CardinalityType, Zenon
<1>. QED BY <1>5, <1>6, SMTT(30)

(* Every step of the allocator keeps it. *)
LEMMA PmmNextInv == PmmInv /\ [PmmNext]_pmmVars => PmmInv'
<1>. SUFFICES ASSUME PmmInv, [PmmNext]_pmmVars PROVE PmmInv'
  BY Zenon
<1>. USE DEF PmmInv
<1>t. /\ boot.map \in Seq([start : Nat, pages : Nat, usable : BOOLEAN])
      /\ Reserved(boot) \in Seq([start : Nat, end : Nat])
      /\ Len(boot.map) \in Nat
      /\ Len(Reserved(boot)) \in Nat
      /\ InitSteps(boot) = Len(boot.map) + Len(Reserved(boot))
  BY BootTypes, Zenon
<1>c. pmm_free = Cardinality(Page \ used) /\ pmm_free \in Nat
  BY PageFinite, FS_Subset, FS_CardinalityType, Zenon DEF CountExact
<1>1. CASE InitFree
  <2>. DEFINE d == boot.map[step + 1]
              S == IF d.usable THEN PagesInside(d.start, d.start + d.pages * PageSize) ELSE {}
  <2>1. /\ step < Len(boot.map) /\ step' = step + 1 /\ boot' = boot /\ held' = held
        /\ used' = used \ S /\ pmm_free' = pmm_free + Cardinality(S \cap used)
        /\ step \in Nat
    BY <1>1, SMTT(40) DEF InitFree
  <2>2. S \subseteq Page
    BY Zenon DEF PagesInside
  <2>3. step + 1 \in 1..Len(boot.map) /\ step' \in 0..InitSteps(boot) /\ ~Ready
    BY ONLY <2>1, <1>t, SMTT(40) DEF Ready
  <2>4. \A c \in Client : held[c] = {}
    BY <2>3, Zenon
  <2>5. CountExact'
    <3>. HIDE DEF S
    <3>. QED BY <2>1, <2>2, <1>c, CountAfterClear, Zenon DEF CountExact
  <2>6. ASSUME NEW pg \in Handed' PROVE InsideUsable(pg)' /\ OutsideReserved(pg)'
    <3>1. pg \in (Page \ used) \cup S
      BY <2>1, <2>4, <2>6, SMTT(30) DEF Handed
    <3>2. OutsideReserved(pg)'
      BY ONLY <2>1, <1>t, SMTT(40) DEF OutsideReserved
    <3>3. CASE pg \in Page \ used
      <4>1. InsideUsable(pg)
        BY <3>3, Zenon DEF Handed
      <4>. QED BY <4>1, <3>2, <2>1, Zenon DEF InsideUsable
    <3>4. CASE pg \in S
      BY <3>4, <3>2, <2>1, <2>3, Zenon DEF InsideUsable
    <3>. QED BY <3>1, <3>3, <3>4, ZenonT(40)
  <2>7. OneHolder'
    BY <2>1, <2>4, Zenon DEF OneHolder
  <2>. QED BY <2>1, <2>2, <2>3, <2>4, <2>5, <2>6, <2>7, Zenon
<1>2. CASE InitUsed
  <2>. DEFINE j == step + 1 - Len(boot.map)
              S == PagesTouched(Reserved(boot)[j].start, Reserved(boot)[j].end)
  <2>1. /\ step >= Len(boot.map) /\ step < InitSteps(boot) /\ step' = step + 1
        /\ boot' = boot /\ held' = held
        /\ used' = used \cup S /\ pmm_free' = pmm_free - Cardinality(S \ used)
        /\ step \in Nat
    BY <1>2, SMTT(30) DEF InitUsed, Counted
  <2>2. S \subseteq Page
    BY Zenon DEF PagesTouched
  <2>3. j \in 1..Len(Reserved(boot)) /\ step' \in 0..InitSteps(boot) /\ ~Ready
    BY <2>1, <1>t, SMTT(40) DEF Ready
  <2>4. \A c \in Client : held[c] = {}
    BY <2>3, Zenon
  <2>5. CountExact'
    <3>. HIDE DEF S
    <3>. QED BY <2>1, <2>2, <1>c, CountAfterMark, Zenon DEF CountExact
  <2>6. ASSUME NEW pg \in Handed' PROVE InsideUsable(pg)' /\ OutsideReserved(pg)'
    <3>1. pg \in Handed /\ pg \notin S
      BY <2>1, <2>4, <2>6, Zenon DEF Handed
    <3>2. InsideUsable(pg)'
      BY <3>1, <2>1, Zenon DEF InsideUsable
    <3>3. OutsideReserved(pg)'
      <4>. SUFFICES ASSUME NEW i \in 1..Len(Reserved(boot)), i <= step + 1 - Len(boot.map)
                    PROVE  pg \notin PagesTouched(Reserved(boot)[i].start, Reserved(boot)[i].end)
        BY <2>1, SMTT(40) DEF OutsideReserved
      <4>1. CASE i = j
        BY <4>1, <3>1, Zenon
      <4>2. CASE i # j
        <5>1. i <= step - Len(boot.map)
          <6>1. i \in Int /\ i # step + 1 - Len(boot.map)
            BY <4>2, <1>t, SMTT(40)
          <6>2. \A x, y, z \in Int : x <= y + 1 - z /\ x # y + 1 - z => x <= y - z
            BY SMTT(40)
          <6>3. i <= step + 1 - Len(boot.map) /\ step \in Int /\ Len(boot.map) \in Int
            BY <2>1, <1>t, SMTT(30)
          <6>. HIDE DEF PmmInv
          <6>. QED BY ONLY <6>1, <6>2, <6>3, Zenon
        <5>. QED BY <5>1, <3>1, Zenon DEF OutsideReserved
      <4>. QED BY <4>1, <4>2, ZenonT(40)
    <3>. QED BY <3>2, <3>3, Zenon
  <2>7. OneHolder'
    BY <2>1, <2>4, Zenon DEF OneHolder
  <2>. QED BY <2>1, <2>2, <2>3, <2>4, <2>5, <2>6, <2>7, Zenon
<1>3. ASSUME NEW c \in Client, NEW pg \in Page, PmmAlloc(c, pg) PROVE PmmInv'
  <2>1. /\ Ready /\ pg \notin used /\ used' = used \cup {pg} /\ pmm_free' = pmm_free - 1
        /\ held' = [held EXCEPT ![c] = @ \cup {pg}] /\ boot' = boot /\ step' = step
    BY <1>3, Zenon DEF PmmAlloc, IsFirstFree
  <2>2. Cardinality({pg} \ used) = 1
    <3>1. {pg} \ used = {pg}
      BY <2>1, Zenon
    <3>. QED BY <3>1, FS_Singleton, Zenon
  <2>3. CountExact'
    BY <2>1, <2>2, <1>c, CountAfterMark, Zenon DEF CountExact
  <2>4. Ready'
    BY <2>1, Zenon DEF Ready
  <2>5. OneHolder' /\ held' \in [Client -> SUBSET Page]
    BY <2>1, SMTT(40) DEF OneHolder
  <2>6. Handed' \subseteq Handed
    BY <2>1, SMTT(40) DEF Handed
  <2>7. \A q \in Handed' : InsideUsable(q)' /\ OutsideReserved(q)'
    BY <2>1, <2>6, Zenon DEF InsideUsable, OutsideReserved
  <2>. QED BY <2>1, <2>3, <2>4, <2>5, <2>7, Zenon
<1>4. ASSUME NEW c \in Client, NEW pg \in held[c], PmmFree(c, pg) PROVE PmmInv'
  <2>1. /\ Ready /\ pg \in used /\ pg \in Page /\ used' = used \ {pg} /\ pmm_free' = pmm_free + 1
        /\ held' = [held EXCEPT ![c] = @ \ {pg}] /\ boot' = boot /\ step' = step
    BY <1>4, Zenon DEF PmmFree
  <2>2. Cardinality({pg} \cap used) = 1
    <3>1. {pg} \cap used = {pg}
      BY <2>1, Zenon
    <3>. QED BY <3>1, FS_Singleton, Zenon
  <2>3. CountExact'
    BY <2>1, <2>2, <1>c, CountAfterClear, Zenon DEF CountExact
  <2>4. Ready'
    BY <2>1, Zenon DEF Ready
  <2>5. OneHolder' /\ held' \in [Client -> SUBSET Page]
    BY <2>1, Zenon DEF OneHolder
  <2>6. Handed' \subseteq Handed
    BY <2>1, ZenonT(40) DEF Handed
  <2>7. \A q \in Handed' : InsideUsable(q)' /\ OutsideReserved(q)'
    BY <2>1, <2>6, Zenon DEF InsideUsable, OutsideReserved
  <2>. QED BY <2>1, <2>3, <2>4, <2>5, <2>7, Zenon
<1>5. CASE UNCHANGED pmmVars
  BY <1>5, SMTT(30) DEF pmmVars, CountExact, OneHolder, Ready, Handed, InsideUsable, OutsideReserved
<1>. QED BY <1>1, <1>2, <1>3, <1>4, <1>5, Zenon DEF PmmNext

(* What the invariant says of a page that is free or handed out, byte by byte. *)
LEMMA InvUsable == PmmInv => HandsOutUsable
<1>. SUFFICES ASSUME PmmInv, Ready, NEW pg \in Handed
              PROVE
                /\ \E i \in 1..Len(boot.map) :
                     /\ boot.map[i].usable
                     /\ \A a \in PageBytes(pg) :
                          boot.map[i].start <= a
                          /\ a < boot.map[i].start + boot.map[i].pages * PageSize
                /\ \A i \in 1..Len(Reserved(boot)) : \A a \in PageBytes(pg) :
                     a < Reserved(boot)[i].start \/ a >= Reserved(boot)[i].end
  BY Zenon DEF HandsOutUsable, Handed
<1>1. /\ boot.map \in Seq([start : Nat, pages : Nat, usable : BOOLEAN])
      /\ Reserved(boot) \in Seq([start : Nat, end : Nat])
      /\ Len(boot.map) \in Nat /\ Len(Reserved(boot)) \in Nat
      /\ InitSteps(boot) = Len(boot.map) + Len(Reserved(boot))
  BY BootTypes, Zenon DEF PmmInv
<1>2. InsideUsable(pg) /\ OutsideReserved(pg) /\ pg \in Page
  BY Zenon DEF PmmInv, Handed
<1>3. PICK i \in 1..Len(boot.map) :
        boot.map[i].usable
        /\ pg \in PagesInside(boot.map[i].start, boot.map[i].start + boot.map[i].pages * PageSize)
  BY <1>2, Zenon DEF InsideUsable
<1>4. boot.map[i].start \in Nat /\ boot.map[i].start + boot.map[i].pages * PageSize \in Nat
  <2>1. boot.map[i] \in [start : Nat, pages : Nat, usable : BOOLEAN]
    BY <1>1, SeqElement, Zenon
  <2>2. boot.map[i].start \in Nat /\ boot.map[i].pages \in Nat
    BY <2>1, Zenon
  <2>3. boot.map[i].pages * PageSize \in Nat
    BY <2>2, PmmConstants, SMTT(40)
  <2>. QED BY <2>2, <2>3, SMTT(40)
<1>5. \A a \in PageBytes(pg) :
        boot.map[i].start <= a /\ a < boot.map[i].start + boot.map[i].pages * PageSize
  BY <1>3, <1>4, InsideIsInside, Zenon
<1>6. ASSUME NEW k \in 1..Len(Reserved(boot)), NEW a \in PageBytes(pg)
      PROVE  a < Reserved(boot)[k].start \/ a >= Reserved(boot)[k].end
  <2>1. Reserved(boot)[k].start \in Nat /\ Reserved(boot)[k].end \in Nat
    <3>1. Reserved(boot)[k] \in [start : Nat, end : Nat]
      BY <1>1, SeqElement, ZenonT(40)
    <3>. QED BY <3>1, Zenon
  <2>2. k <= step - Len(boot.map)
    BY <1>1, SMTT(40) DEF Ready
  <2>3. pg \in Page \ PagesTouched(Reserved(boot)[k].start, Reserved(boot)[k].end)
    BY <1>2, <2>2, Zenon DEF OutsideReserved
  <2>. QED BY <2>1, <2>3, UntouchedAvoids, Zenon
<1>. QED BY <1>3, <1>5, <1>6, Zenon

-----------------------------------------------------------------------------
(* The invariant holds of every behaviour of the allocator. *)
THEOREM PmmInvariant == PmmSpec => []PmmInv
BY PmmInitInv, PmmNextInv, PTL DEF PmmSpec

(* The counter of pmm.c is the number of clear bits, from pmm_init on. *)
THEOREM CountExactHolds == PmmSpec => []CountExact
<1>1. PmmInv => CountExact
  BY Zenon DEF PmmInv
<1>. QED BY <1>1, PmmInvariant, PTL

(* No page has two holders. *)
THEOREM OneHolderHolds == PmmSpec => []OneHolder
<1>1. PmmInv => OneHolder
  BY Zenon DEF PmmInv
<1>. QED BY <1>1, PmmInvariant, PTL

(* What is free or handed out is usable memory, to the last byte. *)
THEOREM HandsOutUsableHolds == PmmSpec => []HandsOutUsable
BY InvUsable, PmmInvariant, PTL

-----------------------------------------------------------------------------
(* The address spaces *)

(* The counter is within the number of pages. *)
LEMMA PmmTyped ==
  ASSUME PmmInv
  PROVE  PmmTypeOK
<1>1. IsFiniteSet(Page) /\ Cardinality(Page) = MaxPages
  BY PageFinite, Zenon
<1>2. Cardinality(Page \ used) <= Cardinality(Page) /\ IsFiniteSet(Page \ used)
  BY <1>1, FS_Subset, Zenon
<1>3. Cardinality(Page \ used) \in Nat
  BY <1>2, FS_CardinalityType, Zenon
<1>4. pmm_free \in Nat /\ pmm_free <= MaxPages
  BY <1>1, <1>2, <1>3, Zenon DEF PmmInv, CountExact
<1>5. pmm_free \in 0..MaxPages
  BY <1>4, PmmConstants, SMTT(20)
<1>. QED BY <1>5, Zenon DEF PmmInv, PmmTypeOK

(* A failed load keeps its pages from everyone; the allocator does not notice. *)
LEMMA LossKeepsPmm ==
  ASSUME PmmInv, NEW c \in Client, LoadFails(c)
  PROVE  PmmInv'
<1>1. held' = [held EXCEPT ![c] = {}] /\ boot' = boot /\ step' = step /\ used' = used /\ pmm_free' = pmm_free
  BY Zenon DEF LoadFails
<1>2. held \in [Client -> SUBSET Page]
  BY Zenon DEF PmmInv
<1>3. \A d \in Client : held'[d] \subseteq held[d]
  BY <1>1, <1>2, Zenon
<1>4. held' \in [Client -> SUBSET Page]
  BY <1>1, <1>2, Zenon
<1>5. OneHolder'
  <2>1. \A d \in Client : held'[d] \subseteq used'
    BY <1>1, <1>3, Zenon DEF PmmInv, OneHolder
  <2>2. ASSUME NEW d \in Client, NEW e \in Client, d # e PROVE held'[d] \cap held'[e] = {}
    <3>1. held[d] \cap held[e] = {}
      BY <2>2, Zenon DEF PmmInv, OneHolder
    <3>. QED BY <1>3, <3>1, Zenon
  <2>. QED BY <2>1, <2>2, Zenon DEF OneHolder
<1>6. Handed' \subseteq Handed
  BY <1>1, <1>3, Zenon DEF Handed, Page
<1>7. \A q \in Handed' : InsideUsable(q)' /\ OutsideReserved(q)'
  BY <1>1, <1>6, Zenon DEF PmmInv, InsideUsable, OutsideReserved
<1>8. CountExact'
  BY <1>1, Zenon DEF PmmInv, CountExact
<1>9. ~Ready' => \A d \in Client : held'[d] = {}
  BY <1>1, <1>3, Zenon DEF PmmInv, Ready
<1>. QED BY <1>1, <1>4, <1>5, <1>7, <1>8, <1>9, Zenon DEF PmmInv

(* Every step of the calls is a step of the allocator, or leaves it alone, or loses pages. *)
LEMMA SpaceKeepsPmm ==
  ASSUME PmmInv, TreeInv, [SpaceNext]_allVars
  PROVE  PmmInv'
<1>1. CASE \E c \in Client : LoadFails(c)
  BY <1>1, LossKeepsPmm, Zenon
<1>2. CASE [PmmNext]_pmmVars
  BY <1>2, PmmNextInv, Zenon
<1>3. CASE UNCHANGED allVars
  <2>1. UNCHANGED pmmVars
    BY <1>3, Zenon DEF allVars
  <2>. QED BY <1>2, <2>1, Zenon
<1>4. CASE Boot
  BY <1>2, <1>4, Zenon DEF Boot, PmmNext
<1>5. ASSUME NEW c \in Client,
             (\E im \in Images : ElfLoad(c, im)) \/ LoadLeaf(c) \/ LoadTable(c)
      PROVE  PmmInv'
  <2>1. \E pg \in Page : PmmAlloc(c, pg)
    BY <1>5, Zenon DEF ElfLoad, LoadLeaf, LoadTable
  <2>. QED BY <1>2, <2>1, Zenon DEF PmmNext
<1>6. ASSUME NEW c \in Client, LoadMap(c) \/ LoadDone(c) \/ DestroyBegin(c) PROVE PmmInv'
  <2>1. UNCHANGED pmmVars
    BY <1>6, Zenon DEF LoadMap, LoadDone, DestroyBegin
  <2>. QED BY <1>2, <2>1, Zenon
<1>7. ASSUME NEW c \in Client, Destroy(c) PROVE PmmInv'
  <2>1. pc[c] = "destroy" /\ PmmFree(c, NextFree(c).pg)
    BY <1>7, Zenon DEF Destroy
  <2>2. NextFree(c).pg \in held[c]
    BY <2>1, FreesItsOwn, Zenon DEF PmmInv, DestroyFreesItsOwn
  <2>. QED BY <1>2, <2>1, <2>2, Zenon DEF PmmNext
<1>. QED BY <1>1, <1>3, <1>4, <1>5, <1>6, <1>7, Zenon DEF SpaceNext

(* Every step of the calls keeps the allocator's invariant and the tree's. *)
THEOREM SpaceInvariant == SpaceSpec => [](PmmInv /\ TreeInv)
<1>1. SpaceInit => PmmInv /\ TreeInv
  BY PmmInitInv, PmmTyped, TreeInit, Zenon DEF SpaceInit
<1>2. ASSUME PmmInv, TreeInv, [SpaceNext]_allVars PROVE PmmInv' /\ TreeInv'
  <2>1. PmmInv'
    BY <1>2, SpaceKeepsPmm, Zenon
  <2>2. PmmInv' => PmmTypeOK'
    BY PmmTyped, PTL
  <2>3. OneHolder
    BY <1>2, Zenon DEF PmmInv
  <2>. QED BY <1>2, <2>1, <2>2, <2>3, TreeStep, Zenon
<1>. QED BY <1>1, <1>2, PTL DEF SpaceSpec

(* With vmm.c and elf.c as its clients the allocator keeps its promises: the
   counter is exact, a page has one holder, what is held or free is usable. *)
THEOREM AllocatorOfSpaces == SpaceSpec => [](CountExact /\ OneHolder /\ HandsOutUsable)
<1>1. PmmInv => CountExact /\ OneHolder
  BY Zenon DEF PmmInv
<1>. QED BY <1>1, InvUsable, SpaceInvariant, PTL

(* Every page elf_load was given is at one place of the tables it builds, or about
   to be mapped, also while vmm_space_destroy takes them apart. *)
THEOREM PagesAtOnePlaceHolds == SpaceSpec => []PagesAtOnePlace
<1>1. TreeInv => PagesAtOnePlace
  BY Zenon DEF TreeInv
<1>. QED BY <1>1, SpaceInvariant, PTL

(* vmm_space_destroy frees only pages its process holds, and in the end all. *)
THEOREM DestroyFreesItsOwnHolds == SpaceSpec => []DestroyFreesItsOwn
<1>1. PmmInv /\ TreeInv => DestroyFreesItsOwn
  BY FreesItsOwn, Zenon DEF PmmInv
<1>. QED BY <1>1, SpaceInvariant, PTL

(* Where elf_load succeeds, every address of the image leads to a page of the
   process with the flags of its segment. *)
THEOREM LoadedAsAskedHolds == SpaceSpec => []LoadedAsAsked
<1>1. TreeInv => LoadedAsAsked
  BY LoadsAsAsked, Zenon
<1>. QED BY <1>1, SpaceInvariant, PTL
=============================================================================
