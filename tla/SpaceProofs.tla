---------------------------- MODULE SpaceProofs ----------------------------
(***************************************************************************)
(* Proofs about AddressSpace: TreeInv is inductive, and implies the        *)
(* properties of page tables, for any number of processes and any images   *)
(* no two pages of which have one address.  First paths and places; then   *)
(* how the tree of a space changes when an entry is made or a page freed,  *)
(* level by level; what vmm_space_map and vmm_space_destroy find in it;    *)
(* one lemma for each step; and the invariant.  What a step does to the    *)
(* allocator is in MemoryProofs.                                           *)
(***************************************************************************)
EXTENDS AddressSpace, TLAPS, WellFoundedInduction

(* A set of numbers that is not empty has a least member. *)
LEMMA LowestOf ==
  ASSUME NEW S, S \subseteq Nat, S # {}
  PROVE  \E x \in S : \A y \in S : x <= y
<1>1. IsWellFoundedOn(OpToRel(<, Nat), Nat)
  BY NatLessThanWellFounded, Zenon
<1>2. PICK x \in S : \A y \in S : ~(<<y, x>> \in OpToRel(<, Nat))
  BY <1>1, WFMin, Zenon
<1>3. ASSUME NEW y \in S PROVE ~(y < x)
  BY <1>2, Zenon DEF OpToRel
<1>4. \A y \in S : x <= y
  BY <1>3, SMTT(40)
<1>. QED BY <1>4, Zenon

(* None is no page. *)
LEMMA NoneIsNoPage == None \notin Page /\ None \in Int
BY SMTT(20) DEF None, Page

(* The parts of a place. *)
LEMMA PlaceIs == \A p, g : Place(p, g).path = p /\ Place(p, g).pg = g
BY SMTT(20) DEF Place

(* The empty entry. *)
LEMMA NothingIs == Nothing.pg = None /\ Nothing \in [pg : Page \cup {None}, flags : Int]
BY NoneIsNoPage, SMTT(20) DEF Nothing

(* The parts of an entry. *)
LEMMA EntryFields ==
  \A g, f : [pg |-> g, flags |-> f].pg = g /\ [pg |-> g, flags |-> f].flags = f
BY SMTT(20)

(* The empty path. *)
LEMMA PathNone == <<>> \in Seq(Index) /\ Len(<<>>) = 0
BY SMTT(20)

(* A path and one index more. *)
LEMMA PathAppend ==
  ASSUME NEW p \in Seq(Index), NEW i \in Index
  PROVE  /\ Append(p, i) \in Seq(Index) /\ Append(p, i) # <<>>
         /\ Len(p) \in Nat /\ Len(Append(p, i)) = Len(p) + 1
BY SMTT(20)

(* What is where in a path and one index more. *)
LEMMA AppendAt ==
  ASSUME NEW p \in Seq(Index), NEW i \in Index
  PROVE  /\ Append(p, i)[Len(p) + 1] = i
         /\ \A n \in 1..Len(p) : Append(p, i)[n] = p[n]
BY SMTT(20)

(* A function on 1..n is a sequence of length n. *)
LEMMA SeqMade ==
  ASSUME NEW n \in Nat, NEW d \in [1..n -> Index]
  PROVE  d \in Seq(Index) /\ Len(d) = n
BY SMTT(20)

(* Sequences with the same elements are equal. *)
LEMMA SeqSame ==
  ASSUME NEW n, NEW p \in Seq(Index), NEW q \in Seq(Index), Len(p) = n, Len(q) = n, \A i \in 1..n : p[i] = q[i]
  PROVE  p = q
BY SMTT(20)

(* A path determines the path it extends and its last index. *)
LEMMA AppendInjective ==
  ASSUME NEW p \in Seq(Index), NEW i \in Index, NEW q \in Seq(Index), NEW j \in Index,
         Append(p, i) = Append(q, j)
  PROVE  p = q /\ i = j
<1>1. Len(p) = Len(q)
  BY SMTT(20)
<1>2. i = j
  <2>1. Append(p, i)[Len(p) + 1] = i /\ Append(q, j)[Len(q) + 1] = j
    BY SMTT(20)
  <2>. QED BY <1>1, <2>1, Zenon
<1>3. ASSUME NEW n \in 1..Len(p) PROVE p[n] = q[n]
  <2>1. Append(p, i)[n] = p[n] /\ Append(q, j)[n] = q[n]
    BY <1>1, SMTT(20)
  <2>. QED BY <2>1, Zenon
<1>4. p = q
  BY <1>1, <1>3, SMTT(20)
<1>. QED BY <1>2, <1>4, Zenon

-----------------------------------------------------------------------------
(* The tree of a space, level by level. *)

(* What is below a place. *)
LEMMA UnderIs ==
  ASSUME NEW c, NEW e, NEW x
  PROVE  x \in Under(c, e) <=>
           \E i \in Ahead(c, e.pg, e.path) : x = Place(Append(e.path, i), table[e.pg][i].pg)
BY Zenon DEF Under

(* M are the places below those of L. *)
Kids(M, L, c) == \A x : x \in M <=> \E e \in L : x \in Under(c, e)

(* Each level is what is below the one before. *)
LEMMA LevelIs ==
  ASSUME NEW c
  PROVE  /\ \A x : x \in Level0(c) <=> x = Place(<<>>, root[c])
         /\ Kids(Level1(c), Level0(c), c) /\ Kids(Level2(c), Level1(c), c)
         /\ Kids(Level3(c), Level2(c), c) /\ Kids(Level4(c), Level3(c), c)
<1>1. \A x : x \in Level0(c) <=> x = Place(<<>>, root[c])
  BY Zenon DEF Level0
<1>2. Kids(Level1(c), Level0(c), c)
  BY Zenon DEF Kids, Level1, Below
<1>3. Kids(Level2(c), Level1(c), c)
  BY Zenon DEF Kids, Level2, Below
<1>4. Kids(Level3(c), Level2(c), c)
  BY Zenon DEF Kids, Level3, Below
<1>5. Kids(Level4(c), Level3(c), c)
  BY Zenon DEF Kids, Level4, Below
<1>. QED BY <1>1, <1>2, <1>3, <1>4, <1>5, Zenon

(* A place in the tables. *)
IsPlace(e, n) ==
  /\ e.path \in Seq(Index) /\ Len(e.path) = n
  /\ e.pg \in Page /\ e = Place(e.path, e.pg)

(* An index the walk has yet to come to leads to a page. *)
LEMMA AheadIs ==
  ASSUME SpaceTypeOK, NEW c, NEW t \in Page, NEW path, NEW i \in Ahead(c, t, path)
  PROVE  i \in Index /\ i \in WalkIndex(path) /\ table[t][i].pg \in Page /\ Append(path, i) \notin done[c]
<1>1. i \in WalkIndex(path) /\ Present(t, i) /\ Append(path, i) \notin done[c]
  BY Zenon DEF Ahead
<1>2. i \in Index
  BY <1>1, Zenon DEF WalkIndex, UserIndex
<1>3. table[t][i] \in [pg : Page \cup {None}, flags : Int]
  <2>1. table \in [Page -> [Index -> [pg : Page \cup {None}, flags : Int]]]
    BY Zenon DEF SpaceTypeOK
  <2>. QED BY <1>2, <2>1, Zenon
<1>4. table[t][i].pg \in Page \cup {None}
  BY <1>3, SMTT(20)
<1>. QED BY <1>1, <1>2, <1>4, Zenon DEF Present

(* Below a place of level n are places of level n + 1. *)
LEMMA UnderPlaces ==
  ASSUME SpaceTypeOK, NEW c, NEW n \in Nat, NEW e, IsPlace(e, n), NEW x \in Under(c, e)
  PROVE  IsPlace(x, n + 1)
<1>1. PICK i \in Ahead(c, e.pg, e.path) : x = Place(Append(e.path, i), table[e.pg][i].pg)
  BY Zenon DEF Under
<1>2. e.pg \in Page /\ e.path \in Seq(Index) /\ Len(e.path) = n
  BY Zenon DEF IsPlace
<1>3. i \in Index /\ table[e.pg][i].pg \in Page
  BY <1>2, AheadIs, Zenon
<1>4. Append(e.path, i) \in Seq(Index) /\ Len(Append(e.path, i)) = n + 1
  BY <1>2, <1>3, PathAppend, Zenon
<1>. QED BY <1>1, <1>3, <1>4, PlaceIs, Zenon DEF IsPlace

(* The path of a place is as long as its level says. *)
LEMMA LevelPlaces ==
  ASSUME SpaceTypeOK, NEW c, root[c] \in Page
  PROVE  /\ \A e \in Level0(c) : IsPlace(e, 0)
         /\ \A e \in Level1(c) : IsPlace(e, 1)
         /\ \A e \in Level2(c) : IsPlace(e, 2)
         /\ \A e \in Level3(c) : IsPlace(e, 3)
         /\ \A e \in Level4(c) : IsPlace(e, 4)
<1>0. 0 \in Nat /\ 1 \in Nat /\ 2 \in Nat /\ 3 \in Nat /\ 0 + 1 = 1 /\ 1 + 1 = 2 /\ 2 + 1 = 3 /\ 3 + 1 = 4
  BY SMTT(20)
<1>1. ASSUME NEW e \in Level0(c) PROVE IsPlace(e, 0)
  <2>1. e = Place(<<>>, root[c])
    BY Zenon DEF Level0
  <2>2. e.path = <<>> /\ e.pg = root[c]
    BY <2>1, PlaceIs, Zenon
  <2>. QED BY <2>1, <2>2, PathNone, Zenon DEF IsPlace
<1>2. ASSUME NEW e \in Level1(c) PROVE IsPlace(e, 1)
  <2>1. PICK d \in Level0(c) : e \in Under(c, d)
    BY LevelIs, Zenon DEF Kids
  <2>2. IsPlace(e, 0 + 1)
    BY <1>0, <1>1, <2>1, UnderPlaces, Zenon
  <2>. QED BY <1>0, <2>2, Zenon
<1>3. ASSUME NEW e \in Level2(c) PROVE IsPlace(e, 2)
  <2>1. PICK d \in Level1(c) : e \in Under(c, d)
    BY LevelIs, Zenon DEF Kids
  <2>2. IsPlace(e, 1 + 1)
    BY <1>0, <1>2, <2>1, UnderPlaces, Zenon
  <2>. QED BY <1>0, <2>2, Zenon
<1>4. ASSUME NEW e \in Level3(c) PROVE IsPlace(e, 3)
  <2>1. PICK d \in Level2(c) : e \in Under(c, d)
    BY LevelIs, Zenon DEF Kids
  <2>2. IsPlace(e, 2 + 1)
    BY <1>0, <1>3, <2>1, UnderPlaces, Zenon
  <2>. QED BY <1>0, <2>2, Zenon
<1>5. ASSUME NEW e \in Level4(c) PROVE IsPlace(e, 4)
  <2>1. PICK d \in Level3(c) : e \in Under(c, d)
    BY LevelIs, Zenon DEF Kids
  <2>2. IsPlace(e, 3 + 1)
    BY <1>0, <1>4, <2>1, UnderPlaces, Zenon
  <2>. QED BY <1>0, <2>2, Zenon
<1>. QED BY <1>1, <1>2, <1>3, <1>4, <1>5, Zenon

(* An index leads to one place. *)
LEMMA UnderUnique ==
  ASSUME SpaceTypeOK, NEW c, NEW n \in Nat, NEW E, \A e \in E : IsPlace(e, n),
         \A e, f \in E : e.path = f.path => e = f,
         NEW e \in E, NEW f \in E, NEW x \in Under(c, e), NEW y \in Under(c, f), x.path = y.path
  PROVE  x = y
<1>1. PICK i \in Ahead(c, e.pg, e.path) : x = Place(Append(e.path, i), table[e.pg][i].pg)
  BY Zenon DEF Under
<1>2. PICK j \in Ahead(c, f.pg, f.path) : y = Place(Append(f.path, j), table[f.pg][j].pg)
  BY Zenon DEF Under
<1>3. e.pg \in Page /\ e.path \in Seq(Index) /\ f.pg \in Page /\ f.path \in Seq(Index)
  BY Zenon DEF IsPlace
<1>4. i \in Index /\ j \in Index
  BY <1>3, AheadIs, Zenon
<1>5. Append(e.path, i) = Append(f.path, j)
  <2>1. x.path = Append(e.path, i)
    BY <1>1, PlaceIs, Zenon
  <2>2. y.path = Append(f.path, j)
    BY <1>2, PlaceIs, Zenon
  <2>. QED BY <2>1, <2>2, Zenon
<1>6. e.path = f.path /\ i = j
  BY <1>3, <1>4, <1>5, AppendInjective, SMTT(20)
<1>7. e = f
  BY <1>6, Zenon
<1>. QED BY <1>1, <1>2, <1>6, <1>7, Zenon

(* Two places of a space have different paths. *)
LEMMA PathUnique ==
  ASSUME SpaceTypeOK, NEW c, root[c] \in Page
  PROVE  \A e, f \in Entries(c) : e.path = f.path => e = f
<1>0. 0 \in Nat /\ 1 \in Nat /\ 2 \in Nat /\ 3 \in Nat
      /\ 0 # 1 /\ 0 # 2 /\ 0 # 3 /\ 0 # 4 /\ 1 # 2 /\ 1 # 3 /\ 1 # 4 /\ 2 # 3 /\ 2 # 4 /\ 3 # 4
  BY SMTT(20)
<1>1. \A e, f \in Level0(c) : e.path = f.path => e = f
  BY Zenon DEF Level0
<1>2. ASSUME NEW x \in Level1(c), NEW y \in Level1(c), x.path = y.path PROVE x = y
  <2>1. PICK e \in Level0(c) : x \in Under(c, e)
    BY LevelIs, Zenon DEF Kids
  <2>2. PICK f \in Level0(c) : y \in Under(c, f)
    BY LevelIs, Zenon DEF Kids
  <2>3. \A z \in Level0(c) : IsPlace(z, 0)
    BY LevelPlaces, Zenon
  <2>. QED BY <1>0, <1>1, <1>2, <2>1, <2>2, <2>3, UnderUnique, SMTT(20)
<1>3. ASSUME NEW x \in Level2(c), NEW y \in Level2(c), x.path = y.path PROVE x = y
  <2>1. PICK e \in Level1(c) : x \in Under(c, e)
    BY LevelIs, Zenon DEF Kids
  <2>2. PICK f \in Level1(c) : y \in Under(c, f)
    BY LevelIs, Zenon DEF Kids
  <2>3. \A z \in Level1(c) : IsPlace(z, 1)
    BY LevelPlaces, Zenon
  <2>. QED BY <1>0, <1>2, <1>3, <2>1, <2>2, <2>3, UnderUnique, SMTT(20)
<1>4. ASSUME NEW x \in Level3(c), NEW y \in Level3(c), x.path = y.path PROVE x = y
  <2>1. PICK e \in Level2(c) : x \in Under(c, e)
    BY LevelIs, Zenon DEF Kids
  <2>2. PICK f \in Level2(c) : y \in Under(c, f)
    BY LevelIs, Zenon DEF Kids
  <2>3. \A z \in Level2(c) : IsPlace(z, 2)
    BY LevelPlaces, Zenon
  <2>. QED BY <1>0, <1>3, <1>4, <2>1, <2>2, <2>3, UnderUnique, SMTT(20)
<1>5. ASSUME NEW x \in Level4(c), NEW y \in Level4(c), x.path = y.path PROVE x = y
  <2>1. PICK e \in Level3(c) : x \in Under(c, e)
    BY LevelIs, Zenon DEF Kids
  <2>2. PICK f \in Level3(c) : y \in Under(c, f)
    BY LevelIs, Zenon DEF Kids
  <2>3. \A z \in Level3(c) : IsPlace(z, 3)
    BY LevelPlaces, Zenon
  <2>. QED BY <1>0, <1>4, <1>5, <2>1, <2>2, <2>3, UnderUnique, SMTT(20)
<1>6. /\ \A e \in Level0(c) : Len(e.path) = 0
      /\ \A e \in Level1(c) : Len(e.path) = 1
      /\ \A e \in Level2(c) : Len(e.path) = 2
      /\ \A e \in Level3(c) : Len(e.path) = 3
      /\ \A e \in Level4(c) : Len(e.path) = 4
  BY LevelPlaces, Zenon DEF IsPlace
<1>. SUFFICES ASSUME NEW e \in Entries(c), NEW f \in Entries(c), e.path = f.path PROVE e = f
  BY Zenon
<1>7. e \in Level0(c) \/ e \in Level1(c) \/ e \in Level2(c) \/ e \in Level3(c) \/ e \in Level4(c)
  BY Zenon DEF Entries, Tables
<1>8. f \in Level0(c) \/ f \in Level1(c) \/ f \in Level2(c) \/ f \in Level3(c) \/ f \in Level4(c)
  BY Zenon DEF Entries, Tables
<1>9. Len(e.path) = Len(f.path)
  BY Zenon
<1>e. /\ e \in Level0(c) => Len(e.path) = 0
      /\ e \in Level1(c) => Len(e.path) = 1
      /\ e \in Level2(c) => Len(e.path) = 2
      /\ e \in Level3(c) => Len(e.path) = 3
      /\ e \in Level4(c) => Len(e.path) = 4
  BY <1>6, Zenon
<1>f. /\ f \in Level0(c) => Len(f.path) = 0
      /\ f \in Level1(c) => Len(f.path) = 1
      /\ f \in Level2(c) => Len(f.path) = 2
      /\ f \in Level3(c) => Len(f.path) = 3
      /\ f \in Level4(c) => Len(f.path) = 4
  BY <1>6, Zenon
<1>10. CASE e \in Level0(c) /\ f \in Level0(c)
  BY <1>1, <1>10, Zenon
<1>11. CASE e \in Level1(c) /\ f \in Level1(c)
  BY <1>2, <1>11, Zenon
<1>12. CASE e \in Level2(c) /\ f \in Level2(c)
  BY <1>3, <1>12, Zenon
<1>13. CASE e \in Level3(c) /\ f \in Level3(c)
  BY <1>4, <1>13, Zenon
<1>14. CASE e \in Level4(c) /\ f \in Level4(c)
  BY <1>5, <1>14, Zenon
<1>15. CASE e \in Level0(c)
  BY <1>0, <1>8, <1>9, <1>e, <1>f, <1>10, <1>15, Zenon
<1>16. CASE e \in Level1(c)
  BY <1>0, <1>8, <1>9, <1>e, <1>f, <1>11, <1>16, Zenon
<1>17. CASE e \in Level2(c)
  BY <1>0, <1>8, <1>9, <1>e, <1>f, <1>12, <1>17, Zenon
<1>18. CASE e \in Level3(c)
  BY <1>0, <1>8, <1>9, <1>e, <1>f, <1>13, <1>18, Zenon
<1>19. CASE e \in Level4(c)
  BY <1>0, <1>8, <1>9, <1>e, <1>f, <1>14, <1>19, Zenon
<1>. QED BY <1>7, <1>15, <1>16, <1>17, <1>18, <1>19, Zenon

-----------------------------------------------------------------------------
(* A step leaves the tree alone, adds a place to it, or takes one away. *)

(* Below a table that is left alone is what was there. *)
LEMMA UnderSame ==
  ASSUME NEW c, NEW e, table'[e.pg] = table[e.pg], done'[c] = done[c]
  PROVE  Under(c, e)' = Under(c, e)
<1>1. Ahead(c, e.pg, e.path)' = Ahead(c, e.pg, e.path)
  BY Zenon DEF Ahead, Present, WalkIndex, UserIndex
<1>2. ASSUME NEW x \in Under(c, e)' PROVE x \in Under(c, e)
  <2>1. PICK i \in Ahead(c, e.pg, e.path)' : x = Place(Append(e.path, i), table'[e.pg][i].pg)
    BY <1>2, Zenon DEF Under
  <2>. QED BY <1>1, <2>1, Zenon DEF Under
<1>3. ASSUME NEW x \in Under(c, e) PROVE x \in Under(c, e)'
  <2>1. PICK i \in Ahead(c, e.pg, e.path) : x = Place(Append(e.path, i), table[e.pg][i].pg)
    BY <1>3, Zenon DEF Under
  <2>. QED BY <1>1, <2>1, Zenon DEF Under
<1>. QED BY <1>2, <1>3, Zenon

(* A clear table has nothing below it. *)
LEMMA UnderClear ==
  ASSUME NEW c, NEW e, table'[e.pg] = ZeroTable
  PROVE  Under(c, e)' = {}
<1>1. ASSUME NEW i \in Ahead(c, e.pg, e.path)' PROVE FALSE
  <2>1. i \in WalkIndex(e.path) /\ table'[e.pg][i].pg # None
    BY <1>1, Zenon DEF Ahead, Present, WalkIndex, UserIndex
  <2>2. i \in Index
    BY <2>1, Zenon DEF WalkIndex, UserIndex
  <2>. QED BY <2>1, <2>2, NothingIs, Zenon DEF ZeroTable
<1>2. ASSUME NEW x \in Under(c, e)' PROVE FALSE
  BY <1>1, <1>2, Zenon DEF Under
<1>. QED BY <1>2, Zenon

(* Below the PML4 vmm_space_create makes there is nothing: the walk skips the kernel
   half. *)
LEMMA UnderNewSpace ==
  ASSUME NEW c, NEW e, NEW pg, table'[e.pg] = SpaceTable(pg), e.path = <<>>
  PROVE  Under(c, e)' = {}
<1>1. ASSUME NEW i \in Ahead(c, e.pg, e.path)' PROVE FALSE
  <2>1. i \in WalkIndex(e.path) /\ table'[e.pg][i].pg # None
    BY <1>1, Zenon DEF Ahead, Present, WalkIndex, UserIndex
  <2>2. i \in Index /\ i \notin KernelIndex
    BY <2>1, Zenon DEF WalkIndex, UserIndex
  <2>3. table'[e.pg][i] = Nothing
    BY <2>2, Zenon DEF SpaceTable
  <2>. QED BY <2>1, <2>3, NothingIs, Zenon
<1>2. ASSUME NEW x \in Under(c, e)' PROVE FALSE
  BY <1>1, <1>2, Zenon DEF Under
<1>. QED BY <1>2, Zenon

(* Setting an entry that was empty adds one place. *)
(* Entry i of the table at e, which was clear, is made to lead to pg. *)
Links(e, i, pg, f) ==
  /\ i \in WalkIndex(e.path) /\ table[e.pg][i].pg = None
  /\ table'[e.pg] = [table[e.pg] EXCEPT ![i] = [pg |-> pg, flags |-> f]]

(* Below a table with one entry more is one place more. *)
LEMMA UnderAdd ==
  ASSUME SpaceTypeOK, NEW c, NEW e, e.pg \in Page, done'[c] = done[c],
         NEW i, NEW pg \in Page, NEW f, Links(e, i, pg, f), Append(e.path, i) \notin done[c]
  PROVE  Under(c, e)' = Under(c, e) \cup {Place(Append(e.path, i), pg)}
<1>0. /\ i \in WalkIndex(e.path) /\ table[e.pg][i].pg = None
      /\ table'[e.pg] = [table[e.pg] EXCEPT ![i] = [pg |-> pg, flags |-> f]]
  BY Zenon DEF Links
<1>. USE <1>0
<1>1. i \in Index
  BY Zenon DEF WalkIndex, UserIndex
<1>2. table[e.pg] \in [Index -> [pg : Page \cup {None}, flags : Int]]
  BY Zenon DEF SpaceTypeOK
<1>3. table'[e.pg][i].pg = pg /\ \A j \in Index : j # i => table'[e.pg][j] = table[e.pg][j]
  <2>1. table'[e.pg][i] = [pg |-> pg, flags |-> f]
    BY ONLY <1>0, <1>1, <1>2, SMTT(20)
  <2>2. table'[e.pg][i].pg = pg
    BY ONLY <2>1, EntryFields, Zenon
  <2>3. \A j \in Index : j # i => table'[e.pg][j] = table[e.pg][j]
    BY <1>1, <1>2, Zenon
  <2>. QED BY <2>2, <2>3, Zenon
<1>4. ASSUME NEW j PROVE j \in Ahead(c, e.pg, e.path)' <=> j \in Ahead(c, e.pg, e.path) \/ j = i
  <2>1. j \in Ahead(c, e.pg, e.path)' <=>
          j \in WalkIndex(e.path) /\ table'[e.pg][j].pg # None /\ Append(e.path, j) \notin done'[c]
    BY Zenon DEF Ahead, Present, WalkIndex, UserIndex
  <2>2. j \in Ahead(c, e.pg, e.path) <=>
          j \in WalkIndex(e.path) /\ table[e.pg][j].pg # None /\ Append(e.path, j) \notin done[c]
    BY Zenon DEF Ahead, Present
  <2>3. CASE j = i
    BY <1>3, <2>1, <2>3, NoneIsNoPage, Zenon
  <2>4. CASE j # i
    <3>1. j \in WalkIndex(e.path) => table'[e.pg][j].pg = table[e.pg][j].pg
      BY <1>3, <2>4, Zenon DEF WalkIndex, UserIndex
    <3>2. Append(e.path, j) \notin done'[c] <=> Append(e.path, j) \notin done[c]
      BY Zenon
    <3>3. j \in Ahead(c, e.pg, e.path)' <=> j \in Ahead(c, e.pg, e.path)
      BY <2>1, <2>2, <3>1, <3>2, Zenon
    <3>. QED BY <2>4, <3>3, Zenon
  <2>. QED BY <2>3, <2>4, Zenon
<1>5. i \notin Ahead(c, e.pg, e.path)
  BY Zenon DEF Ahead, Present
<1>6. \A j \in Ahead(c, e.pg, e.path) : j # i /\ table'[e.pg][j] = table[e.pg][j]
  BY <1>3, <1>5, Zenon DEF Ahead, WalkIndex, UserIndex
<1>7. ASSUME NEW x \in Under(c, e)' PROVE x \in Under(c, e) \/ x = Place(Append(e.path, i), pg)
  <2>1. PICK j \in Ahead(c, e.pg, e.path)' : x = Place(Append(e.path, j), table'[e.pg][j].pg)
    BY <1>7, Zenon DEF Under
  <2>2. CASE j = i
    BY <1>3, <2>1, <2>2, Zenon
  <2>3. CASE j \in Ahead(c, e.pg, e.path)
    BY <1>6, <2>1, <2>3, Zenon DEF Under
  <2>. QED BY <1>4, <2>1, <2>2, <2>3, Zenon
<1>8. ASSUME NEW x \in Under(c, e) PROVE x \in Under(c, e)'
  <2>1. PICK j \in Ahead(c, e.pg, e.path) : x = Place(Append(e.path, j), table[e.pg][j].pg)
    BY <1>8, Zenon DEF Under
  <2>2. j \in Ahead(c, e.pg, e.path)' /\ x = Place(Append(e.path, j), table'[e.pg][j].pg)
    BY <1>4, <1>6, <2>1, Zenon
  <2>. QED BY <2>2, Zenon DEF Under
<1>9. Place(Append(e.path, i), pg) \in Under(c, e)'
  <2>1. i \in Ahead(c, e.pg, e.path)' /\ table'[e.pg][i].pg = pg
    BY <1>3, <1>4, Zenon
  <2>. QED BY <2>1, Zenon DEF Under
<1>. QED BY <1>7, <1>8, <1>9, Zenon

(* Once a place is done, the walk does not come to it again. *)
LEMMA UnderDrop ==
  ASSUME SpaceTypeOK, NEW c, NEW e, NEW d, table'[e.pg] = table[e.pg], done'[c] = done[c] \cup {d.path},
         \A x \in Under(c, e) : x.path = d.path => x = d
  PROVE  Under(c, e)' = Under(c, e) \ {d}
<1>1. ASSUME NEW j PROVE j \in Ahead(c, e.pg, e.path)' <=> j \in Ahead(c, e.pg, e.path) /\ Append(e.path, j) # d.path
  <2>1. j \in Ahead(c, e.pg, e.path)' <=>
          j \in WalkIndex(e.path) /\ table'[e.pg][j].pg # None /\ Append(e.path, j) \notin done'[c]
    BY Zenon DEF Ahead, Present, WalkIndex, UserIndex
  <2>2. j \in Ahead(c, e.pg, e.path) <=>
          j \in WalkIndex(e.path) /\ table[e.pg][j].pg # None /\ Append(e.path, j) \notin done[c]
    BY Zenon DEF Ahead, Present
  <2>3. Append(e.path, j) \notin done'[c] <=> Append(e.path, j) \notin done[c] /\ Append(e.path, j) # d.path
    BY Zenon
  <2>. QED BY <2>1, <2>2, <2>3, Zenon
<1>2. ASSUME NEW x \in Under(c, e)' PROVE x \in Under(c, e) /\ x # d
  <2>1. PICK j \in Ahead(c, e.pg, e.path)' : x = Place(Append(e.path, j), table'[e.pg][j].pg)
    BY <1>2, Zenon DEF Under
  <2>2. j \in Ahead(c, e.pg, e.path) /\ Append(e.path, j) # d.path
    BY <1>1, <2>1, Zenon
  <2>3. x.path # d.path
    BY <2>1, <2>2, PlaceIs, Zenon
  <2>. QED BY <2>1, <2>2, <2>3, Zenon DEF Under
<1>3. ASSUME NEW x \in Under(c, e), x # d PROVE x \in Under(c, e)'
  <2>1. PICK j \in Ahead(c, e.pg, e.path) : x = Place(Append(e.path, j), table[e.pg][j].pg)
    BY <1>3, Zenon DEF Under
  <2>2. x.path = Append(e.path, j)
    BY <2>1, PlaceIs, Zenon
  <2>3. j \in Ahead(c, e.pg, e.path)'
    BY <1>1, <1>3, <2>1, <2>2, Zenon
  <2>. QED BY <2>1, <2>3, Zenon DEF Under
<1>. QED BY <1>2, <1>3, Zenon

(* M are the places below those of L after the step. *)
KidsNext(M, L, c) == \A x : x \in M <=> \E e \in L : x \in Under(c, e)'

(* LevelIs, of the state after the step. *)
LEMMA LevelIsNext ==
  ASSUME NEW c
  PROVE  /\ \A x : x \in Level0(c)' <=> x = Place(<<>>, root'[c])
         /\ KidsNext(Level1(c)', Level0(c)', c) /\ KidsNext(Level2(c)', Level1(c)', c)
         /\ KidsNext(Level3(c)', Level2(c)', c) /\ KidsNext(Level4(c)', Level3(c)', c)
<1>1. \A x : x \in Level0(c)' <=> x = Place(<<>>, root'[c])
  BY Zenon DEF Level0, Place
<1>2. KidsNext(Level1(c)', Level0(c)', c)
  BY Zenon DEF KidsNext, Level1, Below
<1>3. KidsNext(Level2(c)', Level1(c)', c)
  BY Zenon DEF KidsNext, Level2, Below
<1>4. KidsNext(Level3(c)', Level2(c)', c)
  BY Zenon DEF KidsNext, Level3, Below
<1>5. KidsNext(Level4(c)', Level3(c)', c)
  BY Zenon DEF KidsNext, Level4, Below
<1>. QED BY <1>1, <1>2, <1>3, <1>4, <1>5, Zenon

(* If nothing changes below the places of a level, the next level is the same. *)
LEMMA SameKids ==
  ASSUME NEW c, NEW L, NEW M, NEW K, Kids(M, L, c), KidsNext(K, L, c),
         \A e \in L : Under(c, e)' = Under(c, e)
  PROVE  K = M
<1>1. ASSUME NEW x PROVE x \in K <=> x \in M
  BY Zenon DEF Kids, KidsNext
<1>. QED BY <1>1, Zenon

(* If nothing changes below any table, the tree is the same. *)
LEMMA SameTree ==
  ASSUME NEW c, root'[c] = root[c], \A e \in Tables(c) : Under(c, e)' = Under(c, e)
  PROVE  Entries(c)' = Entries(c) /\ Level4(c)' = Level4(c)
<1>0. /\ \A e \in Level0(c) : Under(c, e)' = Under(c, e)
      /\ \A e \in Level1(c) : Under(c, e)' = Under(c, e)
      /\ \A e \in Level2(c) : Under(c, e)' = Under(c, e)
      /\ \A e \in Level3(c) : Under(c, e)' = Under(c, e)
  BY Zenon DEF Tables
<1>1. Level0(c)' = Level0(c)
  <2>1. ASSUME NEW x PROVE x \in Level0(c)' <=> x \in Level0(c)
    BY LevelIs, LevelIsNext, Zenon
  <2>. QED BY <2>1, Zenon
<1>2. Level1(c)' = Level1(c)
  <2>1. Kids(Level1(c), Level0(c), c) /\ KidsNext(Level1(c)', Level0(c), c)
    BY <1>1, LevelIs, LevelIsNext, Zenon
  <2>. QED BY <1>0, <2>1, SameKids, Zenon
<1>3. Level2(c)' = Level2(c)
  <2>1. Kids(Level2(c), Level1(c), c) /\ KidsNext(Level2(c)', Level1(c), c)
    BY <1>2, LevelIs, LevelIsNext, Zenon
  <2>. QED BY <1>0, <2>1, SameKids, Zenon
<1>4. Level3(c)' = Level3(c)
  <2>1. Kids(Level3(c), Level2(c), c) /\ KidsNext(Level3(c)', Level2(c), c)
    BY <1>3, LevelIs, LevelIsNext, Zenon
  <2>. QED BY <1>0, <2>1, SameKids, Zenon
<1>5. Level4(c)' = Level4(c)
  <2>1. Kids(Level4(c), Level3(c), c) /\ KidsNext(Level4(c)', Level3(c), c)
    BY <1>4, LevelIs, LevelIsNext, Zenon
  <2>. QED BY <1>0, <2>1, SameKids, Zenon
<1>. QED BY <1>1, <1>2, <1>3, <1>4, <1>5, Zenon DEF Entries, Tables

Added(e, d, new) == {x \in {new} : e = d}
GrownBy(G, L, new, d, D) == \A x : x \in G <=> x \in L \/ (x = new /\ d \in D)

(* One level of a tree that grows by one place. *)
LEMMA GrownKids ==
  ASSUME NEW c, NEW d, NEW new, NEW D, NEW L, NEW M, NEW G, NEW K,
         Kids(M, L, c), KidsNext(K, G, c), GrownBy(G, L, new, d, D), Under(c, new)' = {},
         \A e \in L : Under(c, e)' = Under(c, e) \cup Added(e, d, new)
  PROVE  GrownBy(K, M, new, d, L)
<1>1. ASSUME NEW x \in M PROVE x \in K
  <2>1. PICK e \in L : x \in Under(c, e)
    BY Zenon DEF Kids
  <2>2. e \in G /\ x \in Under(c, e)'
    BY <2>1, Zenon DEF GrownBy
  <2>. QED BY <2>2, Zenon DEF KidsNext
<1>2. ASSUME d \in L PROVE new \in K
  <2>1. d \in G /\ new \in Under(c, d)'
    BY <1>2, Zenon DEF GrownBy, Added
  <2>. QED BY <2>1, Zenon DEF KidsNext
<1>3. ASSUME NEW x \in K PROVE x \in M \/ (x = new /\ d \in L)
  <2>1. PICK e \in G : x \in Under(c, e)'
    BY Zenon DEF KidsNext
  <2>2. e # new
    BY <2>1, Zenon
  <2>3. e \in L
    BY <2>2, Zenon DEF GrownBy
  <2>4. x \in Under(c, e) \/ (x = new /\ e = d)
    BY <2>1, <2>3, Zenon DEF Added
  <2>5. x \in Under(c, e) => x \in M
    BY <2>3, Zenon DEF Kids
  <2>. QED BY <2>3, <2>4, <2>5, Zenon
<1>. QED BY <1>1, <1>2, <1>3, Zenon DEF GrownBy

(* A tree one table of which gets one entry more. *)
LEMMA GrownTree ==
  ASSUME NEW c, NEW d \in Tables(c), NEW new, root'[c] = root[c], Under(c, new)' = {},
         \A e \in Tables(c) : Under(c, e)' = Under(c, e) \cup Added(e, d, new)
  PROVE  /\ Entries(c)' = Entries(c) \cup {new}
         /\ GrownBy(Level4(c)', Level4(c), new, d, Level3(c))
<1>0. /\ \A e \in Level0(c) : Under(c, e)' = Under(c, e) \cup Added(e, d, new)
      /\ \A e \in Level1(c) : Under(c, e)' = Under(c, e) \cup Added(e, d, new)
      /\ \A e \in Level2(c) : Under(c, e)' = Under(c, e) \cup Added(e, d, new)
      /\ \A e \in Level3(c) : Under(c, e)' = Under(c, e) \cup Added(e, d, new)
  BY Zenon DEF Tables
<1>1. GrownBy(Level0(c)', Level0(c), new, d, {})
  <2>1. ASSUME NEW x PROVE x \in Level0(c)' <=> x \in Level0(c)
    BY LevelIs, LevelIsNext, Zenon
  <2>. QED BY <2>1, Zenon DEF GrownBy
<1>2. GrownBy(Level1(c)', Level1(c), new, d, Level0(c))
  <2>1. Kids(Level1(c), Level0(c), c) /\ KidsNext(Level1(c)', Level0(c)', c)
    BY LevelIs, LevelIsNext, Zenon
  <2>. QED BY <1>0, <1>1, <2>1, GrownKids, Zenon
<1>3. GrownBy(Level2(c)', Level2(c), new, d, Level1(c))
  <2>1. Kids(Level2(c), Level1(c), c) /\ KidsNext(Level2(c)', Level1(c)', c)
    BY LevelIs, LevelIsNext, Zenon
  <2>. QED BY <1>0, <1>2, <2>1, GrownKids, Zenon
<1>4. GrownBy(Level3(c)', Level3(c), new, d, Level2(c))
  <2>1. Kids(Level3(c), Level2(c), c) /\ KidsNext(Level3(c)', Level2(c)', c)
    BY LevelIs, LevelIsNext, Zenon
  <2>. QED BY <1>0, <1>3, <2>1, GrownKids, Zenon
<1>5. GrownBy(Level4(c)', Level4(c), new, d, Level3(c))
  <2>1. Kids(Level4(c), Level3(c), c) /\ KidsNext(Level4(c)', Level3(c)', c)
    BY LevelIs, LevelIsNext, Zenon
  <2>. QED BY <1>0, <1>4, <2>1, GrownKids, Zenon
<1>6. d \in Level0(c) \/ d \in Level1(c) \/ d \in Level2(c) \/ d \in Level3(c)
  BY Zenon DEF Tables
<1>7. ASSUME NEW x \in Entries(c)' PROVE x \in Entries(c) \/ x = new
  <2>1. x \in Level0(c)' \/ x \in Level1(c)' \/ x \in Level2(c)' \/ x \in Level3(c)' \/ x \in Level4(c)'
    BY <1>7, Zenon DEF Entries, Tables
  <2>2. x = new \/ x \in Level0(c) \/ x \in Level1(c) \/ x \in Level2(c) \/ x \in Level3(c) \/ x \in Level4(c)
    BY <1>1, <1>2, <1>3, <1>4, <1>5, <2>1, Zenon DEF GrownBy
  <2>. QED BY <2>2, Zenon DEF Entries, Tables
<1>8. ASSUME NEW x, x \in Entries(c) \/ x = new PROVE x \in Entries(c)'
  <2>1. \/ x \in Level0(c) \/ x \in Level1(c) \/ x \in Level2(c) \/ x \in Level3(c) \/ x \in Level4(c)
        \/ x = new
    BY <1>8, Zenon DEF Entries, Tables
  <2>2. x \in Level0(c)' \/ x \in Level1(c)' \/ x \in Level2(c)' \/ x \in Level3(c)' \/ x \in Level4(c)'
    BY <1>1, <1>2, <1>3, <1>4, <1>5, <1>6, <2>1, Zenon DEF GrownBy
  <2>. QED BY <2>2, Zenon DEF Entries, Tables
<1>. QED BY <1>5, <1>7, <1>8, Zenon

ShrunkBy(G, L, d) == \A x : x \in G <=> x \in L /\ x # d

(* One level of a tree that loses one place. *)
LEMMA ShrunkKids ==
  ASSUME NEW c, NEW d, NEW L, NEW M, NEW G, NEW K,
         Kids(M, L, c), KidsNext(K, G, c), ShrunkBy(G, L, d), d \in L => Under(c, d) = {},
         \A e \in L : e # d => Under(c, e)' = Under(c, e) \ {d}
  PROVE  ShrunkBy(K, M, d)
<1>1. ASSUME NEW x \in M, x # d PROVE x \in K
  <2>1. PICK e \in L : x \in Under(c, e)
    BY Zenon DEF Kids
  <2>2. e # d
    BY <2>1, Zenon
  <2>3. e \in G /\ x \in Under(c, e)'
    BY <1>1, <2>1, <2>2, Zenon DEF ShrunkBy
  <2>. QED BY <2>3, Zenon DEF KidsNext
<1>2. ASSUME NEW x \in K PROVE x \in M /\ x # d
  <2>1. PICK e \in G : x \in Under(c, e)'
    BY Zenon DEF KidsNext
  <2>2. e \in L /\ e # d
    BY <2>1, Zenon DEF ShrunkBy
  <2>3. x \in Under(c, e) /\ x # d
    BY <2>1, <2>2, Zenon
  <2>. QED BY <2>2, <2>3, Zenon DEF Kids
<1>. QED BY <1>1, <1>2, Zenon DEF ShrunkBy

(* A tree that loses a place with nothing below it. *)
LEMMA ShrunkTree ==
  ASSUME NEW c, NEW d \in Entries(c), d \notin Level0(c), root'[c] = root[c],
         d \in Tables(c) => Under(c, d) = {},
         \A e \in Tables(c) : e # d => Under(c, e)' = Under(c, e) \ {d}
  PROVE  Entries(c)' = Entries(c) \ {d}
<1>0. /\ \A e \in Level0(c) : e # d => Under(c, e)' = Under(c, e) \ {d}
      /\ \A e \in Level1(c) : e # d => Under(c, e)' = Under(c, e) \ {d}
      /\ \A e \in Level2(c) : e # d => Under(c, e)' = Under(c, e) \ {d}
      /\ \A e \in Level3(c) : e # d => Under(c, e)' = Under(c, e) \ {d}
  BY Zenon DEF Tables
<1>00. /\ d \in Level1(c) => Under(c, d) = {}
       /\ d \in Level2(c) => Under(c, d) = {}
       /\ d \in Level3(c) => Under(c, d) = {}
       /\ d \in Level0(c) => Under(c, d) = {}
  BY Zenon DEF Tables
<1>1. ShrunkBy(Level0(c)', Level0(c), d)
  <2>1. ASSUME NEW x PROVE x \in Level0(c)' <=> x \in Level0(c)
    BY LevelIs, LevelIsNext, Zenon
  <2>. QED BY <2>1, Zenon DEF ShrunkBy
<1>2. ShrunkBy(Level1(c)', Level1(c), d)
  <2>1. Kids(Level1(c), Level0(c), c) /\ KidsNext(Level1(c)', Level0(c)', c)
    BY LevelIs, LevelIsNext, Zenon
  <2>. QED BY <1>0, <1>00, <1>1, <2>1, ShrunkKids, Zenon
<1>3. ShrunkBy(Level2(c)', Level2(c), d)
  <2>1. Kids(Level2(c), Level1(c), c) /\ KidsNext(Level2(c)', Level1(c)', c)
    BY LevelIs, LevelIsNext, Zenon
  <2>. QED BY <1>0, <1>00, <1>2, <2>1, ShrunkKids, Zenon
<1>4. ShrunkBy(Level3(c)', Level3(c), d)
  <2>1. Kids(Level3(c), Level2(c), c) /\ KidsNext(Level3(c)', Level2(c)', c)
    BY LevelIs, LevelIsNext, Zenon
  <2>. QED BY <1>0, <1>00, <1>3, <2>1, ShrunkKids, Zenon
<1>5. ShrunkBy(Level4(c)', Level4(c), d)
  <2>1. Kids(Level4(c), Level3(c), c) /\ KidsNext(Level4(c)', Level3(c)', c)
    BY LevelIs, LevelIsNext, Zenon
  <2>. QED BY <1>0, <1>00, <1>4, <2>1, ShrunkKids, Zenon
<1>6. ASSUME NEW x PROVE x \in Entries(c)' <=> x \in Entries(c) /\ x # d
  <2>1. x \in Entries(c)' <=> x \in Level0(c)' \/ x \in Level1(c)' \/ x \in Level2(c)' \/ x \in Level3(c)' \/ x \in Level4(c)'
    BY Zenon DEF Entries, Tables
  <2>2. x \in Entries(c) <=> x \in Level0(c) \/ x \in Level1(c) \/ x \in Level2(c) \/ x \in Level3(c) \/ x \in Level4(c)
    BY Zenon DEF Entries, Tables
  <2>. QED BY <1>1, <1>2, <1>3, <1>4, <1>5, <2>1, <2>2, Zenon DEF ShrunkBy
<1>. QED BY <1>6, Zenon

(* A new space is its root. *)
LEMMA LoneRoot ==
  ASSUME NEW c, NEW r, r = Place(<<>>, root'[c]), Under(c, r)' = {}
  PROVE  Entries(c)' = {r} /\ Level4(c)' = {}
<1>1. \A x : x \in Level0(c)' <=> x = r
  BY LevelIsNext, Zenon
<1>2. ASSUME NEW x \in Level1(c)' PROVE FALSE
  <2>1. PICK e \in Level0(c)' : x \in Under(c, e)'
    BY <1>2, LevelIsNext, Zenon DEF KidsNext
  <2>2. e = r
    BY <1>1, <2>1, Zenon
  <2>. QED BY <2>1, <2>2, Zenon
<1>3. ASSUME NEW x \in Level2(c)' PROVE FALSE
  <2>1. PICK e \in Level1(c)' : x \in Under(c, e)'
    BY <1>3, LevelIsNext, Zenon DEF KidsNext
  <2>. QED BY <1>2, <2>1, Zenon
<1>4. ASSUME NEW x \in Level3(c)' PROVE FALSE
  <2>1. PICK e \in Level2(c)' : x \in Under(c, e)'
    BY <1>4, LevelIsNext, Zenon DEF KidsNext
  <2>. QED BY <1>3, <2>1, Zenon
<1>5. ASSUME NEW x \in Level4(c)' PROVE FALSE
  <2>1. PICK e \in Level3(c)' : x \in Under(c, e)'
    BY <1>5, LevelIsNext, Zenon DEF KidsNext
  <2>. QED BY <1>4, <2>1, Zenon
<1>6. ASSUME NEW x PROVE x \in Entries(c)' <=> x = r
  <2>1. x \in Entries(c)' <=> x \in Level0(c)' \/ x \in Level1(c)' \/ x \in Level2(c)' \/ x \in Level3(c)' \/ x \in Level4(c)'
    BY Zenon DEF Entries, Tables
  <2>. QED BY <1>1, <1>2, <1>3, <1>4, <1>5, <2>1, Zenon
<1>7. Level4(c)' = {}
  BY <1>5, Zenon
<1>. QED BY <1>6, <1>7, Zenon

-----------------------------------------------------------------------------
(* What vmm_space_map finds on its way to an address. *)

Path1(va) == Append(<<>>, va[1])
Path2(va) == Append(Path1(va), va[2])
Path3(va) == Append(Path2(va), va[3])
Path4(va) == Append(Path3(va), va[4])

(* The paths that lead to an address; the last is the address itself. *)
LEMMA PathIs ==
  ASSUME NEW va \in [1..4 -> Index]
  PROVE  /\ va[1] \in Index /\ va[2] \in Index /\ va[3] \in Index /\ va[4] \in Index
         /\ Path1(va) \in Seq(Index) /\ Path2(va) \in Seq(Index) /\ Path3(va) \in Seq(Index)
         /\ Path1(va) # <<>> /\ Path2(va) # <<>> /\ Path3(va) # <<>>
         /\ Path4(va) = va
<1>1. va[1] \in Index /\ va[2] \in Index /\ va[3] \in Index /\ va[4] \in Index
  BY SMTT(20)
<1>2. Path1(va) \in Seq(Index) /\ Path1(va) # <<>> /\ Len(Path1(va)) = 1 /\ Path1(va)[1] = va[1]
  <2>1. Append(<<>>, va[1]) \in Seq(Index) /\ Append(<<>>, va[1]) # <<>> /\ Len(Append(<<>>, va[1])) = Len(<<>>) + 1
    BY <1>1, PathNone, PathAppend, Zenon
  <2>2. /\ Append(<<>>, va[1])[Len(<<>>) + 1] = va[1]
        /\ \A n \in 1..Len(<<>>) : Append(<<>>, va[1])[n] = <<>>[n]
    BY <1>1, PathNone, AppendAt, Zenon
  <2>3. 0 + 1 = 1
    BY SMTT(20)
  <2>. QED BY PathNone, <2>1, <2>2, <2>3, Zenon DEF Path1
<1>3. /\ Path2(va) \in Seq(Index) /\ Path2(va) # <<>> /\ Len(Path2(va)) = 2
      /\ Path2(va)[1] = va[1] /\ Path2(va)[2] = va[2]
  <2>1. Append(Path1(va), va[2]) \in Seq(Index) /\ Append(Path1(va), va[2]) # <<>> /\ Len(Append(Path1(va), va[2])) = Len(Path1(va)) + 1
    BY <1>1, <1>2, PathAppend, Zenon
  <2>2. /\ Append(Path1(va), va[2])[Len(Path1(va)) + 1] = va[2]
        /\ \A n \in 1..Len(Path1(va)) : Append(Path1(va), va[2])[n] = Path1(va)[n]
    BY <1>1, <1>2, AppendAt, Zenon
  <2>3. 1 + 1 = 2 /\ 1 \in 1..1
    BY SMTT(20)
  <2>. QED BY <1>2, <2>1, <2>2, <2>3, Zenon DEF Path2
<1>4. /\ Path3(va) \in Seq(Index) /\ Path3(va) # <<>> /\ Len(Path3(va)) = 3
      /\ Path3(va)[1] = va[1] /\ Path3(va)[2] = va[2] /\ Path3(va)[3] = va[3]
  <2>1. Append(Path2(va), va[3]) \in Seq(Index) /\ Append(Path2(va), va[3]) # <<>> /\ Len(Append(Path2(va), va[3])) = Len(Path2(va)) + 1
    BY <1>1, <1>3, PathAppend, Zenon
  <2>2. /\ Append(Path2(va), va[3])[Len(Path2(va)) + 1] = va[3]
        /\ \A n \in 1..Len(Path2(va)) : Append(Path2(va), va[3])[n] = Path2(va)[n]
    BY <1>1, <1>3, AppendAt, Zenon
  <2>3. 2 + 1 = 3 /\ 1 \in 1..2 /\ 2 \in 1..2
    BY SMTT(20)
  <2>. QED BY <1>3, <2>1, <2>2, <2>3, Zenon DEF Path3
<1>5. /\ Path4(va) \in Seq(Index) /\ Len(Path4(va)) = 4
      /\ Path4(va)[1] = va[1] /\ Path4(va)[2] = va[2] /\ Path4(va)[3] = va[3] /\ Path4(va)[4] = va[4]
  <2>1. Append(Path3(va), va[4]) \in Seq(Index) /\ Append(Path3(va), va[4]) # <<>> /\ Len(Append(Path3(va), va[4])) = Len(Path3(va)) + 1
    BY <1>1, <1>4, PathAppend, Zenon
  <2>2. /\ Append(Path3(va), va[4])[Len(Path3(va)) + 1] = va[4]
        /\ \A n \in 1..Len(Path3(va)) : Append(Path3(va), va[4])[n] = Path3(va)[n]
    BY <1>1, <1>4, AppendAt, Zenon
  <2>3. 3 + 1 = 4 /\ 1 \in 1..3 /\ 2 \in 1..3 /\ 3 \in 1..3
    BY SMTT(20)
  <2>. QED BY <1>4, <2>1, <2>2, <2>3, Zenon DEF Path4
<1>6. Path4(va) = va
  <2>1. va \in Seq(Index) /\ Len(va) = 4
    <3>1. 4 \in Nat
      BY SMTT(20)
    <3>. QED BY <3>1, SeqMade, Zenon
  <2>2. \A n \in 1..4 : n = 1 \/ n = 2 \/ n = 3 \/ n = 4
    BY SMTT(20)
  <2>3. \A n \in 1..4 : Path4(va)[n] = va[n]
    BY <1>5, <2>2, Zenon
  <2>. QED BY <1>5, <2>1, <2>3, SeqSame, Zenon
<1>. QED BY <1>1, <1>2, <1>3, <1>4, <1>6, Zenon

(* A present entry leads to a place below its table. *)
LEMMA Descend ==
  ASSUME NEW c, done[c] = {}, NEW path, NEW t,
         NEW i \in WalkIndex(path), NEW pg, table[t][i].pg = pg, pg # None
  PROVE  Place(Append(path, i), pg) \in Under(c, Place(path, t))
<1>1. Place(path, t).path = path /\ Place(path, t).pg = t
  BY PlaceIs, Zenon
<1>2. i \in Ahead(c, t, path)
  BY Zenon DEF Ahead, Present
<1>. QED BY <1>1, <1>2, Zenon DEF Under

(* The four steps of a walk to an address, one level each. *)
LEMMA Chain ==
  ASSUME NEW c, done[c] = {}, NEW va \in [1..4 -> Index], va[1] \in UserIndex,
         NEW p1, NEW p2, NEW p3, NEW p4
  PROVE  /\ Place(<<>>, root[c]) \in Level0(c)
         /\ table[root[c]][va[1]].pg = p1 /\ p1 # None => Place(Path1(va), p1) \in Level1(c)
         /\ Place(Path1(va), p1) \in Level1(c) /\ table[p1][va[2]].pg = p2 /\ p2 # None => Place(Path2(va), p2) \in Level2(c)
         /\ Place(Path2(va), p2) \in Level2(c) /\ table[p2][va[3]].pg = p3 /\ p3 # None => Place(Path3(va), p3) \in Level3(c)
         /\ Place(Path3(va), p3) \in Level3(c) /\ table[p3][va[4]].pg = p4 /\ p4 # None => Place(Path4(va), p4) \in Level4(c)
<1>1. /\ va[1] \in WalkIndex(<<>>) /\ va[2] \in WalkIndex(Path1(va))
      /\ va[3] \in WalkIndex(Path2(va)) /\ va[4] \in WalkIndex(Path3(va))
  BY PathIs, Zenon DEF WalkIndex
<1>2. Place(<<>>, root[c]) \in Level0(c)
  BY LevelIs, Zenon
<1>3. /\ Kids(Level1(c), Level0(c), c) /\ Kids(Level2(c), Level1(c), c)
      /\ Kids(Level3(c), Level2(c), c) /\ Kids(Level4(c), Level3(c), c)
  BY LevelIs, Zenon
<1>4. ASSUME table[root[c]][va[1]].pg = p1, p1 # None PROVE Place(Path1(va), p1) \in Level1(c)
  <2>1. Place(Append(<<>>, va[1]), p1) \in Under(c, Place(<<>>, root[c]))
    BY <1>1, <1>4, Descend, Zenon
  <2>2. Place(Append(<<>>, va[1]), p1) \in Level1(c)
    BY <1>2, <1>3, <1>4, <2>1, Zenon DEF Kids
  <2>. QED BY <2>2, Zenon DEF Path1
<1>5. ASSUME Place(Path1(va), p1) \in Level1(c), table[p1][va[2]].pg = p2, p2 # None PROVE Place(Path2(va), p2) \in Level2(c)
  <2>1. Place(Append(Path1(va), va[2]), p2) \in Under(c, Place(Path1(va), p1))
    BY <1>1, <1>5, Descend, Zenon
  <2>2. Place(Append(Path1(va), va[2]), p2) \in Level2(c)
    BY <1>2, <1>3, <1>5, <2>1, Zenon DEF Kids
  <2>. QED BY <2>2, Zenon DEF Path2
<1>6. ASSUME Place(Path2(va), p2) \in Level2(c), table[p2][va[3]].pg = p3, p3 # None PROVE Place(Path3(va), p3) \in Level3(c)
  <2>1. Place(Append(Path2(va), va[3]), p3) \in Under(c, Place(Path2(va), p2))
    BY <1>1, <1>6, Descend, Zenon
  <2>2. Place(Append(Path2(va), va[3]), p3) \in Level3(c)
    BY <1>2, <1>3, <1>6, <2>1, Zenon DEF Kids
  <2>. QED BY <2>2, Zenon DEF Path3
<1>7. ASSUME Place(Path3(va), p3) \in Level3(c), table[p3][va[4]].pg = p4, p4 # None PROVE Place(Path4(va), p4) \in Level4(c)
  <2>1. Place(Append(Path3(va), va[4]), p4) \in Under(c, Place(Path3(va), p3))
    BY <1>1, <1>7, Descend, Zenon
  <2>2. Place(Append(Path3(va), va[4]), p4) \in Level4(c)
    BY <1>2, <1>3, <1>7, <2>1, Zenon DEF Kids
  <2>. QED BY <2>2, Zenon DEF Path4
<1>. QED BY <1>2, <1>4, <1>5, <1>6, <1>7, Zenon

-----------------------------------------------------------------------------
(* The tree of a space whose pages are at one place each. *)

(* Every place of the tree is one of a page. *)
LEMMA EntryPlaces ==
  ASSUME SpaceTypeOK, NEW c, root[c] \in Page, NEW e \in Entries(c)
  PROVE  e.pg \in Page /\ e.path \in Seq(Index) /\ e = Place(e.path, e.pg)
<1>1. e \in Level0(c) \/ e \in Level1(c) \/ e \in Level2(c) \/ e \in Level3(c) \/ e \in Level4(c)
  BY Zenon DEF Entries, Tables
<1>2. IsPlace(e, 0) \/ IsPlace(e, 1) \/ IsPlace(e, 2) \/ IsPlace(e, 3) \/ IsPlace(e, 4)
  BY <1>1, LevelPlaces, Zenon
<1>. QED BY <1>2, Zenon DEF IsPlace

(* What is below a table is in the tree. *)
LEMMA TablesIn ==
  ASSUME NEW c, NEW e \in Tables(c)
  PROVE  e \in Entries(c) /\ \A x \in Under(c, e) : x \in Entries(c)
<1>1. e \in Entries(c)
  BY Zenon DEF Entries
<1>2. e \in Level0(c) \/ e \in Level1(c) \/ e \in Level2(c) \/ e \in Level3(c)
  BY Zenon DEF Tables
<1>3. ASSUME NEW x \in Under(c, e) PROVE x \in Entries(c)
  <2>1. x \in Level1(c) \/ x \in Level2(c) \/ x \in Level3(c) \/ x \in Level4(c)
    BY <1>2, LevelIs, Zenon DEF Kids
  <2>. QED BY <2>1, Zenon DEF Entries, Tables
<1>. QED BY <1>1, <1>3, Zenon

(* The page of a place is held, and not the one about to be mapped. *)
LEMMA HeldPages ==
  ASSUME NEW c, OnePlace(c), NEW e \in Entries(c)
  PROVE  e.pg \in held[c] /\ e.pg # leaf[c]
BY Zenon DEF OnePlace

(* The tree of a space whose tables are left alone. *)
LEMMA KeptTree ==
  ASSUME NEW c, OnePlace(c), root'[c] = root[c], done'[c] = done[c],
         \A e \in Entries(c) : table'[e.pg] = table[e.pg]
  PROVE  Entries(c)' = Entries(c) /\ Level4(c)' = Level4(c)
<1>1. ASSUME NEW e \in Tables(c) PROVE Under(c, e)' = Under(c, e)
  <2>1. table'[e.pg] = table[e.pg]
    BY TablesIn, Zenon
  <2>. QED BY <2>1, UnderSame, Zenon
<1>. QED BY <1>1, SameTree, Zenon

(* The step makes one entry of a table of the space, and nothing else of it. *)
LinksOne(c, d, i, pg, f) ==
  /\ OnePlace(c) /\ root[c] \in Page /\ root'[c] = root[c] /\ done[c] = {} /\ done'[c] = done[c]
  /\ d \in Tables(c) /\ pg \in Page /\ Links(d, i, pg, f) /\ table'[pg] = ZeroTable
  /\ \A e \in Entries(c) : e.pg # d.pg => table'[e.pg] = table[e.pg]

(* The tree after ensure_table_in or vmm_space_map made an entry. *)
LEMMA AddPlace ==
  ASSUME SpaceTypeOK, NEW c, NEW d, NEW i, NEW pg, NEW f, LinksOne(c, d, i, pg, f)
  PROVE  /\ Entries(c)' = Entries(c) \cup {Place(Append(d.path, i), pg)}
         /\ GrownBy(Level4(c)', Level4(c), Place(Append(d.path, i), pg), d, Level3(c))
<1>0. /\ OnePlace(c) /\ root[c] \in Page /\ root'[c] = root[c] /\ done[c] = {} /\ done'[c] = done[c]
      /\ d \in Tables(c) /\ pg \in Page /\ Links(d, i, pg, f) /\ table'[pg] = ZeroTable
      /\ \A e \in Entries(c) : e.pg # d.pg => table'[e.pg] = table[e.pg]
  BY Zenon DEF LinksOne
<1>. USE <1>0
<1>. DEFINE new == Place(Append(d.path, i), pg)
<1>1. d \in Entries(c) /\ d.pg \in Page
  BY TablesIn, EntryPlaces, Zenon
<1>2. Under(c, new)' = {}
  <2>1. new.pg = pg
    BY PlaceIs, Zenon
  <2>. HIDE DEF new
  <2>. QED BY <2>1, UnderClear, Zenon
<1>3. Under(c, d)' = Under(c, d) \cup {new}
  <2>1. Append(d.path, i) \notin done[c]
    BY Zenon
  <2>2. SpaceTypeOK /\ d.pg \in Page /\ done'[c] = done[c] /\ pg \in Page /\ Links(d, i, pg, f)
    BY <1>1, Zenon
  <2>. QED BY ONLY <2>1, <2>2, UnderAdd, SMTT(20)
<1>. HIDE DEF new
<1>4. ASSUME NEW e \in Tables(c) PROVE Under(c, e)' = Under(c, e) \cup Added(e, d, new)
  <2>1. CASE e = d
    <3>1. Added(e, d, new) = {new}
      BY <2>1, Zenon DEF Added
    <3>. QED BY <1>3, <2>1, <3>1, Zenon
  <2>2. CASE e # d
    <3>1. Added(e, d, new) = {}
      BY <2>2, Zenon DEF Added
    <3>2. e.pg # d.pg /\ e \in Entries(c)
      BY <1>1, <2>2, TablesIn, Zenon DEF OnePlace
    <3>3. Under(c, e)' = Under(c, e)
      BY <3>2, UnderSame, Zenon
    <3>. QED BY <3>1, <3>3, Zenon
  <2>. QED BY <2>1, <2>2, Zenon
<1>5. Entries(c)' = Entries(c) \cup {new} /\ GrownBy(Level4(c)', Level4(c), new, d, Level3(c))
  BY <1>2, <1>4, GrownTree, Zenon
<1>. QED BY <1>5, Zenon DEF new

(* The tree after vmm_space_destroy freed a page with nothing below it. *)
LEMMA DropPlace ==
  ASSUME SpaceTypeOK, NEW c, OnePlace(c), root[c] \in Page, root'[c] = root[c],
         NEW d \in Entries(c), d \notin Level0(c), done'[c] = done[c] \cup {d.path},
         d \in Tables(c) => Under(c, d) = {},
         \A e \in Entries(c) : e.pg # d.pg => table'[e.pg] = table[e.pg]
  PROVE  Entries(c)' = Entries(c) \ {d}
<1>0. d \in Entries(c) /\ d \notin Level0(c) /\ root'[c] = root[c] /\ (d \in Tables(c) => Under(c, d) = {})
  OBVIOUS
<1>1. ASSUME NEW e \in Tables(c), e # d PROVE Under(c, e)' = Under(c, e) \ {d}
  <2>1. e \in Entries(c) /\ \A x \in Under(c, e) : x \in Entries(c)
    BY TablesIn, Zenon
  <2>2. \A x \in Under(c, e) : x.path = d.path => x = d
    BY <2>1, PathUnique, Zenon
  <2>3. table'[e.pg] = table[e.pg]
    BY <1>1, <2>1, Zenon DEF OnePlace
  <2>. QED BY <2>2, <2>3, UnderDrop, SMTT(20)
<1>2. \A e \in Tables(c) : e # d => Under(c, e)' = Under(c, e) \ {d}
  BY <1>1, Zenon
<1>. QED BY ONLY <1>0, <1>2, ShrunkTree, Zenon

-----------------------------------------------------------------------------
(* Where ensure_table_in and vmm_space_map write. *)

(* Which levels hold tables, and that none above the last table level is on it. *)
LEMMA LevelsApart ==
  ASSUME SpaceTypeOK, NEW c, root[c] \in Page
  PROVE  /\ \A e \in Level0(c) : e \notin Level3(c) /\ e \in Tables(c)
         /\ \A e \in Level1(c) : e \notin Level3(c) /\ e \in Tables(c)
         /\ \A e \in Level2(c) : e \notin Level3(c) /\ e \in Tables(c)
         /\ \A e \in Level3(c) : e \in Tables(c)
         /\ \A e \in Level4(c) : e \notin Tables(c)
<1>0. 0 # 3 /\ 1 # 3 /\ 2 # 3 /\ 4 # 0 /\ 4 # 1 /\ 4 # 2 /\ 4 # 3
  BY SMTT(20)
<1>1. /\ \A e \in Level0(c) : Len(e.path) = 0
      /\ \A e \in Level1(c) : Len(e.path) = 1
      /\ \A e \in Level2(c) : Len(e.path) = 2
      /\ \A e \in Level3(c) : Len(e.path) = 3
      /\ \A e \in Level4(c) : Len(e.path) = 4
  BY LevelPlaces, Zenon DEF IsPlace
<1>2. \A e \in Level0(c) : e \notin Level3(c) /\ e \in Tables(c)
  BY <1>0, <1>1, Zenon DEF Tables
<1>3. \A e \in Level1(c) : e \notin Level3(c) /\ e \in Tables(c)
  BY <1>0, <1>1, Zenon DEF Tables
<1>4. \A e \in Level2(c) : e \notin Level3(c) /\ e \in Tables(c)
  BY <1>0, <1>1, Zenon DEF Tables
<1>5. \A e \in Level3(c) : e \in Tables(c)
  BY Zenon DEF Tables
<1>6. ASSUME NEW e \in Level4(c), e \in Tables(c) PROVE FALSE
  <2>1. e \in Level0(c) \/ e \in Level1(c) \/ e \in Level2(c) \/ e \in Level3(c)
    BY <1>6, Zenon DEF Tables
  <2>. QED BY <1>0, <1>1, <2>1, Zenon
<1>. QED BY <1>2, <1>3, <1>4, <1>5, <1>6, Zenon

(* ensure_table_in makes its entry in a table of the space, above the last level,
   where there was none. *)
LEMMA Missing ==
  ASSUME SpaceTypeOK, NEW c, done[c] = {}, root[c] \in Page,
         Va(c) \in [1..4 -> Index], Va(c)[1] \in UserIndex, Pt(c) = None
  PROVE  \E d \in Tables(c) : /\ d.pg = MissingAt(c)[1] /\ d \notin Level3(c)
                              /\ MissingAt(c)[2] \in WalkIndex(d.path)
                              /\ table[d.pg][MissingAt(c)[2]].pg = None
<1>1. /\ Va(c)[1] \in WalkIndex(<<>>) /\ Va(c)[2] \in WalkIndex(Path1(Va(c))) /\ Va(c)[3] \in WalkIndex(Path2(Va(c)))
  BY PathIs, Zenon DEF WalkIndex
<1>2. CASE Pdpt(c) = None
  <2>. DEFINE d == Place(<<>>, root[c])
  <2>1. d \in Level0(c) /\ d.pg = root[c] /\ d.path = <<>>
    BY PlaceIs, LevelIs, Zenon
  <2>2. MissingAt(c) = <<root[c], Va(c)[1]>>
    BY <1>2, Zenon DEF MissingAt
  <2>3. MissingAt(c)[1] = root[c] /\ MissingAt(c)[2] = Va(c)[1]
    BY <2>2, SMTT(20)
  <2>4. table[root[c]][Va(c)[1]].pg = None
    BY <1>2, Zenon DEF Pdpt
  <2>. HIDE DEF d
  <2>. QED BY <1>1, <2>1, <2>3, <2>4, LevelsApart, Zenon
<1>3. CASE Pdpt(c) # None /\ Pd(c) = None
  <2>. DEFINE d == Place(Path1(Va(c)), Pdpt(c))
  <2>1. d \in Level1(c)
    <3>1. table[root[c]][Va(c)[1]].pg = Pdpt(c)
      BY Zenon DEF Pdpt
    <3>. QED BY <1>3, <3>1, Chain, Zenon
  <2>2. d.pg = Pdpt(c) /\ d.path = Path1(Va(c))
    BY PlaceIs, Zenon
  <2>3. MissingAt(c) = <<Pdpt(c), Va(c)[2]>>
    BY <1>3, Zenon DEF MissingAt
  <2>4. MissingAt(c)[1] = Pdpt(c) /\ MissingAt(c)[2] = Va(c)[2]
    BY <2>3, SMTT(20)
  <2>5. table[Pdpt(c)][Va(c)[2]].pg = None
    BY <1>3, Zenon DEF Pd
  <2>. HIDE DEF d
  <2>. QED BY <1>1, <2>1, <2>2, <2>4, <2>5, LevelsApart, Zenon
<1>4. CASE Pdpt(c) # None /\ Pd(c) # None
  <2>. DEFINE d == Place(Path2(Va(c)), Pd(c))
  <2>1. Place(Path1(Va(c)), Pdpt(c)) \in Level1(c)
    <3>1. table[root[c]][Va(c)[1]].pg = Pdpt(c)
      BY Zenon DEF Pdpt
    <3>. QED BY <1>4, <3>1, Chain, Zenon
  <2>2. table[Pdpt(c)][Va(c)[2]].pg = Pd(c)
    BY <1>4, Zenon DEF Pd
  <2>3. d \in Level2(c)
    BY <1>4, <2>1, <2>2, Chain, Zenon
  <2>4. d.pg = Pd(c) /\ d.path = Path2(Va(c))
    BY PlaceIs, Zenon
  <2>5. MissingAt(c) = <<Pd(c), Va(c)[3]>>
    BY <1>4, Zenon DEF MissingAt
  <2>6. MissingAt(c)[1] = Pd(c) /\ MissingAt(c)[2] = Va(c)[3]
    BY <2>5, SMTT(20)
  <2>7. table[Pd(c)][Va(c)[3]].pg = None
    BY <1>4, Zenon DEF Pt
  <2>. HIDE DEF d
  <2>. QED BY <1>1, <2>3, <2>4, <2>6, <2>7, LevelsApart, Zenon
<1>. QED BY <1>2, <1>3, <1>4, Zenon

(* The table vmm_space_map writes into is one of the last level. *)
LEMMA PtPlace ==
  ASSUME SpaceTypeOK, NEW c, done[c] = {}, root[c] \in Page,
         Va(c) \in [1..4 -> Index], Va(c)[1] \in UserIndex, Pt(c) # None
  PROVE  /\ Pdpt(c) # None /\ Pd(c) # None
         /\ table[root[c]][Va(c)[1]].pg = Pdpt(c) /\ table[Pdpt(c)][Va(c)[2]].pg = Pd(c) /\ table[Pd(c)][Va(c)[3]].pg = Pt(c)
         /\ Place(Path1(Va(c)), Pdpt(c)) \in Level1(c) /\ Place(Path2(Va(c)), Pd(c)) \in Level2(c)
         /\ Place(Path3(Va(c)), Pt(c)) \in Level3(c) /\ Va(c)[4] \in WalkIndex(Path3(Va(c)))
<1>1. Pd(c) # None /\ Pdpt(c) # None
  BY Zenon DEF Pt, Pd
<1>2. table[root[c]][Va(c)[1]].pg = Pdpt(c) /\ table[Pdpt(c)][Va(c)[2]].pg = Pd(c) /\ table[Pd(c)][Va(c)[3]].pg = Pt(c)
  BY <1>1, Zenon DEF Pt, Pd, Pdpt
<1>3. Place(Path1(Va(c)), Pdpt(c)) \in Level1(c)
  BY <1>1, <1>2, Chain, Zenon
<1>4. Place(Path2(Va(c)), Pd(c)) \in Level2(c)
  BY <1>1, <1>2, <1>3, Chain, Zenon
<1>5. Place(Path3(Va(c)), Pt(c)) \in Level3(c)
  BY <1>1, <1>2, <1>4, Chain, Zenon
<1>6. Va(c)[4] \in WalkIndex(Path3(Va(c)))
  BY PathIs, Zenon DEF WalkIndex
<1>. QED BY <1>1, <1>2, <1>3, <1>4, <1>5, <1>6, Zenon

-----------------------------------------------------------------------------
(* The page vmm_space_destroy frees next is a place with nothing left below it. *)

Bare(c, x) == x \in Entries(c) /\ (x \in Tables(c) => Under(c, x) = {})

(* The page freed next is a place. *)
LEMMA RecordIsPlace == \A g, p : [pg |-> g, path |-> p] = Place(p, g)
BY SMTT(20) DEF Place

(* A table with nothing ahead is freed itself. *)
LEMMA Stops ==
  ASSUME SpaceTypeOK, NEW c, root[c] \in Page, NEW e \in Entries(c), Ahead(c, e.pg, e.path) = {}
  PROVE  Bare(c, [pg |-> e.pg, path |-> e.path]) /\ [pg |-> e.pg, path |-> e.path] = e
<1>1. [pg |-> e.pg, path |-> e.path] = e
  BY RecordIsPlace, EntryPlaces, Zenon
<1>2. Under(c, e) = {}
  BY Zenon DEF Under
<1>3. Bare(c, e)
  BY <1>2, Zenon DEF Bare
<1>. QED BY <1>1, <1>3, Zenon

(* A table with something ahead leads to a place below it. *)
LEMMA GoesOn ==
  ASSUME SpaceTypeOK, NEW c, NEW e, Ahead(c, e.pg, e.path) # {}
  PROVE  LET i == Next1(c, e.pg, e.path)
         IN  i \in Ahead(c, e.pg, e.path) /\ Place(Append(e.path, i), table[e.pg][i].pg) \in Under(c, e)
<1>1. Ahead(c, e.pg, e.path) \subseteq Nat
  <2>1. Ahead(c, e.pg, e.path) \subseteq Index
    BY Zenon DEF Ahead, WalkIndex, UserIndex
  <2>. QED BY <2>1, SpaceConstants, Zenon
<1>2. \E i \in Ahead(c, e.pg, e.path) : \A j \in Ahead(c, e.pg, e.path) : i <= j
  BY <1>1, LowestOf, Zenon
<1>3. Next1(c, e.pg, e.path) \in Ahead(c, e.pg, e.path)
  BY <1>2, Zenon DEF Next1
<1>. QED BY <1>3, Zenon DEF Under

(* What the innermost loop frees next. *)
LEMMA FreePtBare ==
  ASSUME SpaceTypeOK, NEW c, root[c] \in Page, NEW e \in Level3(c)
  PROVE  Bare(c, FreePt(c, e.pg, e.path)) /\ FreePt(c, e.pg, e.path).path # <<>>
<1>0. e \in Entries(c) /\ e.path \in Seq(Index) /\ Len(e.path) = 3
  BY LevelPlaces, Zenon DEF Entries, Tables, IsPlace
<1>1. CASE Ahead(c, e.pg, e.path) = {}
  <2>1. FreePt(c, e.pg, e.path) = [pg |-> e.pg, path |-> e.path]
    BY <1>1, Zenon DEF FreePt
  <2>2. Bare(c, FreePt(c, e.pg, e.path)) /\ FreePt(c, e.pg, e.path) = e
    BY <1>0, <1>1, <2>1, Stops, Zenon
  <2>3. 0 # 3
    BY SMTT(20)
  <2>. QED BY <1>0, <2>2, <2>3, PathNone, Zenon
<1>2. CASE Ahead(c, e.pg, e.path) # {}
  <2>. DEFINE i == Next1(c, e.pg, e.path)
              x == Place(Append(e.path, i), table[e.pg][i].pg)
  <2>1. FreePt(c, e.pg, e.path) = x
    BY <1>2, RecordIsPlace, Zenon DEF FreePt
  <2>2. x \in Under(c, e) /\ i \in Ahead(c, e.pg, e.path)
    BY <1>2, GoesOn, Zenon
  <2>3. x \in Level4(c)
    BY <2>2, LevelIs, Zenon DEF Kids
  <2>4. Bare(c, x)
    BY <2>3, LevelsApart, Zenon DEF Bare, Entries
  <2>5. x.path # <<>>
    <3>1. x.path = Append(e.path, i) /\ i \in Index
      BY <2>2, PlaceIs, Zenon DEF Ahead, WalkIndex, UserIndex
    <3>. QED BY <1>0, <3>1, PathAppend, Zenon
  <2>. QED BY <2>1, <2>4, <2>5, Zenon
<1>. QED BY <1>1, <1>2, Zenon

(* What the loop over a page directory frees next. *)
LEMMA FreePdBare ==
  ASSUME SpaceTypeOK, NEW c, root[c] \in Page, NEW e \in Level2(c)
  PROVE  Bare(c, FreePd(c, e.pg, e.path)) /\ FreePd(c, e.pg, e.path).path # <<>>
<1>0. e \in Entries(c) /\ e.path \in Seq(Index) /\ Len(e.path) = 2
  BY LevelPlaces, Zenon DEF Entries, Tables, IsPlace
<1>1. CASE Ahead(c, e.pg, e.path) = {}
  <2>1. FreePd(c, e.pg, e.path) = [pg |-> e.pg, path |-> e.path]
    BY <1>1, Zenon DEF FreePd, TableDone
  <2>2. Bare(c, FreePd(c, e.pg, e.path)) /\ FreePd(c, e.pg, e.path) = e
    BY <1>0, <1>1, <2>1, Stops, Zenon
  <2>3. 0 # 2
    BY SMTT(20)
  <2>. QED BY <1>0, <2>2, <2>3, PathNone, Zenon
<1>2. CASE Ahead(c, e.pg, e.path) # {}
  <2>. DEFINE i == Next1(c, e.pg, e.path)
              x == Place(Append(e.path, i), table[e.pg][i].pg)
  <2>1. FreePd(c, e.pg, e.path) = FreePt(c, table[e.pg][i].pg, Append(e.path, i))
    BY <1>2, Zenon DEF FreePd, TableDone
  <2>2. x \in Under(c, e)
    BY <1>2, GoesOn, Zenon
  <2>3. x \in Level3(c)
    BY <2>2, LevelIs, Zenon DEF Kids
  <2>4. x.pg = table[e.pg][i].pg /\ x.path = Append(e.path, i)
    BY PlaceIs, Zenon
  <2>5. Bare(c, FreePt(c, x.pg, x.path)) /\ FreePt(c, x.pg, x.path).path # <<>>
    BY <2>3, FreePtBare, Zenon
  <2>. QED BY <2>1, <2>4, <2>5, Zenon
<1>. QED BY <1>1, <1>2, Zenon

(* What the loop over a page-directory-pointer table frees next. *)
LEMMA FreePdptBare ==
  ASSUME SpaceTypeOK, NEW c, root[c] \in Page, NEW e \in Level1(c)
  PROVE  Bare(c, FreePdpt(c, e.pg, e.path)) /\ FreePdpt(c, e.pg, e.path).path # <<>>
<1>0. e \in Entries(c) /\ e.path \in Seq(Index) /\ Len(e.path) = 1
  BY LevelPlaces, Zenon DEF Entries, Tables, IsPlace
<1>1. CASE Ahead(c, e.pg, e.path) = {}
  <2>1. FreePdpt(c, e.pg, e.path) = [pg |-> e.pg, path |-> e.path]
    BY <1>1, Zenon DEF FreePdpt
  <2>2. Bare(c, FreePdpt(c, e.pg, e.path)) /\ FreePdpt(c, e.pg, e.path) = e
    BY <1>0, <1>1, <2>1, Stops, Zenon
  <2>3. 0 # 1
    BY SMTT(20)
  <2>. QED BY <1>0, <2>2, <2>3, PathNone, Zenon
<1>2. CASE Ahead(c, e.pg, e.path) # {}
  <2>. DEFINE i == Next1(c, e.pg, e.path)
              x == Place(Append(e.path, i), table[e.pg][i].pg)
  <2>1. FreePdpt(c, e.pg, e.path) = FreePd(c, table[e.pg][i].pg, Append(e.path, i))
    BY <1>2, Zenon DEF FreePdpt
  <2>2. x \in Under(c, e)
    BY <1>2, GoesOn, Zenon
  <2>3. x \in Level2(c)
    BY <2>2, LevelIs, Zenon DEF Kids
  <2>4. x.pg = table[e.pg][i].pg /\ x.path = Append(e.path, i)
    BY PlaceIs, Zenon
  <2>5. Bare(c, FreePd(c, x.pg, x.path)) /\ FreePd(c, x.pg, x.path).path # <<>>
    BY <2>3, FreePdBare, Zenon
  <2>. QED BY <2>1, <2>4, <2>5, Zenon
<1>. QED BY <1>1, <1>2, Zenon

(* What vmm_space_destroy frees next has nothing below it, and is the root only at
   the end. *)
LEMMA NextFreeBare ==
  ASSUME SpaceTypeOK, NEW c, root[c] \in Page
  PROVE  /\ Bare(c, NextFree(c))
         /\ NextFree(c) \in Level0(c) <=> NextFree(c).path = <<>>
<1>. DEFINE r == Place(<<>>, root[c])
<1>0. r \in Level0(c) /\ r.pg = root[c] /\ r.path = <<>> /\ r \in Entries(c)
  BY PlaceIs, LevelIs, Zenon DEF Entries, Tables
<1>1. ASSUME NEW x \in Level0(c) PROVE x.path = <<>>
  <2>1. x = r
    BY Zenon DEF Level0
  <2>. QED BY <1>0, <2>1, Zenon
<1>. HIDE DEF r
<1>2. CASE Ahead(c, root[c], <<>>) = {}
  <2>1. NextFree(c) = [pg |-> root[c], path |-> <<>>]
    BY <1>2, Zenon DEF NextFree
  <2>2. Bare(c, NextFree(c)) /\ NextFree(c) = r
    BY <1>0, <1>2, <2>1, Stops, Zenon
  <2>. QED BY <1>0, <2>2, Zenon
<1>3. CASE Ahead(c, root[c], <<>>) # {}
  <2>. DEFINE i == Next1(c, root[c], <<>>)
              x == Place(Append(<<>>, i), table[root[c]][i].pg)
  <2>0. <<i>> = Append(<<>>, i)
    BY SMTT(20)
  <2>1. NextFree(c) = FreePdpt(c, table[root[c]][i].pg, Append(<<>>, i))
    BY <1>3, <2>0, Zenon DEF NextFree
  <2>2. x \in Under(c, r)
    BY <1>0, <1>3, GoesOn, Zenon
  <2>3. x \in Level1(c)
    BY <1>0, <2>2, LevelIs, Zenon DEF Kids
  <2>4. x.pg = table[root[c]][i].pg /\ x.path = Append(<<>>, i)
    BY PlaceIs, Zenon
  <2>5. Bare(c, FreePdpt(c, x.pg, x.path)) /\ FreePdpt(c, x.pg, x.path).path # <<>>
    BY <2>3, FreePdptBare, Zenon
  <2>. QED BY <1>1, <2>1, <2>4, <2>5, Zenon
<1>. QED BY <1>2, <1>3, Zenon

-----------------------------------------------------------------------------
(* What was mapped stays mapped while a space grows. *)

(* A page to map. *)
LEMMA PageOf ==
  ASSUME NEW s \in Seq(UserPage), NEW n \in 1..Len(s)
  PROVE  s[n] \in UserPage /\ s[n].va \in [1..4 -> Index] /\ s[n].ok \in BOOLEAN /\ s[n].flags \in Nat
<1>1. s[n] \in UserPage
  BY SMTT(20)
<1>. QED BY <1>1, SMTT(20) DEF UserPage

(* The root is a page of the space. *)
LEMMA RootHeld ==
  ASSUME NEW c, OnePlace(c)
  PROVE  root[c] \in held[c]
<1>1. Place(<<>>, root[c]) \in Entries(c)
  BY LevelIs, Zenon DEF Entries, Tables
<1>. QED BY <1>1, HeldPages, PlaceIs, Zenon

Grows(c) ==
  /\ root'[c] = root[c] /\ held[c] \subseteq held'[c]
  /\ \A pg \in held[c], i \in Index : table[pg][i].pg # None => table'[pg][i] = table[pg][i]

(* An address that resolves still does. *)
LEMMA ResolvesKept ==
  ASSUME NEW c, OnePlace(c), held[c] \subseteq Page, Grows(c),
         NEW va \in [1..4 -> Index], NEW flags, Resolves(c, va, flags)
  PROVE  Resolves(c, va, flags)'
<1>0. root[c] \in held[c] /\ root'[c] = root[c]
  BY RootHeld, Zenon DEF Grows
<1>1. PICK p1 \in held[c], p2 \in held[c], p3 \in held[c], p4 \in held[c] :
         /\ table[root[c]][va[1]].pg = p1 /\ table[p1][va[2]].pg = p2 /\ table[p2][va[3]].pg = p3
         /\ table[p3][va[4]] = [pg |-> p4, flags |-> flags]
  BY Zenon DEF Resolves
<1>2. p1 # None /\ p2 # None /\ p3 # None /\ table[p3][va[4]].pg # None
  <2>1. p1 # None /\ p2 # None /\ p3 # None /\ p4 # None
    BY NoneIsNoPage, Zenon
  <2>2. table[p3][va[4]].pg = p4
    <3>1. [pg |-> p4, flags |-> flags].pg = p4
      BY EntryFields, Zenon
    <3>. QED BY <1>1, <3>1, Zenon
  <2>. QED BY <2>1, <2>2, Zenon
<1>3. va[1] \in Index /\ va[2] \in Index /\ va[3] \in Index /\ va[4] \in Index /\ va[1] \in UserIndex
  BY PathIs, Zenon DEF Resolves
<1>4. /\ table'[root[c]][va[1]] = table[root[c]][va[1]] /\ table'[p1][va[2]] = table[p1][va[2]]
      /\ table'[p2][va[3]] = table[p2][va[3]] /\ table'[p3][va[4]] = table[p3][va[4]]
  <2>1. ASSUME NEW pg \in held[c], NEW i \in Index, table[pg][i].pg # None PROVE table'[pg][i] = table[pg][i]
    BY <2>1, Zenon DEF Grows
  <2>2. /\ table[root[c]][va[1]].pg # None /\ table[p1][va[2]].pg # None
        /\ table[p2][va[3]].pg # None /\ table[p3][va[4]].pg # None
    BY <1>1, <1>2, Zenon
  <2>. QED BY <1>0, <1>3, <2>1, <2>2, Zenon
<1>5. p1 \in held'[c] /\ p2 \in held'[c] /\ p3 \in held'[c] /\ p4 \in held'[c]
  BY <1>1, Zenon DEF Grows
<1>6. /\ table'[root'[c]][va[1]].pg = p1 /\ table'[p1][va[2]].pg = p2 /\ table'[p2][va[3]].pg = p3
      /\ table'[p3][va[4]] = [pg |-> p4, flags |-> flags]
  BY <1>0, <1>1, <1>4, Zenon
<1>7. va[1] \in UserIndex
  BY <1>3, Zenon
<1>8. \E q1, q2, q3, q4 \in held'[c] :
        /\ table'[root'[c]][va[1]].pg = q1 /\ table'[q1][va[2]].pg = q2 /\ table'[q2][va[3]].pg = q3
        /\ table'[q3][va[4]] = [pg |-> q4, flags |-> flags]
  BY <1>5, <1>6, Zenon
<1>. QED BY <1>7, <1>8, Zenon DEF Resolves, UserIndex

(* What was mapped stays mapped when nothing is mapped anew. *)
LEMMA ImageKept ==
  ASSUME NEW c, OnePlace(c), held[c] \subseteq Page, Grows(c), image[c] \in Seq(UserPage),
         image'[c] = image[c], todo'[c] = todo[c], Level4(c)' = Level4(c), ImageInv(c)
  PROVE  ImageInv(c)'
<1>0. Mapped(c)' = Mapped(c)
  <2>1. Len(image'[c]) - Len(todo'[c]) = Len(image[c]) - Len(todo[c])
    BY Zenon
  <2>. QED BY <2>1, Zenon DEF Mapped
<1>1. Mapped(c)' \in Nat
  BY <1>0, Zenon DEF ImageInv
<1>2. \A n \in 1..Len(todo'[c]) : todo'[c][n] = image'[c][Mapped(c)' + n]
  BY <1>0, Zenon DEF ImageInv
<1>3. Apart(image'[c])
  BY Zenon DEF ImageInv
<1>4. ASSUME NEW n \in 1..Mapped(c) PROVE image[c][n].ok /\ Resolves(c, image[c][n].va, image[c][n].flags)'
  <2>1. image[c][n].ok /\ Resolves(c, image[c][n].va, image[c][n].flags)
    BY <1>4, Zenon DEF ImageInv
  <2>2. n \in 1..Len(image[c])
    BY SMTT(20) DEF ImageInv, Mapped
  <2>3. image[c][n].va \in [1..4 -> Index]
    BY <2>2, PageOf, Zenon
  <2>. QED BY <2>1, <2>3, ResolvesKept, Zenon
<1>5. \A e \in Level4(c)' : \E n \in 1..Mapped(c)' : image'[c][n].va = e.path
  BY <1>0, Zenon DEF ImageInv
<1>. QED BY <1>0, <1>1, <1>2, <1>3, <1>4, <1>5, Zenon DEF ImageInv

-----------------------------------------------------------------------------
(* A space whose own pages and call are left alone. *)

Same(c) ==
  /\ held'[c] = held[c] /\ root'[c] = root[c] /\ todo'[c] = todo[c] /\ leaf'[c] = leaf[c]
  /\ image'[c] = image[c] /\ done'[c] = done[c]
  /\ \A pg \in held[c] : table'[pg] = table[pg]

SpaceOK(c) == (pc[c] # "none" => OnePlace(c)) /\ CallInv(c)

(* The tree and the image of a space that is left alone. *)
LEMMA KeptSpace ==
  ASSUME SpaceTypeOK, NEW c \in Client, OnePlace(c), Same(c)
  PROVE  OnePlace(c)' /\ (ImageInv(c) => ImageInv(c)')
<1>0. /\ held'[c] = held[c] /\ root'[c] = root[c] /\ todo'[c] = todo[c] /\ leaf'[c] = leaf[c]
      /\ image'[c] = image[c] /\ done'[c] = done[c]
      /\ \A pg \in held[c] : table'[pg] = table[pg]
  BY Zenon DEF Same
<1>1. Entries(c)' = Entries(c) /\ Level4(c)' = Level4(c)
  <2>1. \A e \in Entries(c) : table'[e.pg] = table[e.pg]
    BY <1>0, HeldPages, Zenon
  <2>. QED BY <1>0, <2>1, KeptTree, Zenon
<1>2. OnePlace(c)'
  BY <1>0, <1>1, Zenon DEF OnePlace
<1>3. Grows(c)
  BY <1>0, Zenon DEF Grows
<1>4. held[c] \subseteq Page /\ image[c] \in Seq(UserPage)
  BY Zenon DEF SpaceTypeOK, PmmTypeOK
<1>. QED BY <1>0, <1>1, <1>2, <1>3, <1>4, ImageKept, Zenon

(* A space that is left alone, with its call, stays sound. *)
LEMMA KeptCall ==
  ASSUME SpaceTypeOK, NEW c \in Client, SpaceOK(c), Same(c), pc'[c] = pc[c]
  PROVE  SpaceOK(c)'
<1>0. /\ held'[c] = held[c] /\ root'[c] = root[c] /\ todo'[c] = todo[c] /\ leaf'[c] = leaf[c]
      /\ image'[c] = image[c] /\ done'[c] = done[c]
      /\ \A pg \in held[c] : table'[pg] = table[pg]
  BY Zenon DEF Same
<1>1. CASE pc[c] = "none"
  <2>1. leaf[c] = None
    <3>1. "none" # "load"
      OBVIOUS
    <3>. QED BY <1>1, <3>1, Zenon DEF SpaceOK, CallInv
  <2>2. "none" \notin {"ready", "destroy"} /\ "none" \notin {"load", "ready"} /\ "none" # "destroy"
    OBVIOUS
  <2>. QED BY <1>0, <1>1, <2>1, <2>2, Zenon DEF SpaceOK, CallInv
<1>2. CASE pc[c] # "none"
  <2>1. OnePlace(c) /\ OnePlace(c)' /\ (ImageInv(c) => ImageInv(c)')
    BY <1>2, KeptSpace, Zenon DEF SpaceOK
  <2>2. leaf[c] # None => leaf[c] \in held[c]
    BY <2>1, Zenon DEF OnePlace
  <2>3. leaf[c] # None => table'[leaf'[c]] = table[leaf[c]]
    BY <1>0, <2>2, Zenon
  <2>4. /\ pc'[c] = "none" => held'[c] = {}
        /\ pc'[c] # "none" => root'[c] \in Page
        /\ pc'[c] # "destroy" => done'[c] = {}
        /\ pc'[c] \in {"ready", "destroy"} => todo'[c] = <<>>
    BY <1>0, Zenon DEF SpaceOK, CallInv
  <2>5. leaf'[c] # None => pc'[c] = "load" /\ todo'[c] # <<>> /\ Head(todo'[c]).ok /\ table'[leaf'[c]] = ZeroTable
    BY <1>0, <2>3, Zenon DEF SpaceOK, CallInv
  <2>6. pc'[c] \in {"load", "ready"} => ImageInv(c)'
    BY <2>1, Zenon DEF SpaceOK, CallInv
  <2>. QED BY <2>1, <2>4, <2>5, <2>6, Zenon DEF SpaceOK, CallInv, ZeroTable, Nothing
<1>. QED BY <1>1, <1>2, Zenon

-----------------------------------------------------------------------------
(* The steps.  What they write into the tables. *)

Entry == [pg : Page \cup {None}, flags : Int]

(* What is written into a whole page. *)
LEMMA TableTypes ==
  /\ ZeroTable \in [Index -> Entry] /\ Junk \in [Index -> Entry]
  /\ \A pg : SpaceTable(pg) \in [Index -> Entry]
<1>1. Nothing \in Entry
  BY NothingIs, Zenon DEF Entry
<1>2. [pg |-> KernelTable, flags |-> 0] \in Entry
  <2>1. KernelTable \in Page \cup {None} /\ 0 \in Int
    BY SpaceConstants, SMTT(20)
  <2>. QED BY <2>1, SMTT(20) DEF Entry
<1>3. ZeroTable \in [Index -> Entry]
  BY <1>1, Zenon DEF ZeroTable
<1>4. Junk \in [Index -> Entry]
  BY <1>2, Zenon DEF Junk
<1>5. ASSUME NEW pg PROVE SpaceTable(pg) \in [Index -> Entry]
  BY <1>1, <1>2, Zenon DEF SpaceTable
<1>. QED BY <1>3, <1>4, <1>5, Zenon

Typed ==
  /\ table \in [Page -> [Index -> Entry]] /\ pc \in [Client -> {"none", "load", "ready", "destroy"}]
  /\ root \in [Client -> Page \cup {None}] /\ leaf \in [Client -> Page \cup {None}]
  /\ todo \in [Client -> Seq(UserPage)] /\ image \in [Client -> Seq(UserPage)]
  /\ done \in [Client -> SUBSET Seq(Index)] /\ lost \subseteq Page
  /\ held \in [Client -> SUBSET Page]

(* The types of the variables the steps change. *)
LEMMA TypesAre == ASSUME SpaceTypeOK PROVE Typed
BY Zenon DEF SpaceTypeOK, PmmTypeOK, Entry, Typed

(* A step on the pages of one client and a free page leaves the others alone. *)
LEMMA OthersKept ==
  ASSUME SpaceTypeOK, OneHolder, NEW c \in Client, NEW d \in Client, d # c, NEW pg, pg \notin used,
         held'[d] = held[d], root'[d] = root[d], todo'[d] = todo[d], leaf'[d] = leaf[d],
         image'[d] = image[d], done'[d] = done[d],
         \A q \in Page : q # pg /\ q \notin held[c] => table'[q] = table[q]
  PROVE  Same(d)
<1>1. ASSUME NEW q \in held[d] PROVE table'[q] = table[q]
  <2>1. q \in used /\ q \notin held[c]
    BY <1>1, Zenon DEF OneHolder
  <2>2. q \in Page
    BY <1>1, Zenon DEF SpaceTypeOK, PmmTypeOK
  <2>. QED BY <2>1, <2>2, Zenon
<1>. QED BY <1>1, Zenon DEF Same

(* pmm_init. *)
LEMMA BootStep ==
  ASSUME SpaceTypeOK, \A d \in Client : SpaceOK(d), Boot, PmmTypeOK'
  PROVE  SpaceTypeOK' /\ \A d \in Client : SpaceOK(d)'
<1>1. /\ table' = table /\ pc' = pc /\ root' = root /\ todo' = todo /\ leaf' = leaf
      /\ image' = image /\ done' = done /\ lost' = lost
  BY Zenon DEF Boot, spaceVars
<1>2. held' = held
  BY Zenon DEF Boot, InitFree, InitUsed
<1>3. SpaceTypeOK'
  BY <1>1, Zenon DEF SpaceTypeOK, None
<1>4. ASSUME NEW d \in Client PROVE SpaceOK(d)'
  <2>1. Same(d) /\ pc'[d] = pc[d]
    BY <1>1, <1>2, Zenon DEF Same
  <2>. QED BY <2>1, KeptCall, Zenon
<1>. QED BY <1>3, <1>4, Zenon

(* elf_load starts with a new root. *)
LEMMA ElfLoadStep ==
  ASSUME SpaceTypeOK, OneHolder, \A d \in Client : SpaceOK(d), PmmTypeOK',
         NEW c \in Client, NEW im \in Images, ElfLoad(c, im)
  PROVE  SpaceTypeOK' /\ \A d \in Client : SpaceOK(d)'
<1>0. PICK pg \in Page : /\ PmmAlloc(c, pg) /\ root' = [root EXCEPT ![c] = pg]
                         /\ table' = [table EXCEPT ![pg] = SpaceTable(pg)]
  BY Zenon DEF ElfLoad
<1>1. /\ pc[c] = "none" /\ pc' = [pc EXCEPT ![c] = "load"]
      /\ todo' = [todo EXCEPT ![c] = im \o Stack] /\ image' = [image EXCEPT ![c] = im \o Stack]
      /\ leaf' = leaf /\ done' = done /\ lost' = lost
  BY Zenon DEF ElfLoad
<1>2. pg \notin used /\ held' = [held EXCEPT ![c] = @ \cup {pg}]
  BY <1>0, Zenon DEF PmmAlloc, IsFirstFree
<1>3. im \o Stack \in Seq(UserPage) /\ Apart(im \o Stack) /\ Len(im \o Stack) \in Nat
  <2>1. im \in Seq(UserPage) /\ Stack \in Seq(UserPage) /\ Apart(im \o Stack)
    BY SpaceConstants, Zenon
  <2>2. im \o Stack \in Seq(UserPage) /\ Len(im \o Stack) \in Nat
    BY <2>1, SMTT(20)
  <2>. QED BY <2>1, <2>2, Zenon
<1>t. /\ table \in [Page -> [Index -> Entry]] /\ pc \in [Client -> {"none", "load", "ready", "destroy"}]
      /\ root \in [Client -> Page \cup {None}] /\ leaf \in [Client -> Page \cup {None}]
      /\ todo \in [Client -> Seq(UserPage)] /\ image \in [Client -> Seq(UserPage)]
      /\ done \in [Client -> SUBSET Seq(Index)] /\ lost \subseteq Page
      /\ held \in [Client -> SUBSET Page]
  BY TypesAre, Zenon DEF Typed
<1>4. SpaceTypeOK'
  <2>1. table' \in [Page -> [Index -> Entry]]
    BY <1>0, <1>t, TableTypes, Zenon
  <2>2. pc' \in [Client -> {"none", "load", "ready", "destroy"}] /\ root' \in [Client -> Page \cup {None}]
    BY <1>0, <1>1, <1>t, Zenon
  <2>3. todo' \in [Client -> Seq(UserPage)] /\ image' \in [Client -> Seq(UserPage)]
    BY <1>1, <1>3, <1>t, Zenon
  <2>. QED BY <1>1, <1>t, <2>1, <2>2, <2>3, Zenon DEF SpaceTypeOK, Entry, None
<1>5. ASSUME NEW d \in Client, d # c PROVE SpaceOK(d)'
  <2>1. held'[d] = held[d] /\ root'[d] = root[d] /\ todo'[d] = todo[d] /\ image'[d] = image[d] /\ pc'[d] = pc[d]
    BY <1>0, <1>1, <1>2, <1>5, <1>t, Zenon
  <2>2. \A q \in Page : q # pg /\ q \notin held[c] => table'[q] = table[q]
    BY <1>0, <1>t, Zenon
  <2>3. leaf'[d] = leaf[d] /\ done'[d] = done[d]
    BY <1>1, Zenon
  <2>4. Same(d)
    BY <1>2, <1>5, <2>1, <2>2, <2>3, OthersKept, Zenon
  <2>. QED BY <2>1, <2>4, KeptCall, Zenon
<1>6. SpaceOK(c)'
  <2>1. /\ held'[c] = held[c] \cup {pg} /\ root'[c] = pg /\ todo'[c] = im \o Stack /\ image'[c] = im \o Stack
        /\ pc'[c] = "load" /\ table'[pg] = SpaceTable(pg)
    BY <1>0, <1>1, <1>2, <1>t, Zenon
  <2>2. held[c] = {} /\ leaf[c] = None /\ done[c] = {}
    <3>1. "none" # "load" /\ "none" # "destroy"
      OBVIOUS
    <3>. QED BY <1>1, <3>1, Zenon DEF SpaceOK, CallInv
  <2>. DEFINE r == Place(<<>>, pg)
  <2>3. r.pg = pg /\ r.path = <<>> /\ r = Place(<<>>, root'[c])
    <3>1. r.pg = pg /\ r.path = <<>>
      BY ONLY PlaceIs, Zenon
    <3>2. root'[c] = pg
      BY <2>1, Zenon
    <3>3. r = Place(<<>>, root'[c])
      BY ONLY <3>2, Zenon
    <3>. QED BY ONLY <3>1, <3>3, Zenon
  <2>. HIDE DEF r
  <2>4. Under(c, r)' = {}
    BY <2>1, <2>3, UnderNewSpace, Zenon
  <2>5. Entries(c)' = {r} /\ Level4(c)' = {}
    BY <2>3, <2>4, LoneRoot, Zenon
  <2>6. held'[c] = {pg} /\ leaf'[c] = None /\ done'[c] = {}
    BY <1>1, <2>1, <2>2, Zenon
  <2>7. OnePlace(c)'
    <3>1. held'[c] = {e.pg : e \in Entries(c)'} \cup ({leaf'[c]} \ {None})
      BY <2>3, <2>5, <2>6, ZenonT(40)
    <3>2. \A e, f \in Entries(c)' : e.pg = f.pg => e = f
      BY <2>5, Zenon
    <3>3. \A e \in Entries(c)' : e.pg # leaf'[c]
      BY <2>3, <2>5, <2>6, NoneIsNoPage, Zenon
    <3>. QED BY <3>1, <3>2, <3>3, Zenon DEF OnePlace, None
  <2>8. ImageInv(c)'
    <3>1. Mapped(c)' = 0
      <4>1. Len(image'[c]) - Len(todo'[c]) = 0
        BY <1>3, <2>1, SMTT(20)
      <4>. QED BY <4>1, Zenon DEF Mapped
    <3>2. \A n \in 1..Len(todo'[c]) : 0 + n = n
      BY SMTT(20)
    <3>3. 0 \in Nat /\ \A n : n \notin 1..0
      BY SMTT(20)
    <3>4. \A n \in 1..Len(todo'[c]) : todo'[c][n] = image'[c][Mapped(c)' + n]
      BY <2>1, <3>1, <3>2, Zenon
    <3>5. Mapped(c)' \in Nat /\ Apart(image'[c]) /\ 1..Mapped(c)' = {}
      BY <1>3, <2>1, <3>1, <3>3, Zenon
    <3>. QED BY <2>5, <3>4, <3>5, Zenon DEF ImageInv
  <2>9. CallInv(c)'
    <3>1. "load" # "none" /\ "load" \notin {"ready", "destroy"}
      OBVIOUS
    <3>. QED BY <2>1, <2>6, <2>8, <3>1, Zenon DEF CallInv, None
  <2>. QED BY <2>7, <2>9, Zenon DEF SpaceOK
<1>. QED BY <1>4, <1>5, <1>6, Zenon

(* elf_load allocates a page. *)
LEMMA LoadLeafStep ==
  ASSUME SpaceTypeOK, OneHolder, \A d \in Client : SpaceOK(d), PmmTypeOK', NEW c \in Client, LoadLeaf(c)
  PROVE  SpaceTypeOK' /\ \A d \in Client : SpaceOK(d)'
<1>0. PICK pg \in Page : /\ PmmAlloc(c, pg) /\ leaf' = [leaf EXCEPT ![c] = pg]
                         /\ table' = [table EXCEPT ![pg] = ZeroTable]
  BY Zenon DEF LoadLeaf
<1>1. /\ pc[c] = "load" /\ todo[c] # <<>> /\ leaf[c] = None /\ Head(todo[c]).ok
      /\ pc' = pc /\ root' = root /\ todo' = todo /\ image' = image /\ done' = done /\ lost' = lost
  BY Zenon DEF LoadLeaf, Loading
<1>2. pg \notin used /\ held' = [held EXCEPT ![c] = @ \cup {pg}]
  BY <1>0, Zenon DEF PmmAlloc, IsFirstFree
<1>t. /\ table \in [Page -> [Index -> Entry]] /\ leaf \in [Client -> Page \cup {None}]
      /\ image \in [Client -> Seq(UserPage)] /\ held \in [Client -> SUBSET Page]
  BY TypesAre, Zenon DEF Typed
<1>4. SpaceTypeOK'
  <2>1. table' \in [Page -> [Index -> Entry]]
    BY <1>0, <1>t, TableTypes, Zenon
  <2>2. leaf' \in [Client -> Page \cup {None}]
    BY <1>0, <1>t, Zenon
  <2>. QED BY <1>1, <2>1, <2>2, Zenon DEF SpaceTypeOK, Entry, None
<1>5. ASSUME NEW d \in Client, d # c PROVE SpaceOK(d)'
  <2>1. held'[d] = held[d] /\ leaf'[d] = leaf[d]
    BY <1>0, <1>2, <1>5, <1>t, Zenon
  <2>2. \A q \in Page : q # pg /\ q \notin held[c] => table'[q] = table[q]
    BY <1>0, <1>t, Zenon
  <2>3. root'[d] = root[d] /\ todo'[d] = todo[d] /\ image'[d] = image[d] /\ pc'[d] = pc[d] /\ done'[d] = done[d]
    BY <1>1, Zenon
  <2>4. Same(d)
    BY <1>2, <1>5, <2>1, <2>2, <2>3, OthersKept, Zenon
  <2>. QED BY <2>3, <2>4, KeptCall, Zenon
<1>6. SpaceOK(c)'
  <2>1. held'[c] = held[c] \cup {pg} /\ leaf'[c] = pg /\ table'[pg] = ZeroTable
    BY <1>0, <1>2, <1>t, Zenon
  <2>2. OnePlace(c) /\ CallInv(c) /\ ImageInv(c) /\ done[c] = {} /\ root[c] \in Page
    <3>1. "load" # "none" /\ "load" # "destroy" /\ "load" \in {"load", "ready"}
      OBVIOUS
    <3>2. OnePlace(c) /\ CallInv(c)
      BY <1>1, <3>1, Zenon DEF SpaceOK
    <3>. QED BY <1>1, <3>1, <3>2, Zenon DEF CallInv
  <2>3. \A q \in held[c] : q # pg /\ q \in Page
    BY <1>2, <1>t, Zenon DEF OneHolder
  <2>4. \A q \in held[c] : table'[q] = table[q]
    BY <1>0, <1>t, <2>3, Zenon
  <2>5. Entries(c)' = Entries(c) /\ Level4(c)' = Level4(c)
    <3>1. \A e \in Entries(c) : table'[e.pg] = table[e.pg]
      BY <2>2, <2>4, HeldPages, Zenon
    <3>. QED BY <1>1, <2>2, <3>1, KeptTree, Zenon
  <2>6. OnePlace(c)'
    <3>1. held[c] = {e.pg : e \in Entries(c)}
      BY <1>1, <2>2, Zenon DEF OnePlace
    <3>2. held'[c] = {e.pg : e \in Entries(c)'} \cup ({leaf'[c]} \ {None})
      <4>1. {leaf'[c]} \ {None} = {pg}
        BY <2>1, NoneIsNoPage, Zenon
      <4>2. held'[c] = {e.pg : e \in Entries(c)'} \cup {pg}
        BY <2>1, <2>5, <3>1, Zenon
      <4>. QED BY <4>1, <4>2, Zenon
    <3>3. \A e, f \in Entries(c)' : e.pg = f.pg => e = f
      <4>1. \A e, f \in Entries(c) : e.pg = f.pg => e = f
        BY <2>2, Zenon DEF OnePlace
      <4>. QED BY <2>5, <4>1, Zenon
    <3>4. \A e \in Entries(c)' : e.pg # leaf'[c]
      BY <2>1, <2>2, <2>3, <2>5, HeldPages, Zenon
    <3>. QED BY <3>2, <3>3, <3>4, Zenon DEF OnePlace, None
  <2>7. ImageInv(c)'
    <3>1. Grows(c)
      BY <1>1, <2>1, <2>4, Zenon DEF Grows
    <3>2. held[c] \subseteq Page /\ image[c] \in Seq(UserPage)
      BY <1>t, Zenon
    <3>3. image'[c] = image[c] /\ todo'[c] = todo[c]
      BY <1>1, Zenon
    <3>. QED BY <2>2, <2>5, <3>1, <3>2, <3>3, ImageKept, Zenon
  <2>8. CallInv(c)'
    <3>1. "load" # "none" /\ "load" \notin {"ready", "destroy"}
      OBVIOUS
    <3>2. pc'[c] = "load" /\ root'[c] \in Page /\ done'[c] = {} /\ todo'[c] # <<>> /\ Head(todo'[c]).ok
      BY <1>1, <2>2, Zenon
    <3>3. table'[leaf'[c]] = ZeroTable'
      BY <2>1, Zenon DEF ZeroTable, Nothing, None
    <3>. QED BY <2>7, <3>1, <3>2, <3>3, Zenon DEF CallInv
  <2>. QED BY <2>6, <2>8, Zenon DEF SpaceOK
<1>. QED BY <1>4, <1>5, <1>6, Zenon

(* Pages stay at one place each when a new one gets its place. *)
LEMMA GrownPlace ==
  ASSUME NEW c, OnePlace(c), NEW new, Entries(c)' = Entries(c) \cup {new}, \A e \in Entries(c) : e.pg # new.pg,
         held'[c] = {e.pg : e \in Entries(c)} \cup {new.pg} \cup ({leaf'[c]} \ {None}),
         new.pg # leaf'[c], \A e \in Entries(c) : e.pg # leaf'[c]
  PROVE  OnePlace(c)'
<1>1. {e.pg : e \in Entries(c)'} = {e.pg : e \in Entries(c)} \cup {new.pg}
  <2>1. ASSUME NEW x PROVE x \in {e.pg : e \in Entries(c)'} <=> x \in {e.pg : e \in Entries(c)} \cup {new.pg}
    <3>1. ASSUME NEW e \in Entries(c)', x = e.pg PROVE x \in {y.pg : y \in Entries(c)} \cup {new.pg}
      <4>1. CASE e = new
        BY <3>1, <4>1, Zenon
      <4>2. CASE e \in Entries(c)
        BY <3>1, <4>2, Zenon
      <4>. QED BY <3>1, <4>1, <4>2, Zenon
    <3>2. ASSUME NEW e \in Entries(c), x = e.pg PROVE x \in {y.pg : y \in Entries(c)'}
      BY <3>2, Zenon
    <3>3. ASSUME x = new.pg PROVE x \in {y.pg : y \in Entries(c)'}
      BY <3>3, Zenon
    <3>. QED BY <3>1, <3>2, <3>3, Zenon
  <2>. QED BY <2>1, Zenon
<1>2. held'[c] = {e.pg : e \in Entries(c)'} \cup ({leaf'[c]} \ {None})
  BY <1>1, Zenon
<1>3. ASSUME NEW e \in Entries(c)', NEW f \in Entries(c)', e.pg = f.pg PROVE e = f
  <2>1. \A x, y \in Entries(c) : x.pg = y.pg => x = y
    BY Zenon DEF OnePlace
  <2>2. (e = new \/ e \in Entries(c)) /\ (f = new \/ f \in Entries(c))
    BY <1>3, Zenon
  <2>. QED BY <1>3, <2>1, <2>2, Zenon
<1>4. \A e \in Entries(c)' : e.pg # leaf'[c]
  BY Zenon
<1>. QED BY <1>2, <1>3, <1>4, Zenon DEF OnePlace, None

(* An entry made where there was none grows the space. *)
LEMMA LinksGrows ==
  ASSUME SpaceTypeOK, NEW c, OnePlace(c), NEW d, d.pg \in Page, NEW i, NEW pg, NEW f, Links(d, i, pg, f),
         root'[c] = root[c], held[c] \subseteq held'[c],
         \A q \in held[c] : q # d.pg => table'[q] = table[q]
  PROVE  Grows(c)
<1>1. /\ i \in WalkIndex(d.path) /\ table[d.pg][i].pg = None
      /\ table'[d.pg] = [table[d.pg] EXCEPT ![i] = [pg |-> pg, flags |-> f]]
  BY Zenon DEF Links
<1>2. table[d.pg] \in [Index -> Entry]
  BY TypesAre, Zenon DEF Typed
<1>3. ASSUME NEW q \in held[c], NEW j \in Index, table[q][j].pg # None PROVE table'[q][j] = table[q][j]
  <2>1. CASE q # d.pg
    BY <2>1, Zenon
  <2>2. CASE q = d.pg
    <3>1. j # i
      BY <1>1, <1>3, <2>2, Zenon
    <3>. QED BY <1>1, <1>2, <2>2, <3>1, Zenon
  <2>. QED BY <2>1, <2>2, Zenon
<1>. QED BY <1>3, Zenon DEF Grows

(* The page to map next. *)
LEMMA NextVa ==
  ASSUME SpaceTypeOK, NEW c \in Client, todo[c] # <<>>
  PROVE  /\ Len(todo[c]) \in Nat /\ 1 \in 1..Len(todo[c]) /\ todo[c] \in Seq(UserPage)
         /\ Head(todo[c]) = todo[c][1] /\ Va(c) \in [1..4 -> Index]
         /\ Head(todo[c]).flags \in Nat
<1>1. todo[c] \in Seq(UserPage)
  BY TypesAre, Zenon DEF Typed
<1>2. Len(todo[c]) \in Nat /\ 1 \in 1..Len(todo[c]) /\ Head(todo[c]) = todo[c][1]
  BY <1>1, SMTT(20)
<1>. QED BY <1>1, <1>2, PageOf, Zenon DEF Va

(* A page cleared and an entry of another written. *)
LEMMA TwoWrites ==
  ASSUME NEW F \in [Page -> [Index -> Entry]], NEW pg \in Page, NEW t \in Page, t # pg, NEW i \in Index,
         NEW v \in Entry, NEW Z \in [Index -> Entry], NEW G, G = [F EXCEPT ![pg] = Z, ![t][i] = v]
  PROVE  /\ G[pg] = Z /\ G[t] = [F[t] EXCEPT ![i] = v] /\ \A q \in Page : q # pg /\ q # t => G[q] = F[q]
         /\ G \in [Page -> [Index -> Entry]]
<1>. DEFINE H == [F EXCEPT ![pg] = Z]
<1>1. H \in [Page -> [Index -> Entry]] /\ H[pg] = Z /\ \A q \in Page : q # pg => H[q] = F[q]
  BY Zenon
<1>2. G = [H EXCEPT ![t][i] = v]
  BY Zenon
<1>. HIDE DEF H
<1>3. G = [H EXCEPT ![t] = [H[t] EXCEPT ![i] = v]]
  BY <1>2, Zenon
<1>4. [H[t] EXCEPT ![i] = v] \in [Index -> Entry]
  <2>1. H[t] \in [Index -> Entry]
    BY <1>1, Zenon
  <2>. QED BY <2>1, Zenon
<1>5. G \in [Page -> [Index -> Entry]]
  BY <1>1, <1>3, <1>4, Zenon
<1>6. G[t] = [H[t] EXCEPT ![i] = v] /\ \A q \in Page : q # t => G[q] = H[q]
  BY <1>1, <1>3, Zenon
<1>. QED BY <1>1, <1>5, <1>6, Zenon

(* ensure_table_in. *)
LEMMA LoadTableStep ==
  ASSUME SpaceTypeOK, OneHolder, \A d \in Client : SpaceOK(d), PmmTypeOK', NEW c \in Client, LoadTable(c)
  PROVE  SpaceTypeOK' /\ \A d \in Client : SpaceOK(d)'
<1>. DEFINE t == MissingAt(c)[1]
            i == MissingAt(c)[2]
<1>0. PICK pg \in Page :
         PmmAlloc(c, pg) /\ table' = [table EXCEPT ![pg] = Fresh(pg), ![t][i] = [pg |-> pg, flags |-> 0]]
  BY Zenon DEF LoadTable
<1>1. /\ pc[c] = "load" /\ todo[c] # <<>> /\ leaf[c] # None /\ Va(c)[1] \notin KernelIndex /\ Pt(c) = None
      /\ pc' = pc /\ root' = root /\ todo' = todo /\ leaf' = leaf /\ image' = image /\ done' = done /\ lost' = lost
  BY Zenon DEF LoadTable, Mappable, Loading
<1>2. pg \notin used /\ held' = [held EXCEPT ![c] = @ \cup {pg}]
  BY <1>0, Zenon DEF PmmAlloc, IsFirstFree
<1>t. /\ table \in [Page -> [Index -> Entry]] /\ leaf \in [Client -> Page \cup {None}]
      /\ image \in [Client -> Seq(UserPage)] /\ held \in [Client -> SUBSET Page]
  BY TypesAre, Zenon DEF Typed
<1>3. OnePlace(c) /\ CallInv(c) /\ ImageInv(c) /\ done[c] = {} /\ root[c] \in Page
  <2>1. "load" # "none" /\ "load" # "destroy" /\ "load" \in {"load", "ready"}
    OBVIOUS
  <2>2. OnePlace(c) /\ CallInv(c)
    BY <1>1, <2>1, Zenon DEF SpaceOK
  <2>. QED BY <1>1, <2>1, <2>2, Zenon DEF CallInv
<1>4. Va(c) \in [1..4 -> Index] /\ Va(c)[1] \in UserIndex
  BY <1>1, NextVa, PathIs, Zenon DEF UserIndex
<1>5. PICK d \in Tables(c) : d.pg = t /\ d \notin Level3(c) /\ i \in WalkIndex(d.path) /\ table[d.pg][i].pg = None
  BY <1>1, <1>3, <1>4, Missing, Zenon
<1>6. /\ d \in Entries(c) /\ t \in held[c] /\ t # leaf[c] /\ t \in Page /\ i \in Index /\ t # pg
      /\ \A q \in held[c] : q # pg /\ q \in Page
  <2>1. d \in Entries(c)
    BY TablesIn, Zenon
  <2>2. t \in held[c] /\ t # leaf[c]
    BY <1>3, <1>5, <2>1, HeldPages, Zenon
  <2>3. \A q \in held[c] : q # pg /\ q \in Page
    BY <1>2, <1>t, Zenon DEF OneHolder
  <2>4. i \in Index
    BY <1>5, Zenon DEF WalkIndex, UserIndex
  <2>. QED BY <2>1, <2>2, <2>3, <2>4, Zenon
<1>. HIDE DEF t, i
<1>7. /\ table'[pg] = ZeroTable /\ table'[t] = [table[t] EXCEPT ![i] = [pg |-> pg, flags |-> 0]]
      /\ \A q \in Page : q # pg /\ q # t => table'[q] = table[q]
      /\ table' \in [Page -> [Index -> Entry]]
  <2>1. [pg |-> pg, flags |-> 0] \in Entry
    BY SMTT(20) DEF Entry
  <2>2. table' = [table EXCEPT ![pg] = ZeroTable, ![t][i] = [pg |-> pg, flags |-> 0]]
    BY <1>0, Zenon DEF Fresh
  <2>3. table \in [Page -> [Index -> Entry]] /\ ZeroTable \in [Index -> Entry] /\ t # pg /\ t \in Page /\ i \in Index /\ pg \in Page
    BY <1>t, <1>6, TableTypes, Zenon
  <2>. QED BY ONLY <2>1, <2>2, <2>3, TwoWrites, SMTT(20)
<1>8. SpaceTypeOK'
  BY <1>1, <1>7, Zenon DEF SpaceTypeOK, Entry, None
<1>9. ASSUME NEW b \in Client, b # c PROVE SpaceOK(b)'
  <2>1. held'[b] = held[b]
    BY <1>2, <1>9, <1>t, Zenon
  <2>2. \A q \in Page : q # pg /\ q \notin held[c] => table'[q] = table[q]
    BY <1>6, <1>7, Zenon
  <2>3. /\ root'[b] = root[b] /\ todo'[b] = todo[b] /\ image'[b] = image[b] /\ pc'[b] = pc[b]
        /\ done'[b] = done[b] /\ leaf'[b] = leaf[b]
    BY <1>1, Zenon
  <2>4. Same(b)
    BY <1>2, <1>9, <2>1, <2>2, <2>3, OthersKept, Zenon
  <2>. QED BY <2>3, <2>4, KeptCall, Zenon
<1>10. SpaceOK(c)'
  <2>. DEFINE new == Place(Append(d.path, i), pg)
  <2>1. Links(d, i, pg, 0)
    BY <1>5, <1>7, Zenon DEF Links
  <2>2. held'[c] = held[c] \cup {pg} /\ root'[c] = root[c] /\ leaf'[c] = leaf[c] /\ done'[c] = done[c]
    BY <1>1, <1>2, <1>t, Zenon
  <2>3. \A e \in Entries(c) : e.pg # d.pg => table'[e.pg] = table[e.pg]
    BY <1>3, <1>5, <1>6, <1>7, HeldPages, Zenon
  <2>4. Entries(c)' = Entries(c) \cup {new} /\ GrownBy(Level4(c)', Level4(c), new, d, Level3(c))
    <3>1. LinksOne(c, d, i, pg, 0)
      BY <1>3, <1>7, <2>1, <2>2, <2>3, Zenon DEF LinksOne
    <3>. QED BY <3>1, AddPlace, Zenon
  <2>5. new.pg = pg
    BY PlaceIs, Zenon
  <2>. HIDE DEF new
  <2>6. Level4(c)' = Level4(c)
    BY <1>5, <2>4, Zenon DEF GrownBy
  <2>7. leaf[c] \in held[c]
    BY <1>1, <1>3, Zenon DEF OnePlace
  <2>8. OnePlace(c)'
    <3>1. \A e \in Entries(c) : e.pg # new.pg /\ e.pg # leaf'[c]
      BY <1>3, <1>6, <2>2, <2>5, HeldPages, Zenon
    <3>2. new.pg # leaf'[c]
      BY <1>6, <2>2, <2>5, <2>7, Zenon
    <3>3. held[c] = {e.pg : e \in Entries(c)} \cup ({leaf[c]} \ {None})
      BY <1>3, Zenon DEF OnePlace
    <3>4. held'[c] = {e.pg : e \in Entries(c)} \cup {new.pg} \cup ({leaf'[c]} \ {None})
      BY <2>2, <2>5, <3>3, Zenon
    <3>. QED BY <1>3, <2>4, <3>1, <3>2, <3>4, GrownPlace, Zenon
  <2>9. ImageInv(c)'
    <3>1. Grows(c)
      <4>1. d.pg \in Page /\ held[c] \subseteq held'[c] /\ \A q \in held[c] : q # d.pg => table'[q] = table[q]
        BY <1>5, <1>6, <1>7, <2>2, Zenon
      <4>2. OnePlace(c) /\ SpaceTypeOK /\ Links(d, i, pg, 0) /\ root'[c] = root[c]
        BY <1>3, <2>1, <2>2, Zenon
      <4>. QED BY ONLY <4>1, <4>2, LinksGrows, SMTT(20)
    <3>2. held[c] \subseteq Page /\ image[c] \in Seq(UserPage)
      BY <1>t, Zenon
    <3>3. image'[c] = image[c] /\ todo'[c] = todo[c]
      BY <1>1, Zenon
    <3>. QED BY <1>3, <2>6, <3>1, <3>2, <3>3, ImageKept, Zenon
  <2>10. CallInv(c)'
    <3>1. "load" # "none" /\ "load" \notin {"ready", "destroy"}
      OBVIOUS
    <3>2. pc'[c] = "load" /\ root'[c] \in Page /\ done'[c] = {} /\ todo'[c] # <<>> /\ Head(todo'[c]).ok
      BY <1>1, <1>3, Zenon DEF CallInv
    <3>3. table'[leaf'[c]] = ZeroTable'
      <4>1. table[leaf[c]] = ZeroTable
        BY <1>1, <1>3, Zenon DEF CallInv
      <4>2. table'[leaf[c]] = table[leaf[c]]
        BY <1>6, <1>7, <2>7, Zenon
      <4>. QED BY <2>2, <4>1, <4>2, Zenon DEF ZeroTable, Nothing, None
    <3>. QED BY <2>9, <3>1, <3>2, <3>3, Zenon DEF CallInv
  <2>. QED BY <2>8, <2>10, Zenon DEF SpaceOK
<1>. QED BY <1>8, <1>9, <1>10, Zenon

(* The pages s are what is left of the image im after its first m. *)
IsRest(s, im, m) ==
  /\ s \in Seq(UserPage) /\ im \in Seq(UserPage) /\ m \in Nat /\ Len(im) - Len(s) = m
  /\ \A n \in 1..Len(s) : s[n] = im[m + n]

(* The page mapped next follows those that are mapped. *)
LEMMA TailOfImage ==
  ASSUME NEW s, NEW im, NEW m, s # <<>>, IsRest(s, im, m)
  PROVE  m + 1 \in 1..Len(im) /\ Head(s) = im[m + 1] /\ IsRest(Tail(s), im, m + 1)
<1>0. /\ s \in Seq(UserPage) /\ im \in Seq(UserPage) /\ m \in Nat /\ Len(im) - Len(s) = m
      /\ \A n \in 1..Len(s) : s[n] = im[m + n]
  BY Zenon DEF IsRest
<1>1. Len(s) \in Nat /\ Len(im) \in Nat /\ 1 \in 1..Len(s) /\ Head(s) = s[1]
  BY <1>0, SMTT(20)
<1>2. Tail(s) \in Seq(UserPage) /\ Len(Tail(s)) = Len(s) - 1
  BY <1>0, SMTT(20)
<1>3. m + 1 \in 1..Len(im) /\ m + 1 \in Nat /\ Len(im) - Len(Tail(s)) = m + 1
  BY <1>0, <1>1, <1>2, SMTT(20)
<1>4. ASSUME NEW n \in 1..Len(Tail(s)) PROVE Tail(s)[n] = im[m + 1 + n]
  <2>1. n + 1 \in 1..Len(s) /\ m + (n + 1) = m + 1 + n
    BY <1>0, <1>1, <1>2, SMTT(20)
  <2>2. Tail(s)[n] = s[n + 1]
    BY <1>0, <1>2, SMTT(20)
  <2>3. s[n + 1] = im[m + (n + 1)]
    BY <1>0, <2>1, Zenon
  <2>. QED BY <2>1, <2>2, <2>3, Zenon
<1>5. IsRest(Tail(s), im, m + 1)
  BY <1>0, <1>2, <1>3, <1>4, Zenon DEF IsRest
<1>. QED BY <1>0, <1>1, <1>3, <1>5, Zenon

(* The same of the image of a client. *)
LEMMA NextOfImage ==
  ASSUME SpaceTypeOK, NEW c \in Client, todo[c] # <<>>, ImageInv(c)
  PROVE  /\ Mapped(c) + 1 \in 1..Len(image[c]) /\ Head(todo[c]) = image[c][Mapped(c) + 1]
         /\ Tail(todo[c]) \in Seq(UserPage) /\ Len(image[c]) - Len(Tail(todo[c])) = Mapped(c) + 1
         /\ \A n \in 1..Len(Tail(todo[c])) : Tail(todo[c])[n] = image[c][Mapped(c) + 1 + n]
<1>1. todo[c] \in Seq(UserPage) /\ image[c] \in Seq(UserPage)
  BY TypesAre, Zenon DEF Typed
<1>2. Mapped(c) \in Nat /\ Len(image[c]) - Len(todo[c]) = Mapped(c)
  BY Zenon DEF ImageInv, Mapped
<1>3. \A n \in 1..Len(todo[c]) : todo[c][n] = image[c][Mapped(c) + n]
  BY Zenon DEF ImageInv
<1>4. IsRest(todo[c], image[c], Mapped(c))
  BY <1>1, <1>2, <1>3, Zenon DEF IsRest
<1>5. /\ Mapped(c) + 1 \in 1..Len(image[c]) /\ Head(todo[c]) = image[c][Mapped(c) + 1]
      /\ IsRest(Tail(todo[c]), image[c], Mapped(c) + 1)
  BY <1>4, TailOfImage, Zenon
<1>. QED BY <1>5, Zenon DEF IsRest

(* Nothing is mapped yet where vmm_space_map writes: no two pages of an image have
   one address. *)
LEMMA TargetClear ==
  ASSUME SpaceTypeOK, NEW c \in Client, done[c] = {}, root[c] \in Page, todo[c] # <<>>, Head(todo[c]).ok,
         ImageInv(c), Va(c)[1] \in UserIndex, Pt(c) # None
  PROVE  table[Pt(c)][Va(c)[4]].pg = None
<1>0. Va(c) \in [1..4 -> Index]
  BY NextVa, Zenon
<1>1. SUFFICES ASSUME table[Pt(c)][Va(c)[4]].pg # None PROVE FALSE
  BY Zenon
<1>2. Place(Path3(Va(c)), Pt(c)) \in Level3(c)
  BY <1>0, PtPlace, Zenon
<1>. DEFINE e == Place(Path4(Va(c)), table[Pt(c)][Va(c)[4]].pg)
<1>3. e \in Level4(c)
  BY <1>0, <1>1, <1>2, Chain, Zenon
<1>4. e.path = Va(c)
  BY <1>0, PathIs, PlaceIs, Zenon
<1>5. PICK n \in 1..Mapped(c) : image[c][n].va = Va(c)
  BY <1>3, <1>4, Zenon DEF ImageInv
<1>6. image[c][n].ok /\ Apart(image[c]) /\ Mapped(c) \in Nat
  BY <1>5, Zenon DEF ImageInv
<1>7. Mapped(c) + 1 \in 1..Len(image[c]) /\ Head(todo[c]) = image[c][Mapped(c) + 1]
  BY NextOfImage, Zenon
<1>8. n \in 1..Len(image[c]) /\ n # Mapped(c) + 1
  <2>1. Len(image[c]) \in Nat
    <3>1. image[c] \in Seq(UserPage)
      BY TypesAre, Zenon DEF Typed
    <3>. QED BY <3>1, SMTT(20)
  <2>. QED BY <1>6, <1>7, <2>1, SMTT(20)
<1>. QED BY <1>5, <1>6, <1>7, <1>8, Zenon DEF Apart, Va

(* One entry written. *)
LEMMA OneWrite ==
  ASSUME NEW F \in [Page -> [Index -> Entry]], NEW t \in Page, NEW i \in Index,
         NEW v \in Entry, NEW G, G = [F EXCEPT ![t][i] = v]
  PROVE  /\ G[t] = [F[t] EXCEPT ![i] = v] /\ \A q \in Page : q # t => G[q] = F[q]
         /\ G \in [Page -> [Index -> Entry]]
<1>1. G = [F EXCEPT ![t] = [F[t] EXCEPT ![i] = v]]
  BY Zenon
<1>2. [F[t] EXCEPT ![i] = v] \in [Index -> Entry]
  <2>1. F[t] \in [Index -> Entry]
    BY Zenon
  <2>. QED BY <2>1, Zenon
<1>3. G \in [Page -> [Index -> Entry]]
  BY <1>1, <1>2, Zenon
<1>4. G[t] = [F[t] EXCEPT ![i] = v] /\ \A q \in Page : q # t => G[q] = F[q]
  BY <1>1, Zenon
<1>. QED BY <1>3, <1>4, Zenon

(* vmm_space_map sets the entry. *)
LEMMA LoadMapStep ==
  ASSUME SpaceTypeOK, OneHolder, \A d \in Client : SpaceOK(d), PmmTypeOK', NEW c \in Client, LoadMap(c)
  PROVE  SpaceTypeOK' /\ \A d \in Client : SpaceOK(d)'
<1>. DEFINE t == Pt(c)
            i == Va(c)[4]
            pg == leaf[c]
            f == Head(todo[c]).flags
            d == Place(Path3(Va(c)), t)
            new == Place(Append(d.path, i), pg)
<1>0. table' = [table EXCEPT ![t][i] = [pg |-> pg, flags |-> f]]
  BY Zenon DEF LoadMap
<1>1. /\ pc[c] = "load" /\ todo[c] # <<>> /\ leaf[c] # None /\ Va(c)[1] \notin KernelIndex /\ Pt(c) # None
      /\ pc' = pc /\ root' = root /\ image' = image /\ done' = done /\ lost' = lost
      /\ leaf' = [leaf EXCEPT ![c] = None] /\ todo' = [todo EXCEPT ![c] = Tail(@)]
  BY Zenon DEF LoadMap, Mappable, Loading
<1>2. held' = held
  BY Zenon DEF LoadMap, pmmVars
<1>t. /\ table \in [Page -> [Index -> Entry]] /\ leaf \in [Client -> Page \cup {None}]
      /\ image \in [Client -> Seq(UserPage)] /\ held \in [Client -> SUBSET Page]
      /\ todo \in [Client -> Seq(UserPage)]
  BY TypesAre, Zenon DEF Typed
<1>3. OnePlace(c) /\ CallInv(c) /\ ImageInv(c) /\ done[c] = {} /\ root[c] \in Page
  <2>1. "load" # "none" /\ "load" # "destroy" /\ "load" \in {"load", "ready"}
    OBVIOUS
  <2>2. OnePlace(c) /\ CallInv(c)
    BY <1>1, <2>1, Zenon DEF SpaceOK
  <2>. QED BY <1>1, <2>1, <2>2, Zenon DEF CallInv
<1>4. Va(c) \in [1..4 -> Index] /\ Va(c)[1] \in UserIndex /\ Head(todo[c]).ok /\ f \in Nat /\ table[pg] = ZeroTable
  <2>1. Va(c) \in [1..4 -> Index] /\ f \in Nat
    BY <1>1, NextVa, Zenon
  <2>2. Va(c)[1] \in UserIndex
    BY <1>1, <2>1, PathIs, Zenon DEF UserIndex
  <2>. QED BY <1>1, <1>3, <2>1, <2>2, Zenon DEF CallInv
<1>5. /\ Pdpt(c) # None /\ Pd(c) # None
      /\ table[root[c]][Va(c)[1]].pg = Pdpt(c) /\ table[Pdpt(c)][Va(c)[2]].pg = Pd(c) /\ table[Pd(c)][Va(c)[3]].pg = Pt(c)
      /\ Place(Path1(Va(c)), Pdpt(c)) \in Level1(c) /\ Place(Path2(Va(c)), Pd(c)) \in Level2(c)
      /\ d \in Level3(c) /\ i \in WalkIndex(Path3(Va(c)))
  BY <1>1, <1>3, <1>4, PtPlace, Zenon
<1>6. table[t][i].pg = None
  BY <1>1, <1>3, <1>4, TargetClear, Zenon
<1>7. d.pg = t /\ d.path = Path3(Va(c)) /\ new.pg = pg /\ new.path = Va(c)
  <2>1. Append(Path3(Va(c)), i) = Va(c)
    BY <1>4, PathIs, Zenon DEF Path4
  <2>2. d.pg = t /\ d.path = Path3(Va(c))
    BY PlaceIs, Zenon
  <2>3. new.pg = pg /\ new.path = Append(d.path, i)
    BY PlaceIs, Zenon
  <2>. QED BY <2>1, <2>2, <2>3, Zenon
<1>8. /\ d \in Tables(c) /\ d \in Entries(c) /\ t \in held[c] /\ t # pg /\ t \in Page /\ i \in Index
      /\ pg \in held[c] /\ pg \in Page /\ \A q \in held[c] : q \in Page
      /\ Pdpt(c) \in held[c] /\ Pd(c) \in held[c]
  <2>1. d \in Tables(c) /\ d \in Entries(c)
    BY <1>3, <1>5, LevelsApart, TablesIn, Zenon
  <2>2. t \in held[c] /\ t # pg
    BY <1>3, <1>7, <2>1, HeldPages, Zenon
  <2>3. \A q \in held[c] : q \in Page
    BY <1>t, Zenon
  <2>4. i \in Index
    BY <1>4, PathIs, Zenon
  <2>5. pg \in held[c]
    BY <1>1, <1>3, Zenon DEF OnePlace
  <2>6. Place(Path1(Va(c)), Pdpt(c)) \in Entries(c) /\ Place(Path2(Va(c)), Pd(c)) \in Entries(c)
    BY <1>5, Zenon DEF Entries, Tables
  <2>7. Pdpt(c) \in held[c] /\ Pd(c) \in held[c]
    <3>1. Place(Path1(Va(c)), Pdpt(c)).pg \in held[c] /\ Place(Path2(Va(c)), Pd(c)).pg \in held[c]
      BY <1>3, <2>6, HeldPages, Zenon
    <3>. QED BY <3>1, PlaceIs, Zenon
  <2>. QED BY <2>1, <2>2, <2>3, <2>4, <2>5, <2>7, Zenon
<1>. HIDE DEF t, i, pg, f, d
<1>9. /\ table'[t] = [table[t] EXCEPT ![i] = [pg |-> pg, flags |-> f]]
      /\ \A q \in Page : q # t => table'[q] = table[q]
      /\ table' \in [Page -> [Index -> Entry]]
  <2>1. [pg |-> pg, flags |-> f] \in Entry
    BY <1>4, <1>8, SMTT(20) DEF Entry
  <2>2. table \in [Page -> [Index -> Entry]] /\ t \in Page /\ i \in Index
    BY <1>t, <1>8, Zenon
  <2>. QED BY ONLY <1>0, <2>1, <2>2, OneWrite, SMTT(20)
<1>10. Tail(todo[c]) \in Seq(UserPage) /\ todo'[c] = Tail(todo[c]) /\ leaf'[c] = None
  BY <1>1, <1>3, <1>t, NextOfImage, Zenon
<1>11. SpaceTypeOK'
  <2>1. todo' \in [Client -> Seq(UserPage)] /\ leaf' \in [Client -> Page \cup {None}]
    BY <1>1, <1>10, <1>t, Zenon
  <2>. QED BY <1>1, <1>9, <2>1, Zenon DEF SpaceTypeOK, Entry, None
<1>12. ASSUME NEW b \in Client, b # c PROVE SpaceOK(b)'
  <2>1. leaf'[b] = leaf[b] /\ todo'[b] = todo[b]
    BY <1>1, <1>12, <1>t, Zenon
  <2>2. \A q \in Page : q # None /\ q \notin held[c] => table'[q] = table[q]
    BY <1>8, <1>9, Zenon
  <2>3. /\ root'[b] = root[b] /\ image'[b] = image[b] /\ pc'[b] = pc[b]
        /\ done'[b] = done[b] /\ held'[b] = held[b]
    BY <1>1, <1>2, Zenon
  <2>4. None \notin used
    BY NoneIsNoPage, Zenon DEF SpaceTypeOK, PmmTypeOK
  <2>5. Same(b)
    BY <1>12, <2>1, <2>2, <2>3, <2>4, OthersKept, Zenon
  <2>. QED BY <2>3, <2>5, KeptCall, Zenon
<1>13. Grows(c) /\ LinksOne(c, d, i, pg, f)
  <2>1. Links(d, i, pg, f)
    BY <1>5, <1>6, <1>7, <1>9, Zenon DEF Links
  <2>2. d.pg \in Page /\ held[c] \subseteq held'[c] /\ \A q \in held[c] : q # d.pg => table'[q] = table[q]
    BY <1>2, <1>7, <1>8, <1>9, Zenon
  <2>3. OnePlace(c) /\ SpaceTypeOK /\ root'[c] = root[c]
    BY <1>1, <1>3, Zenon
  <2>4. Grows(c)
    BY ONLY <2>1, <2>2, <2>3, LinksGrows, SMTT(20)
  <2>5. \A e \in Entries(c) : e.pg # d.pg => table'[e.pg] = table[e.pg]
    BY <1>3, <2>2, HeldPages, Zenon
  <2>6. table'[pg] = ZeroTable /\ done'[c] = done[c]
    BY <1>1, <1>4, <1>8, <1>9, Zenon
  <2>. QED BY <1>3, <1>8, <2>1, <2>3, <2>4, <2>5, <2>6, Zenon DEF LinksOne
<1>14. Entries(c)' = Entries(c) \cup {new} /\ GrownBy(Level4(c)', Level4(c), new, d, Level3(c))
  BY <1>13, AddPlace, Zenon
<1>. HIDE DEF new
<1>15. OnePlace(c)'
  <2>1. \A e \in Entries(c) : e.pg # new.pg
    BY <1>3, <1>7, HeldPages, Zenon DEF pg
  <2>2. new.pg # leaf'[c] /\ \A e \in Entries(c) : e.pg # leaf'[c]
    <3>1. \A e \in Entries(c) : e.pg \in Page
      BY <1>3, EntryPlaces, Zenon
    <3>. QED BY <1>7, <1>8, <1>10, <3>1, NoneIsNoPage, Zenon
  <2>3. held[c] = {e.pg : e \in Entries(c)} \cup ({leaf[c]} \ {None})
    BY <1>3, Zenon DEF OnePlace
  <2>4. {leaf[c]} \ {None} = {new.pg} /\ {leaf'[c]} \ {None} = {}
    BY <1>1, <1>7, <1>10, Zenon DEF pg
  <2>5. held'[c] = {e.pg : e \in Entries(c)} \cup {new.pg} \cup ({leaf'[c]} \ {None})
    BY <1>2, <2>3, <2>4, Zenon
  <2>. QED BY <1>3, <1>14, <2>1, <2>2, <2>5, GrownPlace, Zenon
<1>16. ImageInv(c)'
  <2>0. /\ Mapped(c) + 1 \in 1..Len(image[c]) /\ Head(todo[c]) = image[c][Mapped(c) + 1]
        /\ Len(image[c]) - Len(Tail(todo[c])) = Mapped(c) + 1
        /\ \A n \in 1..Len(Tail(todo[c])) : Tail(todo[c])[n] = image[c][Mapped(c) + 1 + n]
    BY <1>1, <1>3, NextOfImage, Zenon
  <2>1. Mapped(c)' = Mapped(c) + 1 /\ image'[c] = image[c] /\ Mapped(c) \in Nat
    <3>1. Len(image'[c]) - Len(todo'[c]) = Mapped(c) + 1
      BY <1>1, <1>10, <2>0, Zenon
    <3>. QED BY <1>1, <1>3, <3>1, Zenon DEF Mapped, ImageInv
  <2>2. /\ Mapped(c) + 1 \in Nat /\ \A n \in 1..Mapped(c) + 1 : n \in 1..Mapped(c) \/ n = Mapped(c) + 1
        /\ \A n \in 1..Mapped(c) : n \in 1..Mapped(c) + 1 /\ n \in 1..Len(image[c])
        /\ Mapped(c) + 1 \in 1..Mapped(c) + 1
    <3>1. Len(image[c]) \in Nat
      <4>1. image[c] \in Seq(UserPage)
        BY <1>t, Zenon
      <4>. QED BY <4>1, SMTT(20)
    <3>. QED BY <2>0, <2>1, <3>1, SMTT(20)
  <2>3. ASSUME NEW va, NEW fl, va = Va(c), fl = f PROVE Resolves(c, va, fl)'
    <3>1. table'[root'[c]][Va(c)[1]].pg = Pdpt(c)
      BY <1>1, <1>3, <1>4, <1>5, <1>13, RootHeld, PathIs, Zenon DEF Grows
    <3>2. table'[Pdpt(c)][Va(c)[2]].pg = Pd(c) /\ table'[Pd(c)][Va(c)[3]].pg = t
      BY <1>1, <1>4, <1>5, <1>8, <1>13, PathIs, Zenon DEF Grows, t
    <3>3. table'[t][i] = [pg |-> pg, flags |-> f]
      <4>1. table[t] \in [Index -> Entry]
        BY <1>t, <1>8, Zenon
      <4>. QED BY <1>8, <1>9, <4>1, Zenon
    <3>4. Pdpt(c) \in held'[c] /\ Pd(c) \in held'[c] /\ t \in held'[c] /\ pg \in held'[c]
      BY <1>2, <1>8, Zenon
    <3>5. Va(c)[4] = i /\ Va(c)[1] \in UserIndex
      BY <1>4, Zenon DEF i
    <3>6. /\ table'[root'[c]][va[1]].pg = Pdpt(c) /\ table'[Pdpt(c)][va[2]].pg = Pd(c) /\ table'[Pd(c)][va[3]].pg = t
          /\ table'[t][va[4]] = [pg |-> pg, flags |-> fl] /\ va[1] \in UserIndex
      BY <2>3, <3>1, <3>2, <3>3, <3>5, Zenon
    <3>7. \E p1, p2, p3, p4 \in held'[c] :
            /\ table'[root'[c]][va[1]].pg = p1 /\ table'[p1][va[2]].pg = p2 /\ table'[p2][va[3]].pg = p3
            /\ table'[p3][va[4]] = [pg |-> p4, flags |-> fl]
      BY <3>4, <3>6, Zenon
    <3>. QED BY <3>6, <3>7, Zenon DEF Resolves, UserIndex
  <2>4. ASSUME NEW n \in 1..Mapped(c)' PROVE image'[c][n].ok /\ Resolves(c, image[c][n].va, image[c][n].flags)'
    <3>1. CASE n \in 1..Mapped(c)
      <4>1. image[c][n].ok /\ Resolves(c, image[c][n].va, image[c][n].flags)
        BY <1>3, <3>1, Zenon DEF ImageInv
      <4>2. image[c][n].va \in [1..4 -> Index] /\ held[c] \subseteq Page
        BY <1>t, <2>2, <3>1, PageOf, Zenon
      <4>. QED BY <1>3, <1>13, <2>1, <4>1, <4>2, ResolvesKept, Zenon
    <3>2. CASE n = Mapped(c) + 1
      <4>1. image[c][n].va = Va(c) /\ image[c][n].flags = f /\ image[c][n].ok
        BY <1>4, <2>0, <3>2, Zenon DEF Va, f
      <4>2. Resolves(c, image[c][n].va, image[c][n].flags)'
        <5>1. image'[c][n].va = Va(c) /\ image'[c][n].flags = f
          BY <2>1, <4>1, Zenon
        <5>. QED BY <2>3, <5>1, Zenon
      <4>. QED BY <2>1, <4>1, <4>2, Zenon
    <3>. QED BY <2>1, <2>2, <2>4, <3>1, <3>2, Zenon
  <2>5. ASSUME NEW e \in Level4(c)' PROVE \E n \in 1..Mapped(c)' : image'[c][n].va = e.path
    <3>1. CASE e \in Level4(c)
      <4>1. PICK n \in 1..Mapped(c) : image[c][n].va = e.path
        BY <1>3, <3>1, Zenon DEF ImageInv
      <4>. QED BY <2>1, <2>2, <4>1, Zenon
    <3>2. CASE e = new
      <4>1. image[c][Mapped(c) + 1].va = e.path
        BY <1>7, <2>0, <3>2, Zenon DEF Va
      <4>. QED BY <2>1, <2>2, <4>1, Zenon
    <3>. QED BY <1>14, <2>5, <3>1, <3>2, Zenon DEF GrownBy
  <2>6. \A n \in 1..Len(todo'[c]) : todo'[c][n] = image'[c][Mapped(c)' + n]
    BY <1>10, <2>0, <2>1, Zenon
  <2>7. Apart(image'[c]) /\ Mapped(c)' \in Nat
    BY <1>3, <2>1, <2>2, Zenon DEF ImageInv
  <2>. QED BY <2>4, <2>5, <2>6, <2>7, Zenon DEF ImageInv
<1>17. CallInv(c)'
  <2>1. "load" # "none" /\ "load" \notin {"ready", "destroy"}
    OBVIOUS
  <2>2. pc'[c] = "load" /\ root'[c] \in Page /\ done'[c] = {} /\ leaf'[c] = None
    BY <1>1, <1>3, <1>10, Zenon
  <2>. QED BY <1>16, <2>1, <2>2, Zenon DEF CallInv, None
<1>18. SpaceOK(c)'
  BY <1>15, <1>17, Zenon DEF SpaceOK
<1>. QED BY <1>11, <1>12, <1>18, Zenon

(* elf_load fails. *)
LEMMA LoadFailsStep ==
  ASSUME SpaceTypeOK, OneHolder, \A d \in Client : SpaceOK(d), PmmTypeOK', NEW c \in Client, LoadFails(c)
  PROVE  SpaceTypeOK' /\ \A d \in Client : SpaceOK(d)'
<1>1. /\ pc[c] = "load" /\ lost' = lost \cup held[c] /\ held' = [held EXCEPT ![c] = {}]
      /\ pc' = [pc EXCEPT ![c] = "none"] /\ root' = [root EXCEPT ![c] = None] /\ leaf' = [leaf EXCEPT ![c] = None]
      /\ todo' = [todo EXCEPT ![c] = <<>>] /\ image' = [image EXCEPT ![c] = <<>>]
      /\ table' = [pg \in Page |-> IF pg \in held[c] THEN Junk ELSE table[pg]] /\ done' = done
  BY Zenon DEF LoadFails, Loading
<1>t. /\ table \in [Page -> [Index -> Entry]] /\ pc \in [Client -> {"none", "load", "ready", "destroy"}]
      /\ root \in [Client -> Page \cup {None}] /\ leaf \in [Client -> Page \cup {None}]
      /\ todo \in [Client -> Seq(UserPage)] /\ image \in [Client -> Seq(UserPage)]
      /\ lost \subseteq Page /\ held \in [Client -> SUBSET Page]
  BY TypesAre, Zenon DEF Typed
<1>2. SpaceTypeOK'
  <2>1. table' \in [Page -> [Index -> Entry]]
    BY <1>1, <1>t, TableTypes, Zenon
  <2>2. pc' \in [Client -> {"none", "load", "ready", "destroy"}]
    BY <1>1, <1>t, Zenon
  <2>3. root' \in [Client -> Page \cup {None}] /\ leaf' \in [Client -> Page \cup {None}]
    BY <1>1, <1>t, Zenon
  <2>4. todo' \in [Client -> Seq(UserPage)] /\ image' \in [Client -> Seq(UserPage)]
    <3>1. <<>> \in Seq(UserPage)
      BY SMTT(20)
    <3>. QED BY <1>1, <1>t, <3>1, Zenon
  <2>5. lost' \subseteq Page
    BY <1>1, <1>t, Zenon
  <2>. QED BY <1>1, <2>1, <2>2, <2>3, <2>4, <2>5, Zenon DEF SpaceTypeOK, Entry, None
<1>3. ASSUME NEW b \in Client, b # c PROVE SpaceOK(b)'
  <2>1. /\ leaf'[b] = leaf[b] /\ todo'[b] = todo[b] /\ root'[b] = root[b] /\ image'[b] = image[b]
        /\ pc'[b] = pc[b] /\ held'[b] = held[b]
    BY <1>1, <1>3, <1>t, Zenon
  <2>2. \A q \in Page : q # None /\ q \notin held[c] => table'[q] = table[q]
    BY <1>1, Zenon
  <2>3. None \notin used /\ done'[b] = done[b]
    BY <1>1, NoneIsNoPage, Zenon DEF SpaceTypeOK, PmmTypeOK
  <2>4. Same(b)
    BY <1>3, <2>1, <2>2, <2>3, OthersKept, Zenon
  <2>. QED BY <2>1, <2>4, KeptCall, Zenon
<1>4. SpaceOK(c)'
  <2>1. "none" \notin {"ready", "destroy"} /\ "none" \notin {"load", "ready"} /\ "load" # "destroy"
    OBVIOUS
  <2>2. pc'[c] = "none" /\ held'[c] = {} /\ leaf'[c] = None
    BY <1>1, <1>t, Zenon
  <2>3. done'[c] = {}
    BY <1>1, <2>1, Zenon DEF SpaceOK, CallInv
  <2>. QED BY <2>1, <2>2, <2>3, Zenon DEF SpaceOK, CallInv, None
<1>. QED BY <1>2, <1>3, <1>4, Zenon

(* The steps that only move a call on. *)
LEMMA QuietStep ==
  ASSUME SpaceTypeOK, \A d \in Client : SpaceOK(d), PmmTypeOK', NEW c \in Client,
         LoadDone(c) \/ DestroyBegin(c)
  PROVE  SpaceTypeOK' /\ \A d \in Client : SpaceOK(d)'
<1>1. /\ table' = table /\ root' = root /\ todo' = todo /\ leaf' = leaf /\ image' = image /\ done' = done
      /\ lost' = lost /\ held' = held
  BY Zenon DEF LoadDone, DestroyBegin, pmmVars
<1>2. \/ pc[c] = "load" /\ todo[c] = <<>> /\ pc' = [pc EXCEPT ![c] = "ready"]
      \/ pc[c] = "ready" /\ pc' = [pc EXCEPT ![c] = "destroy"]
  BY Zenon DEF LoadDone, DestroyBegin
<1>t. pc \in [Client -> {"none", "load", "ready", "destroy"}]
  BY TypesAre, Zenon DEF Typed
<1>3. SpaceTypeOK'
  <2>1. pc' \in [Client -> {"none", "load", "ready", "destroy"}]
    BY <1>2, <1>t, Zenon
  <2>. QED BY <1>1, <2>1, Zenon DEF SpaceTypeOK, None
<1>4. ASSUME NEW b \in Client PROVE Same(b)
  BY <1>1, Zenon DEF Same
<1>5. ASSUME NEW b \in Client, b # c PROVE SpaceOK(b)'
  <2>1. pc'[b] = pc[b]
    BY <1>2, <1>5, <1>t, Zenon
  <2>. QED BY <1>4, <2>1, KeptCall, Zenon
<1>6. SpaceOK(c)'
  <2>1. /\ "load" # "none" /\ "ready" # "none" /\ "destroy" # "none" /\ "load" # "destroy" /\ "ready" # "destroy"
        /\ "ready" # "load" /\ "destroy" \notin {"load", "ready"}
        /\ "load" \in {"load", "ready"} /\ "ready" \in {"load", "ready"} /\ "ready" \in {"ready", "destroy"}
    OBVIOUS
  <2>2. OnePlace(c) /\ CallInv(c)
    BY <1>2, <2>1, Zenon DEF SpaceOK
  <2>3. root[c] \in Page /\ done[c] = {} /\ todo[c] = <<>> /\ ImageInv(c)
    BY <1>2, <2>1, <2>2, Zenon DEF CallInv
  <2>4. leaf[c] = None
    BY <1>2, <2>1, <2>2, <2>3, Zenon DEF CallInv
  <2>5. OnePlace(c)' /\ ImageInv(c)'
    BY <1>4, <2>2, <2>3, KeptSpace, Zenon
  <2>6. root'[c] \in Page /\ done'[c] = {} /\ todo'[c] = <<>> /\ leaf'[c] = None
    BY <1>1, <2>3, <2>4, Zenon
  <2>7. pc'[c] = "ready" \/ pc'[c] = "destroy"
    BY <1>2, <1>t, Zenon
  <2>. QED BY <2>1, <2>5, <2>6, <2>7, Zenon DEF SpaceOK, CallInv, None
<1>. QED BY <1>3, <1>5, <1>6, Zenon

(* A root with nothing below it is the whole space. *)
LEMMA BareRoot ==
  ASSUME NEW c, NEW r \in Level0(c), Under(c, r) = {}
  PROVE  Entries(c) = {r}
<1>1. \A x : x \in Level0(c) <=> x = r
  <2>1. Level0(c) = {r}
    BY Zenon DEF Level0
  <2>. QED BY <2>1, Zenon
<1>2. ASSUME NEW x \in Level1(c) PROVE FALSE
  <2>1. PICK e \in Level0(c) : x \in Under(c, e)
    BY <1>2, LevelIs, Zenon DEF Kids
  <2>. QED BY <1>1, <2>1, Zenon
<1>3. ASSUME NEW x \in Level2(c) PROVE FALSE
  BY <1>2, <1>3, LevelIs, Zenon DEF Kids
<1>4. ASSUME NEW x \in Level3(c) PROVE FALSE
  BY <1>3, <1>4, LevelIs, Zenon DEF Kids
<1>5. ASSUME NEW x \in Level4(c) PROVE FALSE
  BY <1>4, <1>5, LevelIs, Zenon DEF Kids
<1>6. ASSUME NEW x PROVE x \in Entries(c) <=> x = r
  <2>1. x \in Entries(c) <=> x \in Level0(c) \/ x \in Level1(c) \/ x \in Level2(c) \/ x \in Level3(c) \/ x \in Level4(c)
    BY Zenon DEF Entries, Tables
  <2>. QED BY <1>1, <1>2, <1>3, <1>4, <1>5, <2>1, Zenon
<1>. QED BY <1>6, Zenon

(* vmm_space_destroy frees a page. *)
LEMMA DestroyStep ==
  ASSUME SpaceTypeOK, OneHolder, \A d \in Client : SpaceOK(d), PmmTypeOK', NEW c \in Client, Destroy(c)
  PROVE  SpaceTypeOK' /\ \A d \in Client : SpaceOK(d)'
<1>. DEFINE e == NextFree(c)
<1>1. /\ pc[c] = "destroy" /\ held' = [held EXCEPT ![c] = @ \ {e.pg}] /\ table' = [table EXCEPT ![e.pg] = Junk]
      /\ todo' = todo /\ leaf' = leaf /\ lost' = lost
  BY Zenon DEF Destroy, PmmFree
<1>2. \/ /\ e.path = <<>> /\ pc' = [pc EXCEPT ![c] = "none"] /\ root' = [root EXCEPT ![c] = None]
         /\ done' = [done EXCEPT ![c] = {}] /\ image' = [image EXCEPT ![c] = <<>>]
      \/ /\ e.path # <<>> /\ done' = [done EXCEPT ![c] = @ \cup {e.path}]
         /\ pc' = pc /\ root' = root /\ image' = image
  BY Zenon DEF Destroy
<1>t. /\ table \in [Page -> [Index -> Entry]] /\ pc \in [Client -> {"none", "load", "ready", "destroy"}]
      /\ root \in [Client -> Page \cup {None}] /\ leaf \in [Client -> Page \cup {None}]
      /\ todo \in [Client -> Seq(UserPage)] /\ image \in [Client -> Seq(UserPage)]
      /\ done \in [Client -> SUBSET Seq(Index)] /\ held \in [Client -> SUBSET Page]
  BY TypesAre, Zenon DEF Typed
<1>3. OnePlace(c) /\ CallInv(c) /\ root[c] \in Page /\ todo[c] = <<>> /\ leaf[c] = None
  <2>1. "destroy" # "none" /\ "destroy" # "load" /\ "destroy" \in {"ready", "destroy"}
    OBVIOUS
  <2>2. OnePlace(c) /\ CallInv(c)
    BY <1>1, <2>1, Zenon DEF SpaceOK
  <2>. QED BY <1>1, <2>1, <2>2, Zenon DEF CallInv
<1>4. /\ e \in Entries(c) /\ (e \in Tables(c) => Under(c, e) = {}) /\ (e \in Level0(c) <=> e.path = <<>>)
  BY <1>3, NextFreeBare, Zenon DEF Bare
<1>. HIDE DEF e
<1>5. e.pg \in held[c] /\ e.pg \in Page /\ e.path \in Seq(Index)
  BY <1>3, <1>4, HeldPages, EntryPlaces, Zenon
<1>6. SpaceTypeOK'
  <2>1. table' \in [Page -> [Index -> Entry]]
    BY <1>1, <1>t, TableTypes, Zenon
  <2>2. pc' \in [Client -> {"none", "load", "ready", "destroy"}] /\ root' \in [Client -> Page \cup {None}]
    BY <1>2, <1>t, Zenon
  <2>3. image' \in [Client -> Seq(UserPage)]
    <3>1. <<>> \in Seq(UserPage)
      BY SMTT(20)
    <3>. QED BY <1>2, <1>t, <3>1, Zenon
  <2>4. done' \in [Client -> SUBSET Seq(Index)]
    <3>1. done[c] \cup {e.path} \in SUBSET Seq(Index)
      BY <1>5, <1>t, Zenon
    <3>. QED BY <1>2, <1>t, <3>1, Zenon
  <2>. QED BY <1>1, <2>1, <2>2, <2>3, <2>4, Zenon DEF SpaceTypeOK, Entry, None
<1>7. ASSUME NEW b \in Client, b # c PROVE SpaceOK(b)'
  <2>1. held'[b] = held[b] /\ root'[b] = root[b] /\ image'[b] = image[b] /\ pc'[b] = pc[b] /\ done'[b] = done[b]
    BY <1>1, <1>2, <1>7, <1>t, Zenon
  <2>2. \A q \in Page : q # None /\ q \notin held[c] => table'[q] = table[q]
    BY <1>1, <1>5, <1>t, Zenon
  <2>3. None \notin used /\ todo'[b] = todo[b] /\ leaf'[b] = leaf[b]
    BY <1>1, NoneIsNoPage, Zenon DEF SpaceTypeOK, PmmTypeOK
  <2>4. Same(b)
    BY <1>7, <2>1, <2>2, <2>3, OthersKept, Zenon
  <2>. QED BY <2>1, <2>4, KeptCall, Zenon
<1>8. held'[c] = held[c] \ {e.pg} /\ held[c] = {x.pg : x \in Entries(c)}
  BY <1>1, <1>3, <1>t, Zenon DEF OnePlace
<1>9. CASE e.path = <<>>
  <2>1. pc'[c] = "none" /\ done'[c] = {} /\ leaf'[c] = None
    BY <1>1, <1>2, <1>3, <1>9, <1>t, Zenon
  <2>2. Entries(c) = {e}
    BY <1>4, <1>9, BareRoot, Zenon DEF Tables
  <2>3. held'[c] = {}
    BY <1>8, <2>2, Zenon
  <2>4. "none" \notin {"ready", "destroy"} /\ "none" \notin {"load", "ready"}
    OBVIOUS
  <2>5. SpaceOK(c)'
    BY <2>1, <2>3, <2>4, Zenon DEF SpaceOK, CallInv, None
  <2>. QED BY <1>6, <1>7, <2>5, Zenon
<1>10. CASE e.path # <<>>
  <2>1. pc'[c] = "destroy" /\ root'[c] = root[c] /\ done'[c] = done[c] \cup {e.path} /\ leaf'[c] = None /\ todo'[c] = <<>>
    BY <1>1, <1>2, <1>3, <1>10, <1>t, Zenon
  <2>2. \A x \in Entries(c) : x.pg # e.pg => table'[x.pg] = table[x.pg]
    <3>1. \A x \in Entries(c) : x.pg \in Page
      BY <1>3, EntryPlaces, Zenon
    <3>. QED BY <1>1, <1>5, <1>t, <3>1, Zenon
  <2>3. e \notin Level0(c)
    BY <1>4, <1>10, Zenon
  <2>4. Entries(c)' = Entries(c) \ {e}
    BY <1>3, <1>4, <2>1, <2>2, <2>3, DropPlace, Zenon
  <2>5. \A x, y \in Entries(c) : x.pg = y.pg => x = y
    BY <1>3, Zenon DEF OnePlace
  <2>6. OnePlace(c)'
    <3>1. held'[c] = {x.pg : x \in Entries(c)'}
      <4>1. ASSUME NEW q PROVE q \in held'[c] <=> q \in {x.pg : x \in Entries(c)'}
        <5>1. ASSUME q \in held'[c] PROVE q \in {x.pg : x \in Entries(c)'}
          <6>1. PICK x \in Entries(c) : q = x.pg /\ q # e.pg
            BY <1>8, <5>1, Zenon
          <6>. QED BY <2>4, <6>1, Zenon
        <5>2. ASSUME NEW x \in Entries(c)', q = x.pg PROVE q \in held'[c]
          BY <1>4, <1>8, <2>4, <2>5, <5>2, Zenon
        <5>. QED BY <5>1, <5>2, Zenon
      <4>. QED BY <4>1, Zenon
    <3>2. held'[c] = {x.pg : x \in Entries(c)'} \cup ({leaf'[c]} \ {None})
      BY <2>1, <3>1, Zenon
    <3>3. \A x, y \in Entries(c)' : x.pg = y.pg => x = y
      BY <2>4, <2>5, Zenon
    <3>4. \A x \in Entries(c)' : x.pg # leaf'[c]
      <4>1. \A x \in Entries(c) : x.pg # leaf[c]
        BY <1>3, Zenon DEF OnePlace
      <4>. QED BY <1>3, <2>1, <2>4, <4>1, Zenon
    <3>. QED BY <3>2, <3>3, <3>4, Zenon DEF OnePlace, None
  <2>7. "destroy" # "none" /\ "destroy" \notin {"load", "ready"}
    OBVIOUS
  <2>8. SpaceOK(c)'
    BY <1>3, <2>1, <2>6, <2>7, Zenon DEF SpaceOK, CallInv, None
  <2>. QED BY <1>6, <1>7, <2>8, Zenon
<1>. QED BY <1>9, <1>10, Zenon

-----------------------------------------------------------------------------
(* The invariant of the tree. *)

(* The invariant, client by client. *)
LEMMA TreeInvIs == TreeInv <=> SpaceTypeOK /\ \A c \in Client : SpaceOK(c)
BY Zenon DEF TreeInv, PagesAtOnePlace, SpaceOK

(* It holds at first. *)
LEMMA TreeInit ==
  ASSUME SpaceInit, PmmTypeOK
  PROVE  TreeInv
<1>1. /\ table = [pg \in Page |-> Junk] /\ pc = [c \in Client |-> "none"] /\ root = [c \in Client |-> None]
      /\ todo = [c \in Client |-> <<>>] /\ leaf = [c \in Client |-> None] /\ image = [c \in Client |-> <<>>]
      /\ done = [c \in Client |-> {}] /\ lost = {} /\ held = [c \in Client |-> {}]
  BY Zenon DEF SpaceInit, PmmInit
<1>2. SpaceTypeOK
  <2>1. <<>> \in Seq(UserPage)
    BY SMTT(20)
  <2>2. table \in [Page -> [Index -> Entry]]
    BY <1>1, TableTypes, Zenon
  <2>3. /\ pc \in [Client -> {"none", "load", "ready", "destroy"}] /\ root \in [Client -> Page \cup {None}]
        /\ leaf \in [Client -> Page \cup {None}] /\ lost \subseteq Page
    BY <1>1, Zenon
  <2>4. /\ todo \in [Client -> Seq(UserPage)] /\ image \in [Client -> Seq(UserPage)]
        /\ done \in [Client -> SUBSET Seq(Index)]
    BY <1>1, <2>1, Zenon
  <2>. QED BY <2>2, <2>3, <2>4, Zenon DEF SpaceTypeOK, Entry
<1>3. ASSUME NEW c \in Client PROVE SpaceOK(c)
  <2>1. pc[c] = "none" /\ leaf[c] = None /\ done[c] = {} /\ held[c] = {}
    BY <1>1, Zenon
  <2>2. "none" \notin {"ready", "destroy"} /\ "none" \notin {"load", "ready"}
    OBVIOUS
  <2>. QED BY <2>1, <2>2, Zenon DEF SpaceOK, CallInv
<1>. QED BY <1>2, <1>3, TreeInvIs, Zenon

(* Every step keeps it. *)
LEMMA TreeStep ==
  ASSUME TreeInv, OneHolder, PmmTypeOK', [SpaceNext]_allVars
  PROVE  TreeInv'
<1>0. SpaceTypeOK /\ \A c \in Client : SpaceOK(c)
  BY TreeInvIs, Zenon
<1>1. SUFFICES SpaceTypeOK' /\ \A c \in Client : SpaceOK(c)'
  BY Zenon DEF TreeInv, PagesAtOnePlace, SpaceOK
<1>2. CASE UNCHANGED allVars
  <2>1. /\ table' = table /\ pc' = pc /\ root' = root /\ todo' = todo /\ leaf' = leaf
        /\ image' = image /\ done' = done /\ lost' = lost /\ held' = held
    BY <1>2, Zenon DEF allVars, spaceVars, pmmVars
  <2>2. SpaceTypeOK'
    BY <1>0, <2>1, Zenon DEF SpaceTypeOK, None
  <2>3. ASSUME NEW c \in Client PROVE SpaceOK(c)'
    <3>1. Same(c) /\ pc'[c] = pc[c]
      BY <2>1, Zenon DEF Same
    <3>. QED BY <1>0, <3>1, KeptCall, Zenon
  <2>. QED BY <2>2, <2>3, Zenon
<1>3. CASE Boot
  BY <1>0, <1>3, BootStep, Zenon
<1>4. ASSUME NEW c \in Client, NEW im \in Images, ElfLoad(c, im)
      PROVE  SpaceTypeOK' /\ \A d \in Client : SpaceOK(d)'
  BY <1>0, <1>4, ElfLoadStep, Zenon
<1>5. ASSUME NEW c \in Client,
             LoadLeaf(c) \/ LoadTable(c) \/ LoadMap(c) \/ LoadFails(c) \/ LoadDone(c) \/ DestroyBegin(c) \/ Destroy(c)
      PROVE  SpaceTypeOK' /\ \A d \in Client : SpaceOK(d)'
  <2>1. CASE LoadLeaf(c)
    BY <1>0, <2>1, LoadLeafStep, Zenon
  <2>2. CASE LoadTable(c)
    BY <1>0, <2>2, LoadTableStep, Zenon
  <2>3. CASE LoadMap(c)
    BY <1>0, <2>3, LoadMapStep, Zenon
  <2>4. CASE LoadFails(c)
    BY <1>0, <2>4, LoadFailsStep, Zenon
  <2>5. CASE LoadDone(c) \/ DestroyBegin(c)
    BY <1>0, <2>5, QuietStep, Zenon
  <2>6. CASE Destroy(c)
    BY <1>0, <2>6, DestroyStep, Zenon
  <2>. QED BY <1>5, <2>1, <2>2, <2>3, <2>4, <2>5, <2>6, Zenon
<1>. QED BY <1>2, <1>3, <1>4, <1>5, Zenon DEF SpaceNext

-----------------------------------------------------------------------------
(* What the invariant says of a destruction and of a loaded program. *)

(* vmm_space_destroy frees what its process holds. *)
LEMMA FreesItsOwn ==
  ASSUME TreeInv, OneHolder
  PROVE  DestroyFreesItsOwn
<1>0. SpaceTypeOK /\ \A c \in Client : SpaceOK(c)
  BY TreeInvIs, Zenon
<1>1. ASSUME NEW c \in Client, pc[c] = "destroy" PROVE NextFree(c).pg \in held[c] /\ NextFree(c).pg \in used
  <2>1. "destroy" # "none"
    OBVIOUS
  <2>2. OnePlace(c) /\ root[c] \in Page
    BY <1>0, <1>1, <2>1, Zenon DEF SpaceOK, CallInv
  <2>3. NextFree(c) \in Entries(c)
    BY <1>0, <2>2, NextFreeBare, Zenon DEF Bare
  <2>. QED BY <2>2, <2>3, HeldPages, Zenon DEF OneHolder
<1>2. ASSUME NEW c \in Client, pc[c] = "none" PROVE held[c] = {}
  BY <1>0, <1>2, Zenon DEF SpaceOK, CallInv
<1>. QED BY <1>1, <1>2, Zenon DEF DestroyFreesItsOwn

(* A loaded program finds what it asked for. *)
LEMMA LoadsAsAsked ==
  ASSUME TreeInv
  PROVE  LoadedAsAsked
<1>0. SpaceTypeOK /\ \A c \in Client : SpaceOK(c)
  BY TreeInvIs, Zenon
<1>1. SUFFICES ASSUME NEW c \in Client, pc[c] = "ready", NEW n \in 1..Len(image[c])
               PROVE  LET va == image[c][n].va IN
                      \E e \in Entries(c) :
                        /\ e.path = va
                        /\ table[table[table[table[root[c]][va[1]].pg][va[2]].pg][va[3]].pg][va[4]] =
                             [pg |-> e.pg, flags |-> image[c][n].flags]
  BY Zenon DEF LoadedAsAsked
<1>. DEFINE va == image[c][n].va
            flags == image[c][n].flags
<1>2. OnePlace(c) /\ ImageInv(c) /\ todo[c] = <<>> /\ done[c] = {} /\ root[c] \in Page
  <2>1. "ready" # "none" /\ "ready" # "destroy" /\ "ready" \in {"ready", "destroy"} /\ "ready" \in {"load", "ready"}
    OBVIOUS
  <2>. QED BY <1>0, <1>1, <2>1, Zenon DEF SpaceOK, CallInv
<1>3. image[c] \in Seq(UserPage) /\ held[c] \subseteq Page
  BY <1>0, TypesAre, Zenon DEF Typed
<1>4. n \in 1..Mapped(c) /\ va \in [1..4 -> Index]
  <2>1. Len(image[c]) \in Nat
    BY <1>3, SMTT(20)
  <2>2. Mapped(c) = Len(image[c])
    <3>1. Len(<<>>) = 0
      BY SMTT(20)
    <3>2. Mapped(c) = Len(image[c]) - 0
      BY <1>2, <3>1, Zenon DEF Mapped
    <3>. QED BY <2>1, <3>2, SMTT(20)
  <2>. QED BY <1>3, <2>2, PageOf, Zenon
<1>5. Resolves(c, va, flags)
  BY <1>2, <1>4, Zenon DEF ImageInv
<1>. HIDE DEF va, flags
<1>6. PICK p1 \in held[c], p2 \in held[c], p3 \in held[c], p4 \in held[c] :
         /\ table[root[c]][va[1]].pg = p1 /\ table[p1][va[2]].pg = p2 /\ table[p2][va[3]].pg = p3
         /\ table[p3][va[4]] = [pg |-> p4, flags |-> flags]
  BY <1>5, Zenon DEF Resolves
<1>7. p1 # None /\ p2 # None /\ p3 # None /\ p4 # None /\ table[p3][va[4]].pg = p4 /\ va[1] \in UserIndex
  <2>1. [pg |-> p4, flags |-> flags].pg = p4
    BY EntryFields, Zenon
  <2>2. p1 # None /\ p2 # None /\ p3 # None /\ p4 # None
    BY <1>3, NoneIsNoPage, Zenon
  <2>. QED BY <1>5, <1>6, <2>1, <2>2, Zenon DEF Resolves
<1>8. Place(Path1(va), p1) \in Level1(c)
  BY <1>2, <1>4, <1>6, <1>7, Chain, Zenon
<1>9. Place(Path2(va), p2) \in Level2(c)
  BY <1>2, <1>4, <1>6, <1>7, <1>8, Chain, Zenon
<1>10. Place(Path3(va), p3) \in Level3(c)
  BY <1>2, <1>4, <1>6, <1>7, <1>9, Chain, Zenon
<1>11. Place(Path4(va), p4) \in Level4(c)
  BY <1>2, <1>4, <1>6, <1>7, <1>10, Chain, Zenon
<1>12. Place(va, p4) \in Entries(c) /\ Place(va, p4).path = va /\ Place(va, p4).pg = p4
  <2>1. Path4(va) = va
    BY <1>4, PathIs, Zenon
  <2>. QED BY <1>11, <2>1, PlaceIs, Zenon DEF Entries
<1>13. table[table[table[table[root[c]][va[1]].pg][va[2]].pg][va[3]].pg][va[4]] = [pg |-> p4, flags |-> flags]
  BY <1>6, Zenon
<1>. QED BY <1>12, <1>13, Zenon DEF va, flags
=============================================================================
