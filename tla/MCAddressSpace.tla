--------------------------- MODULE MCAddressSpace ---------------------------
(* Instances of AddressSpace for TLC. *)
EXTENDS AddressSpace, TLC

CONSTANTS c1, c2

(* Plenty of memory: page 0 is the kernel's own table, all the others are free. *)
Plain ==
  [map |-> <<[start |-> 0, pages |-> MaxPages, usable |-> TRUE]>>,
   reserved |-> <<[start |-> 0, end |-> 1]>>]

(* Pages of 3 bytes: memory past the direct map, descriptors that overlap, an
   unusable hole, and a kernel that starts and ends inside a page. *)
Ragged ==
  {[map |-> <<[start |-> s, pages |-> 4, usable |-> TRUE],
              [start |-> 12, pages |-> 1, usable |-> FALSE],
              [start |-> 15, pages |-> n, usable |-> TRUE]>>,
    reserved |-> <<[start |-> k, end |-> k + len], [start |-> 18, end |-> 21]>>]
   : s \in {0, 3}, n \in {2, 6}, k \in {3, 6, 7, 25}, len \in {0, 2, 4}}

MCBoot == {Plain} \cup Ragged

Map(va, f) == [va |-> va, flags |-> f, ok |-> TRUE]
Reject == [va |-> <<0, 0, 0, 0>>, flags |-> 0, ok |-> FALSE]

(* A program and a stack that share tables, a file that is rejected half way, an
   address in the kernel half. *)
MCImages ==
  {<<Map(<<0, 0, 0, 0>>, 1)>>,
   <<Map(<<0, 0, 0, 0>>, 1), Reject>>,
   <<Map(<<1, 0, 0, 0>>, 1)>>}
MCStack == <<Map(<<0, 0, 1, 1>>, 2)>>

Symmetric == Permutations({c1, c2})
=============================================================================
