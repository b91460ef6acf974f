------------------------------ MODULE FileTree ------------------------------
(***************************************************************************)
(* What the file system promises its callers, free of blocks, inodes on    *)
(* disk and free maps: names that lead to objects, the contents of the     *)
(* objects, and open handles with an offset.  A call either has its whole  *)
(* effect or none, except that a write may stop early; a power loss closes *)
(* the handles, and keeps or drops the call it cuts short (a cut-short     *)
(* write may have changed some of the cells the file already had).         *)
(***************************************************************************)
EXTENDS Integers, Sequences, FiniteSets, SequencesExt

CONSTANTS TPath,        \* the paths, sequences of names; <<>> is the root
          TId,          \* what a name leads to; 0 for nothing
          TRoot,        \* the root directory's id
          THandle,      \* open handles
          TData         \* what one write call may carry
VARIABLES name, node, handle

tvars == <<name, node, handle>>
Nothing == [k |-> "none", c |-> <<>>]
NoHandle == [id |-> 0, off |-> 0]
Dir(nm, nd, p) == p \in TPath /\ nm[p] # 0 /\ nd[nm[p]].k = "dir"

\* data laid over c at off; a gap reads as zeros.
Overlay(c, off, data) ==
    [k \in 1 .. (IF off + Len(data) > Len(c) THEN off + Len(data) ELSE Len(c)) |->
       IF k \in off + 1 .. off + Len(data) THEN data[k - off]
       ELSE IF k <= Len(c) THEN c[k] ELSE 0]

TreeInit == /\ name = [p \in TPath |-> IF p = <<>> THEN TRoot ELSE 0]
            /\ node = [i \in TId |-> IF i = TRoot THEN [k |-> "dir", c |-> <<>>] ELSE Nothing]
            /\ handle \in [THandle -> {NoHandle, [id |-> TRoot, off |-> 0]}]

\* A new object of kind k at p.
Make(p, k) ==
    /\ p # <<>> /\ name[p] = 0 /\ name'[p] # 0 /\ Dir(name, node, Front(p))
    /\ \E i \in {name'[p]} :
         /\ node[i] = Nothing
         /\ name' = [name EXCEPT ![p] = i]
         /\ node' = [node EXCEPT ![i] = [k |-> k, c |-> <<>>]]

\* The object at q, if any, goes away with its name.
Gone(q) == IF name[q] = 0 THEN node ELSE [node EXCEPT ![name[q]] = Nothing]

Erase(p) ==
    /\ name[p] # 0 /\ name'[p] = 0 /\ ~Dir(name, node, p)
    /\ name' = [name EXCEPT ![p] = 0]
    /\ node' = Gone(p)
    /\ UNCHANGED handle

\* Everything at or below p moves to q; a file at q is replaced.
Move(p, q) ==
    /\ p # <<>> /\ q # <<>> /\ ~IsPrefix(p, q)
    /\ name[p] # 0 /\ name'[q] = name[p]
    /\ Dir(name, node, Front(q)) /\ ~Dir(name, node, q)
    /\ name' = [r \in TPath |->
                  IF IsPrefix(q, r)
                    THEN LET o == p \o SubSeq(r, Len(q) + 1, Len(r))
                         IN  IF o \in TPath THEN name[o] ELSE 0
                  ELSE IF IsPrefix(p, r) THEN 0 ELSE name[r]]
    /\ node' = Gone(q)
    /\ UNCHANGED handle

Closed(h) == handle[h] = NoHandle
AtEnd(i, nd, append) == IF append THEN Len(nd[i].c) ELSE 0

\* open: the file may be created or emptied first; when every handle is taken
\* the call fails, with that done.
OpenHandle(p) ==
    \/ /\ \A h \in THandle : ~Closed(h)
       /\ UNCHANGED handle
    \/ \E h \in THandle, append \in BOOLEAN :
         /\ Closed(h)
         /\ handle' = [handle EXCEPT ![h] =
                         [id |-> name'[p], off |-> AtEnd(name'[p], node', append)]]

Open(p) ==
    /\ name'[p] # 0 /\ OpenHandle(p)
    /\ \/ Make(p, "reg")
       \/ name[p] # 0 /\ UNCHANGED <<name, node>>
       \/ /\ name[p] # 0 /\ UNCHANGED name
          /\ node' = [node EXCEPT ![name[p]].c = <<>>]

Write(h) ==
    /\ ~Closed(h)
    /\ \E data \in TData : \E n \in 1 .. Len(data) :
         /\ node' = [node EXCEPT ![handle[h].id].c =
                       Overlay(@, handle[h].off, SubSeq(data, 1, n))]
         /\ handle' = [handle EXCEPT ![h].off = @ + n]
    /\ UNCHANGED name

Read(h) ==
    /\ ~Closed(h)
    /\ \E n \in 1 .. Len(node[handle[h].id].c) - handle[h].off :
         handle' = [handle EXCEPT ![h].off = @ + n]
    /\ UNCHANGED <<name, node>>

Close(h) == handle' = [handle EXCEPT ![h] = NoHandle] /\ UNCHANGED <<name, node>>

\* A write cut short is done as far as it got, or has changed some of the cells
\* the file had and left its length.
TornWrite(h) ==
    /\ ~Closed(h) /\ UNCHANGED name
    /\ \E data \in TData :
         LET i == handle[h].id
             old == node[i].c
             Laid(n) == Overlay(old, handle[h].off, SubSeq(data, 1, n))
             c == node'[i].c
         IN  /\ node' = [node EXCEPT ![i].c = c]
             /\ \/ \E n \in 1 .. Len(data) : c = Laid(n)
                \/ /\ Len(c) = Len(old)
                   /\ \A k \in 1 .. Len(c) : c[k] \in {old[k], Laid(Len(data))[k]}

PowerLoss ==
    /\ handle' = [h \in THandle |-> NoHandle]
    /\ \/ UNCHANGED <<name, node>>
       \/ \E p \in TPath, k \in {"reg", "dir"} : Make(p, k)
       \/ \E h \in THandle : TornWrite(h)

TreeNext == \/ \E p \in TPath : \/ \E k \in {"reg", "dir"} : Make(p, k) /\ UNCHANGED handle
                                \/ Erase(p)
                                \/ Open(p)
                                \/ \E q \in TPath : Move(p, q)
            \/ \E h \in THandle : Write(h) \/ Read(h) \/ Close(h)
            \/ PowerLoss

TreeSpec == TreeInit /\ [][TreeNext]_tvars
=============================================================================
