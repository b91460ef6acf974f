------------------------------- MODULE MCVfs --------------------------------
(* Instances of Vfs for TLC.  All share one geometry: 13 blocks in two groups,
   6 inodes in two groups, 2 direct pointers and tables of 2; a workload leaves as
   many of the blocks and inodes free as its case needs. *)
EXTENDS Vfs

MCPath == {<<>>, <<"a">>, <<"b">>, <<"a", "b">>, <<"b", "b">>,
           <<"a", "b", "b">>, <<"b", "b", "b">>}
MCData == {<<1>>, <<2>>, <<2, 1, 2>>}

\* All blocks but these, the padding bit of the last group included.
AllBut(free) == (1 .. BlocksCount) \ free

\* Names, with three blocks for four paths.
Names ==
    [calls |-> {"creat", "mkdir", "unlink", "rename"}, faulty |-> {},
     path |-> {<<"a">>, <<"b">>, <<"a", "b">>, <<"b", "b">>}, data |-> {<<1>>},
     busy |-> Handle, cells |-> 3, blocks |-> AllBut({5, 7, 8}), inodes |-> {1, 2, 6}]

\* Two handles on one file, at offsets inside a block, until the disk is full.
Contents ==
    [calls |-> {"open", "trunc", "write", "read", "unlink"}, faulty |-> {},
     path |-> {<<"a">>}, data |-> {<<2, 1, 2>>},
     busy |-> {}, cells |-> 6, blocks |-> AllBut({3, 7, 8}), inodes |-> {1, 2, 4, 5, 6}]

\* One file as large as the driver supports.
Largest ==
    [calls |-> {"open", "write"}, faulty |-> {},
     path |-> {<<"a">>}, data |-> {<<2, 1, 2>>},
     busy |-> {2}, cells |-> 16, blocks |-> AllBut(2 .. 13), inodes |-> {1, 2, 4, 5, 6}]

\* Power loss in the calls that add something.
PowerLoss ==
    [calls |-> {"creat", "mkdir", "open", "write", "unlink"},
     faulty |-> {"creat", "mkdir", "write"},
     path |-> {<<"a">>, <<"a", "b">>}, data |-> {<<2, 1, 2>>},
     busy |-> {2}, cells |-> 6, blocks |-> AllBut(2 .. 8), inodes |-> {1, 2, 5, 6}]

MCWorkloads == {Names, Contents, Largest, PowerLoss}

\* A file that can be large and is truncated.
Truncated == {[Largest EXCEPT !.calls = @ \cup {"trunc"}]}
=============================================================================
