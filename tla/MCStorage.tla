----------------------------- MODULE MCStorage ------------------------------
(* Sectors of two bytes and blocks of two sectors.  Files: a part of a     *)
(* block; all of the direct and singly indirect blocks but a byte; one     *)
(* block in the doubly indirect part; none, as the file is empty; the last *)
(* block of the disk; two blocks in the doubly indirect part; a size that  *)
(* is no int.                                                              *)
EXTENDS Storage, TLC

File(size, direct, single, double) ==
    [size |-> size, direct |-> direct, single |-> single, double |-> double]

MCInode ==
    (1 :> File(3, <<4, 0>>, 0, 0)) @@
    (2 :> File(15, <<4, 6>>, 7, 0)) @@
    (3 :> File(18, <<4, 6>>, 7, 9)) @@
    (4 :> File(0, <<0, 0>>, 0, 0)) @@
    (5 :> File(4, <<15, 0>>, 0, 0)) @@
    (6 :> File(24, <<4, 6>>, 7, 11)) @@
    (7 :> File(25, <<4, 6>>, 7, 11))

\* The tables of singly and doubly indirect blocks.
MCPointers ==
    (7 :> <<5, 8>>) @@
    (9 :> <<10, 0>>) @@ (10 :> <<4, 0>>) @@
    (11 :> <<12, 0>>) @@ (12 :> <<4, 8>>)

\* The groups' inode tables.  The superblock is block 1 and the table of groups
\* is in blocks 2 and 3.
MCInodeTable == (0 :> 13) @@ (1 :> 14)
=============================================================================
