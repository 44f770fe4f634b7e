----------------------------- MODULE MCBPlusTree ----------------------------
(***************************************************************************)
(* Instances of the B+ tree for TLC.                                       *)
(***************************************************************************)
EXTENDS BPlusTree

CONSTANTS t1, t2

Descending(n) == [i \in 1 .. n |-> 2 * (n + 1 - i)]

\* The next insertion at the end splits the root, and an inner node that is not the root.
DescendingLoads == {Descending(6), Descending(8)}
=============================================================================
