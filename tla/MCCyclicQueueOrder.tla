------------------------ MODULE MCCyclicQueueOrder --------------------------
(***************************************************************************)
(* Small instances of CyclicQueueOrder.  Threads and elements are inter-   *)
(* changeable, as none of the code tells them apart.                       *)
(***************************************************************************)
EXTENDS CyclicQueueOrder, TLC

CONSTANTS t1, t2, t3, a, b

Symmetry == Permutations(Threads) \cup Permutations(Elements)

=============================================================================
