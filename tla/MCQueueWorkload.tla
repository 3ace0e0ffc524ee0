--------------------------- MODULE MCQueueWorkload --------------------------
(***************************************************************************)
(* A small instance of QueueWorkload for TLC.                              *)
(***************************************************************************)
EXTENDS QueueWorkload

CONSTANTS p1, p2, c1, c2

MCElements == 0 .. Total - 1
MCThreads == Producers \cup Consumers
MCGarbage == -1

=============================================================================
