-------------------------- MODULE MCQueueLifecycle --------------------------
(***************************************************************************)
(* A small instance of QueueLifecycle: three threads, a capacity below the *)
(* least there is, one between and one above the largest, and as many      *)
(* regions as a growth needs at a time.                                    *)
(***************************************************************************)
EXTENDS QueueLifecycle, TLC

CONSTANTS t1, t2, t3, a, r1, r2

Symmetry == Permutations(Threads) \cup Permutations(Regions)

=============================================================================
