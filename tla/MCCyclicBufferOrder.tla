------------------------- MODULE MCCyclicBufferOrder ------------------------
(***************************************************************************)
(* A small instance of CyclicBufferOrder: a thread for each role.          *)
(***************************************************************************)
EXTENDS CyclicBufferOrder

ThreadPerRole == [r \in Roles |-> r]

=============================================================================
