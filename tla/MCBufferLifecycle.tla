------------------------- MODULE MCBufferLifecycle --------------------------
(***************************************************************************)
(* A small instance of BufferLifecycle, used like the mask buffer of       *)
(* run_recoder: one thread plays all the roles.                            *)
(***************************************************************************)
EXTENDS BufferLifecycle

OneThread == [r \in Roles |-> "recoder thread"]
MCChunks == {-1, 2, 3}

=============================================================================
