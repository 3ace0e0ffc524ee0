-------------------------- MODULE MCMaskedChannel ---------------------------
(***************************************************************************)
(* A small instance of MaskedChannel: the two buffers have different       *)
(* sizes, so that they wrap around at different times.                     *)
(***************************************************************************)
EXTENDS MaskedChannel

\* One request that fits before the end of the region, and one that wraps.
MCRequests == {1, TotalSize}
MCMaskRequests == {1, MaskSize}

=============================================================================
