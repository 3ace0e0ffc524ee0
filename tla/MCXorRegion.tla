---------------------------- MODULE MCXorRegion -----------------------------
(***************************************************************************)
(* Small instances of XorRegion, for all targets: regions that are aligned *)
(* to 1, 4, 8, 16 and 32 bytes or just off it, a mask that is aligned like *)
(* the region or not, and sizes up to the widest scalar and around one     *)
(* round of the widest unrolled loop.                                      *)
(***************************************************************************)
EXTENDS XorRegion

MCTargets == SUBSET {"__AVX2__", "__SSE2__", "64 bit words"}
MCRegions == {0, 1, 4, 7, 8, 15, 16, 17, 28, 31}
MCMasks == {0, 3}
MCSizes == 0 .. 44 \cup 124 .. 164

\* The regions, and one round of the widest loop past the last of them.
MCAddresses == 0 .. 31 + 164 + 128

=============================================================================
