----------------------------- MODULE XorRegion ------------------------------
(***************************************************************************)
(* xor_memory_region of src/common.c: XOR size bytes at dptr with those at *)
(* mask, in the widest scalars the build has.  It first does the bytes up  *)
(* to an aligned dptr, then four scalars at a time, then single scalars,   *)
(* then what remains; __xor_memory_region_simple, which does the two ends, *)
(* itself goes from 8 bytes to 4 to single ones.                           *)
(*                                                                         *)
(* One step is one round of one of these loops.  The memory is described   *)
(* by the addresses of the mask bytes that each byte has been XORed with.  *)
(***************************************************************************)
EXTENDS Integers

CONSTANTS
  Targets,     \* the machines it is compiled for, each by its features
  Regions,     \* the addresses dptr may have
  Masks,       \* and mask
  Sizes,
  Addresses    \* the memory, the regions among it

ASSUME RegionAssumption ==
  /\ Targets \subseteq SUBSET {"__AVX2__", "__SSE2__", "64 bit words"}
  /\ Regions \subseteq Nat /\ Masks \subseteq Nat /\ Sizes \subseteq Nat
  /\ \A r \in Regions, s \in Sizes : r .. r + s - 1 \subseteq Addresses

VARIABLES
  scalar,             \* MAX_SCALAR_BYTES of the build
  call,               \* the arguments of xor_memory_region
  dptr, mask, size,   \* its variables, or those of __xor_memory_region_simple
  pc,                 \* which loop is running
  rest,               \* the bytes left when the unaligned head is done
  both,               \* whether aligned_both runs, rather than aligned_dptr
  mem                 \* mem[a]: mask addresses the byte at a is XORed with

vars == <<scalar, call, dptr, mask, size, pc, rest, both, mem>>

\* max_scalar.h
MAX_SCALAR_SIZE(target) ==
  IF "__AVX2__" \in target THEN 256
  ELSE IF "__SSE2__" \in target THEN 128
  ELSE IF "64 bit words" \in target THEN 64 ELSE 32

MAX_SCALAR_BYTES(target) == MAX_SCALAR_SIZE(target) \div 8
Builds == {MAX_SCALAR_BYTES(target) : target \in Targets}

Init ==
  /\ scalar \in Builds
  /\ call \in [dptr : Regions, mask : Masks, size : Sizes]
  /\ dptr = call.dptr /\ mask = call.mask /\ size = call.size
  /\ pc = "entry"
  /\ rest = 0
  /\ both = FALSE
  /\ mem = [a \in Addresses |-> {}]

UnalignedTail(p) == p % scalar

\* XOR is its own inverse.
Toggle(m, S) == IF m \in S THEN S \ {m} ELSE S \cup {m}

\* Load n bytes of both, XOR, store, and move on.
XorBytes(n) ==
  /\ mem' = [a \in Addresses |->
               IF a \in dptr .. dptr + n - 1 THEN Toggle(mask + (a - dptr), mem[a])
               ELSE mem[a]]
  /\ size' = size - n
  /\ dptr' = dptr + n
  /\ mask' = mask + n
  /\ UNCHANGED <<scalar, call, rest, both>>

-----------------------------------------------------------------------------
(* xor_memory_region *)

\* Fault: as many bytes as dptr is past alignment, not as many as it lacks.
HeadPast ==
  /\ pc = "entry" /\ UnalignedTail(dptr) # 0
  /\ LET count == UnalignedTail(dptr) IN
     IF size <= count THEN UNCHANGED <<size, rest>>
     ELSE size' = count /\ rest' = size - count
  /\ pc' = "quads"
  /\ UNCHANGED <<scalar, call, dptr, mask, both, mem>>

\* An unaligned head goes to the simple loops, at most up to an aligned dptr.
Head ==
  /\ pc = "entry" /\ UnalignedTail(dptr) # 0
  /\ LET count == scalar - UnalignedTail(dptr) IN
     IF size <= count THEN UNCHANGED <<size, rest>>
     ELSE size' = count /\ rest' = size - count
  /\ pc' = "quads"
  /\ UNCHANGED <<scalar, call, dptr, mask, both, mem>>

NoHead ==
  /\ pc = "entry" /\ UnalignedTail(dptr) = 0
  /\ pc' = "body"
  /\ UNCHANGED <<scalar, call, dptr, mask, size, rest, both, mem>>

\* Scalars wider than 64 bits have loops of their own.
Body ==
  /\ pc = "body"
  /\ pc' = IF scalar > 8 THEN "unrolled" ELSE "quads"
  /\ both' = (UnalignedTail(mask) = 0)
  /\ UNCHANGED <<scalar, call, dptr, mask, size, rest, mem>>

(* __xor_memory_region_aligned_both and __xor_memory_region_aligned_dptr *)

Unrolled ==
  /\ pc = "unrolled" /\ size >= 4 * scalar
  /\ XorBytes(4 * scalar)
  /\ UNCHANGED pc

\* process remaining max scalars
Scalars ==
  /\ pc \in {"unrolled", "scalars"}
  /\ pc = "unrolled" => size < 4 * scalar
  /\ size >= scalar
  /\ XorBytes(scalar)
  /\ pc' = "scalars"

\* process remaining simply, if anything remains
Remaining ==
  /\ pc \in {"unrolled", "scalars"} /\ size < scalar
  /\ pc' = IF size = 0 THEN "done" ELSE "quads"
  /\ UNCHANGED <<scalar, call, dptr, mask, size, rest, both, mem>>

-----------------------------------------------------------------------------
(* __xor_memory_region_simple; its first loop is compiled for 64 bits up *)

\* Fault: size, dptr and mask stay, so that the loop never comes to its end.
QuadsInPlace ==
  /\ pc = "quads" /\ scalar >= 8 /\ size > 8
  /\ mem' = [a \in Addresses |->
               IF a \in dptr .. dptr + 7 THEN Toggle(mask + (a - dptr), mem[a]) ELSE mem[a]]
  /\ UNCHANGED <<scalar, call, dptr, mask, size, pc, rest, both>>

Quads ==
  /\ pc = "quads" /\ scalar >= 8 /\ size > 8
  /\ XorBytes(8)
  /\ UNCHANGED pc

\* process remaining double words: one after the quads, all without them
Doubles ==
  /\ size > 4
  /\ IF scalar >= 8 THEN pc = "quads" /\ size <= 8 ELSE pc \in {"quads", "doubles"}
  /\ XorBytes(4)
  /\ pc' = "doubles"

\* Whether the last loop, that of single bytes, goes round once more.
AtBytes == pc \in {"quads", "doubles", "bytes"} /\ (pc \in {"quads", "doubles"} => size <= 4)
MoreBytes == size > 0

Bytes ==
  /\ AtBytes /\ MoreBytes
  /\ XorBytes(1)
  /\ pc' = "bytes"

\* Fault: the mask does not move on with dptr.
ReturnSameMask ==
  /\ AtBytes /\ ~ MoreBytes
  /\ pc' = IF rest = 0 THEN "done" ELSE "body"
  /\ dptr' = IF rest = 0 THEN dptr ELSE call.dptr + (call.size - rest)
  /\ mask' = IF rest = 0 THEN mask ELSE call.mask
  /\ size' = rest
  /\ rest' = 0
  /\ UNCHANGED <<scalar, call, both, mem>>

(***************************************************************************)
(* The last loop ends, whatever it has done: back to xor_memory_region,    *)
(* which ends, or goes on behind the head.                                 *)
(***************************************************************************)
Return ==
  /\ AtBytes /\ ~ MoreBytes
  /\ pc' = IF rest = 0 THEN "done" ELSE "body"
  /\ dptr' = IF rest = 0 THEN dptr ELSE call.dptr + (call.size - rest)
  /\ mask' = IF rest = 0 THEN mask ELSE call.mask + (call.size - rest)
  /\ size' = rest
  /\ rest' = 0
  /\ UNCHANGED <<scalar, call, both, mem>>

__xor_memory_region_simple == Quads \/ Doubles \/ Bytes
__xor_memory_region_aligned_both == both /\ (Unrolled \/ Scalars \/ Remaining)
__xor_memory_region_aligned_dptr == ~ both /\ (Unrolled \/ Scalars \/ Remaining)
xor_memory_region == Head \/ NoHead \/ Body \/ Return

Next ==
  \/ xor_memory_region
  \/ __xor_memory_region_aligned_both \/ __xor_memory_region_aligned_dptr
  \/ __xor_memory_region_simple
  \/ pc = "done" /\ UNCHANGED vars

\* The function runs in one thread.
Spec == Init /\ [][Next]_vars /\ WF_vars(Next)

-----------------------------------------------------------------------------
(***************************************************************************)
(* Every byte of the region is XORed once, with the mask byte of the same  *)
(* offset, and no other byte is touched, wherever the region starts and    *)
(* whatever is left over for the narrower loops.                           *)
(***************************************************************************)
InRegion(a) == a \in call.dptr .. call.dptr + call.size - 1
Partner(a) == call.mask + (a - call.dptr)

EachByteOnce ==
  /\ \A a \in Addresses : mem[a] = {} \/ (InRegion(a) /\ mem[a] = {Partner(a)})
  /\ pc = "done" => \A a \in Addresses : InRegion(a) => mem[a] = {Partner(a)}

(***************************************************************************)
(* MAX_SCALAR_LOAD_ALIGNED and MAX_SCALAR_STORE_ALIGNED only get aligned   *)
(* addresses; with AVX2 any other is a fault.                              *)
(***************************************************************************)
AlignedScalars ==
  pc \in {"unrolled", "scalars"} /\ size >= scalar =>
    /\ UnalignedTail(dptr) = 0
    /\ both => UnalignedTail(mask) = 0

\* xor_memory_region returns: every round of every loop leaves it less to do.
Returns == <>(pc = "done")

=============================================================================
