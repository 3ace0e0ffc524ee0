-------------------------- MODULE XorRegionProofs ---------------------------
(***************************************************************************)
(* Proofs about XorRegion, for all targets, addresses and sizes.           *)
(***************************************************************************)
EXTENDS XorRegion, TLAPS

-----------------------------------------------------------------------------
(* Alignment *)

\* What UnalignedTail(p) = 0 is, for the widths there are.
LEMMA AlignedMoves ==
  ASSUME scalar \in {4, 8, 16, 32}, NEW p \in Nat
  PROVE  /\ UnalignedTail(p) \in 0 .. scalar - 1
         /\ UnalignedTail(p) = 0 => UnalignedTail(p + scalar) = 0
         /\ UnalignedTail(p) = 0 => UnalignedTail(p + 4 * scalar) = 0
         /\ UnalignedTail(p + (scalar - UnalignedTail(p))) = 0
  <1>1. CASE scalar = 4
    BY <1>1 DEF UnalignedTail
  <1>2. CASE scalar = 8
    BY <1>2 DEF UnalignedTail
  <1>3. CASE scalar = 16
    BY <1>3 DEF UnalignedTail
  <1>4. CASE scalar = 32
    BY <1>4 DEF UnalignedTail
  <1>5. QED
    BY <1>1, <1>2, <1>3, <1>4

\* The widths of max_scalar.h, whichever target it is.
LEMMA BuildsAre == Builds \subseteq {4, 8, 16, 32}
  <1>1. 256 \div 8 = 32 /\ 128 \div 8 = 16 /\ 64 \div 8 = 8 /\ 32 \div 8 = 4
    OBVIOUS
  <1>2. QED
    BY <1>1 DEF Builds, MAX_SCALAR_BYTES, MAX_SCALAR_SIZE

-----------------------------------------------------------------------------
(* The inductive invariant *)

\* The narrow loops, and the wide ones.
Simple == {"quads", "doubles", "bytes"}
Wide == {"unrolled", "scalars"}

\* Where the loops have got to: the bytes before dptr are done, those from it are not.
Progressed ==
  /\ call.dptr <= dptr
  /\ dptr + size + rest = call.dptr + call.size
  /\ mask + call.dptr = call.mask + dptr
  /\ mem = [a \in Addresses |-> IF a \in call.dptr .. dptr - 1 THEN {Partner(a)} ELSE {}]

\* What is left for later ends the unaligned head; the wide loops are past it.
Aligned ==
  /\ rest # 0 => pc \in Simple /\ UnalignedTail(dptr + size) = 0
  /\ pc \in {"body"} \cup Wide => UnalignedTail(dptr) = 0
  /\ pc \in Wide /\ both => UnalignedTail(mask) = 0

RegionInv ==
  /\ scalar \in {4, 8, 16, 32}
  /\ call \in [dptr : Nat, mask : Nat, size : Nat]
  /\ dptr \in Nat /\ mask \in Nat /\ size \in Nat /\ rest \in Nat /\ both \in BOOLEAN
  /\ pc \in {"entry", "body", "done"} \cup Simple \cup Wide
  /\ pc = "done" => size = 0 /\ rest = 0
  /\ Progressed
  /\ Aligned

\* The call has only just been made.
LEMMA InitRegionInv == Init => RegionInv
  <1> SUFFICES ASSUME Init PROVE RegionInv
    OBVIOUS
  <1>1. scalar \in {4, 8, 16, 32}
    BY BuildsAre DEF Init
  <1>2. call \in [dptr : Nat, mask : Nat, size : Nat]
    BY RegionAssumption DEF Init
  <1>3. Progressed
    <2>1. \A a \in Addresses : a \notin call.dptr .. dptr - 1
      BY <1>2 DEF Init
    <2>2. mem = [a \in Addresses |-> IF a \in call.dptr .. dptr - 1 THEN {Partner(a)} ELSE {}]
      BY <2>1 DEF Init
    <2>3. QED
      BY <1>2, <2>2 DEF Init, Progressed
  <1>4. Aligned
    BY DEF Init, Aligned, Simple, Wide
  <1>5. QED
    BY <1>1, <1>2, <1>3, <1>4 DEF Init, RegionInv

-----------------------------------------------------------------------------
(* Every step keeps it *)

\* One round of a loop takes the next n bytes.
LEMMA XorBytesProgresses ==
  ASSUME RegionInv, NEW n \in Nat, n <= size, XorBytes(n)
  PROVE  /\ Progressed'
         /\ dptr' \in Nat /\ mask' \in Nat /\ size' \in Nat
  <1>1. /\ call \in [dptr : Nat, mask : Nat, size : Nat]
        /\ dptr \in Nat /\ mask \in Nat /\ size \in Nat /\ rest \in Nat
        /\ Progressed
    BY DEF RegionInv
  <1>2. /\ dptr' = dptr + n /\ mask' = mask + n /\ size' = size - n
        /\ call' = call /\ rest' = rest
        /\ mem' = [a \in Addresses |->
                    IF a \in dptr .. dptr + n - 1 THEN Toggle(mask + (a - dptr), mem[a])
                    ELSE mem[a]]
    BY DEF XorBytes
  <1>3. ASSUME NEW a \in Addresses
        PROVE  mem'[a] = IF a \in call.dptr .. dptr' - 1 THEN {Partner(a)} ELSE {}
    <2>1. mem[a] = IF a \in call.dptr .. dptr - 1 THEN {Partner(a)} ELSE {}
      BY <1>1 DEF Progressed
    <2>2. CASE a \in dptr .. dptr + n - 1
      <3>1. a \notin call.dptr .. dptr - 1 /\ a \in call.dptr .. dptr' - 1
        BY <1>1, <1>2, <2>2 DEF Progressed
      <3>2. mask + (a - dptr) = Partner(a)
        BY <1>1, <2>2 DEF Progressed, Partner
      <3>3. QED
        BY <1>2, <2>1, <2>2, <3>1, <3>2 DEF Toggle
    <2>3. CASE a \notin dptr .. dptr + n - 1
      <3>1. a \in call.dptr .. dptr' - 1 <=> a \in call.dptr .. dptr - 1
        BY <1>1, <1>2, <2>3 DEF Progressed
      <3>2. QED
        BY <1>2, <2>1, <2>3, <3>1
    <2>4. QED
      BY <2>2, <2>3
  <1>4. mem' = [a \in Addresses |-> mem'[a]]
    BY <1>2
  <1>5. mem' = [a \in Addresses |-> IF a \in call.dptr .. dptr' - 1 THEN {Partner(a)} ELSE {}]
    BY <1>3, <1>4
  <1>6. /\ dptr' \in Nat /\ mask' \in Nat /\ size' \in Nat
        /\ call.dptr <= dptr' /\ dptr' + size' + rest = call.dptr + call.size
        /\ mask' + call.dptr = call.mask + dptr'
    BY <1>1, <1>2 DEF Progressed
  <1>7. \A a \in Addresses : Partner(a)' = Partner(a)
    BY <1>2 DEF Partner
  <1>8. QED
    BY <1>2, <1>5, <1>6, <1>7 DEF Progressed

\* The narrow loops.
LEMMA SimpleKeepsRegionInv ==
  ASSUME RegionInv, __xor_memory_region_simple PROVE RegionInv'
  <1>1. PICK n \in {1, 4, 8} : /\ XorBytes(n) /\ n <= size
                               /\ pc \in Simple /\ pc' \in Simple
    BY DEF __xor_memory_region_simple, Quads, Doubles, Bytes, AtBytes, MoreBytes, Simple,
           RegionInv
  <1>2. Progressed' /\ dptr' \in Nat /\ mask' \in Nat /\ size' \in Nat
    BY <1>1, XorBytesProgresses
  <1>3. Aligned'
    <2>1. dptr' + size' = dptr + size /\ rest' = rest /\ scalar' = scalar
      BY <1>1 DEF XorBytes, RegionInv
    <2>2. UnalignedTail(dptr + size)' = UnalignedTail(dptr + size)
      BY <2>1 DEF UnalignedTail
    <2>3. QED
      BY <1>1, <2>1, <2>2 DEF Aligned, RegionInv, Simple, Wide
  <1>4. QED
    BY <1>1, <1>2, <1>3 DEF RegionInv, XorBytes, Simple

\* The wide loops keep what they find aligned.
LEMMA WideKeepsRegionInv ==
  ASSUME RegionInv, Unrolled \/ Scalars PROVE RegionInv'
  <1>0. scalar \in {4, 8, 16, 32} /\ dptr \in Nat /\ mask \in Nat /\ size \in Nat
    BY DEF RegionInv
  <1>1. PICK n \in {scalar, 4 * scalar} : /\ XorBytes(n) /\ n <= size
                                          /\ pc \in Wide /\ pc' \in Wide
    BY <1>0 DEF Unrolled, Scalars, Wide
  <1>2. n \in Nat
    BY <1>0, <1>1
  <1>3. Progressed' /\ dptr' \in Nat /\ mask' \in Nat /\ size' \in Nat
    BY <1>1, <1>2, XorBytesProgresses
  <1>4. Aligned'
    <2>1. rest = 0 /\ UnalignedTail(dptr) = 0 /\ (both => UnalignedTail(mask) = 0)
      BY <1>1 DEF RegionInv, Aligned, Simple, Wide
    <2>2. UnalignedTail(dptr + n) = 0 /\ (both => UnalignedTail(mask + n) = 0)
      BY <1>0, <1>1, <2>1, AlignedMoves
    <2>3. UnalignedTail(dptr)' = 0 /\ (both' => UnalignedTail(mask)' = 0)
      BY <1>1, <2>2 DEF XorBytes, UnalignedTail
    <2>4. QED
      BY <1>1, <2>1, <2>3 DEF Aligned, XorBytes, Wide
  <1>5. QED
    BY <1>1, <1>3, <1>4 DEF RegionInv, XorBytes, Wide

\* The steps between the loops.
LEMMA BetweenKeepsRegionInv ==
  ASSUME RegionInv, xor_memory_region \/ Remaining PROVE RegionInv'
  <1>1. /\ scalar \in {4, 8, 16, 32} /\ dptr \in Nat /\ mask \in Nat /\ size \in Nat
        /\ rest \in Nat /\ call \in [dptr : Nat, mask : Nat, size : Nat]
        /\ Progressed /\ Aligned
    BY DEF RegionInv
  <1>2. CASE Head
    <2> DEFINE count == scalar - UnalignedTail(dptr)
    <2>1. UnalignedTail(dptr) \in 0 .. scalar - 1 /\ UnalignedTail(dptr + count) = 0
      BY <1>1, AlignedMoves
    <2>2. count \in Nat
      BY <1>1, <2>1
    <2>3. /\ pc = "entry" /\ pc' = "quads" /\ UNCHANGED <<scalar, call, dptr, mask, both, mem>>
          /\ IF size <= count THEN UNCHANGED <<size, rest>>
             ELSE size' = count /\ rest' = size - count
      BY <1>2 DEF Head
    <2>4. rest = 0
      BY <1>1, <2>3 DEF Aligned, Simple
    <2> HIDE DEF count
    <2>5. size' \in Nat /\ rest' \in Nat /\ size' + rest' = size + rest
      BY <1>1, <2>2, <2>3, <2>4
    <2>6. Progressed'
      <3>1. dptr + size' + rest' = call.dptr + call.size
        <4>1. dptr + size + rest = call.dptr + call.size
          BY <1>1 DEF Progressed
        <4>2. dptr + size' + rest' = dptr + (size' + rest') /\ dptr + size + rest = dptr + (size + rest)
          BY <1>1, <2>5
        <4>3. QED
          BY <2>5, <4>1, <4>2
      <3>2. QED
        BY <1>1, <2>3, <3>1 DEF Progressed, Partner
    <2>7. Aligned'
      <3>1. rest' # 0 => size' = count
        BY <2>3, <2>4
      <3>2. rest' # 0 => UnalignedTail(dptr + size)' = 0
        BY <2>1, <2>3, <3>1 DEF UnalignedTail
      <3>3. QED
        BY <2>3, <3>2 DEF Aligned, Simple, Wide
    <2>8. QED
      BY <2>3, <2>5, <2>6, <2>7 DEF RegionInv, Simple
  <1>3. CASE NoHead \/ Body
    <2>1. /\ UNCHANGED <<scalar, call, dptr, mask, size, rest, mem>>
          /\ pc \in {"entry", "body"} /\ pc' \in {"body", "unrolled", "quads"}
          /\ UnalignedTail(dptr) = 0
          /\ pc' = "unrolled" => both' = (UnalignedTail(mask) = 0)
          /\ both' \in BOOLEAN
      BY <1>1, <1>3 DEF NoHead, Body, Aligned, RegionInv
    <2>2. Progressed'
      BY <1>1, <2>1 DEF Progressed, Partner
    <2>3. Aligned'
      <3>1. rest = 0
        BY <1>1, <2>1 DEF Aligned, Simple
      <3>2. QED
        BY <2>1, <3>1 DEF Aligned, Simple, Wide, UnalignedTail
    <2>4. QED
      BY <2>1, <2>2, <2>3 DEF RegionInv, Simple, Wide
  <1>4. CASE Return
    <2>1. /\ pc \in Simple /\ size = 0
          /\ pc' = (IF rest = 0 THEN "done" ELSE "body")
          /\ dptr' = (IF rest = 0 THEN dptr ELSE call.dptr + (call.size - rest))
          /\ mask' = (IF rest = 0 THEN mask ELSE call.mask + (call.size - rest))
          /\ size' = rest /\ rest' = 0
          /\ UNCHANGED <<scalar, call, both, mem>>
      BY <1>1, <1>4 DEF Return, AtBytes, MoreBytes, Simple
    <2>2. dptr' = dptr /\ mask' = mask
      BY <1>1, <2>1 DEF Progressed
    <2>3. Progressed'
      BY <1>1, <2>1, <2>2 DEF Progressed, Partner
    <2>4. rest # 0 => UnalignedTail(dptr) = 0
      BY <1>1, <2>1 DEF Aligned
    <2>5. Aligned'
      BY <2>1, <2>2, <2>4 DEF Aligned, Wide, UnalignedTail
    <2>6. QED
      BY <1>1, <2>1, <2>2, <2>3, <2>5 DEF RegionInv
  <1>5. CASE Remaining
    <2>1. /\ pc \in Wide /\ pc' = (IF size = 0 THEN "done" ELSE "quads")
          /\ UNCHANGED <<scalar, call, dptr, mask, size, rest, both, mem>>
      BY <1>5 DEF Remaining, Wide
    <2>2. rest = 0
      BY <1>1, <2>1 DEF Aligned, Simple, Wide
    <2>3. Progressed'
      BY <1>1, <2>1 DEF Progressed, Partner
    <2>4. Aligned'
      BY <2>1, <2>2 DEF Aligned, Wide
    <2>5. QED
      BY <1>1, <2>1, <2>2, <2>3, <2>4 DEF RegionInv, Simple
  <1>6. QED
    BY <1>2, <1>3, <1>4, <1>5 DEF xor_memory_region

\* The loops, and what comes between them.
LEMMA NextKeepsRegionInv == RegionInv /\ [Next]_vars => RegionInv'
  <1> SUFFICES ASSUME RegionInv, [Next]_vars PROVE RegionInv'
    OBVIOUS
  <1>1. CASE UNCHANGED vars
    BY <1>1 DEF vars, RegionInv, Progressed, Aligned, Partner, UnalignedTail
  <1>2. CASE Next
    BY <1>1, <1>2, SimpleKeepsRegionInv, WideKeepsRegionInv, BetweenKeepsRegionInv
       DEF Next, __xor_memory_region_aligned_both, __xor_memory_region_aligned_dptr
  <1>3. QED
    BY <1>1, <1>2

\* What the invariant says of the memory and of the scalars to come.
LEMMA RegionInvSays == RegionInv => EachByteOnce /\ AlignedScalars
  <1> SUFFICES ASSUME RegionInv PROVE EachByteOnce /\ AlignedScalars
    OBVIOUS
  <1>1. ASSUME NEW a \in Addresses
        PROVE  /\ mem[a] = {} \/ (InRegion(a) /\ mem[a] = {Partner(a)})
               /\ pc = "done" => (InRegion(a) => mem[a] = {Partner(a)})
    <2>1. mem[a] = IF a \in call.dptr .. dptr - 1 THEN {Partner(a)} ELSE {}
      BY DEF RegionInv, Progressed
    <2>2. a \in call.dptr .. dptr - 1 => InRegion(a)
      BY DEF RegionInv, Progressed, InRegion
    <2>3. pc = "done" /\ InRegion(a) => a \in call.dptr .. dptr - 1
      BY DEF RegionInv, Progressed, InRegion
    <2>4. QED
      BY <2>1, <2>2, <2>3
  <1>2. AlignedScalars
    BY DEF RegionInv, Aligned, AlignedScalars, Wide
  <1>3. QED
    BY <1>1, <1>2 DEF EachByteOnce

-----------------------------------------------------------------------------
(* Theorems *)

(***************************************************************************)
(* At every round the bytes before dptr are XORed with their partners, the *)
(* rest is not, and what is left for the wide loops starts aligned.        *)
(***************************************************************************)
THEOREM RegionInvariant == Spec => []RegionInv
  BY InitRegionInv, NextKeepsRegionInv, PTL DEF Spec

(***************************************************************************)
(* xor_memory_region XORs every byte of the region with the mask byte of   *)
(* its offset, once, and no other byte, for every address, every size and  *)
(* every width of the scalars.                                             *)
(***************************************************************************)
THEOREM XoredOnce == Spec => []EachByteOnce
  BY RegionInvariant, RegionInvSays, PTL

(***************************************************************************)
(* The aligned loads and stores of xor_memory_region get aligned addresses *)
(* only, whatever dptr, mask and size it is called with.                   *)
(***************************************************************************)
THEOREM ScalarsAreAligned == Spec => []AlignedScalars
  BY RegionInvariant, RegionInvSays, PTL

=============================================================================
