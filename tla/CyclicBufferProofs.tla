------------------------- MODULE CyclicBufferProofs -------------------------
(***************************************************************************)
(* Proofs about CyclicBuffer, for every size of the buffer, every amount   *)
(* of data, every set of requests and every assignment of threads: the     *)
(* counters, then where the bytes are, then the refinement of RecodeStream *)
(* - a fetch_add downstream is a step of the stream, everything else a     *)
(* stutter.                                                                *)
(***************************************************************************)
EXTENDS CyclicBuffer, TLAPS

-----------------------------------------------------------------------------
(* uint32_t arithmetic and indexes *)

\* A uint32_t addition that stays below Word is plain addition.
LEMMA Add32NoWrap ==
  ASSUME NEW x \in Nat, NEW y \in Nat, x + y < Word
  PROVE  Add32(x, y) = x + y
  BY SizesAssumption DEF Add32

\* A uint32_t subtraction of no more than is there is plain subtraction.
LEMMA Sub32NoWrap ==
  ASSUME NEW x \in Nat, NEW y \in Nat, y <= x, x < Word
  PROVE  Sub32(x, y) = x - y
  BY SizesAssumption DEF Sub32

\* Advancing leads from an index of the region to one of the region.
LEMMA NextIdxInSlots ==
  ASSUME NEW i \in Slots, NEW n \in 0 .. TotalSize
  PROVE  NextIdx(i, n) \in Slots
  BY SizesAssumption DEF NextIdx, Slots

\* Going round once is the only wrapping an index does.
LEMMA NextIdxIsSlotAt ==
  ASSUME NEW i \in Slots, NEW n \in 0 .. TotalSize
  PROVE  NextIdx(i, n) = SlotAt(i, n)
  BY SizesAssumption DEF NextIdx, SlotAt, Slots

\* The way from one slot to another is shorter than the region.
LEMMA OffsetInRange ==
  ASSUME NEW i \in Slots, NEW s \in Slots
  PROVE  Offset(i, s) \in 0 .. TotalSize - 1 /\ SlotAt(i, Offset(i, s)) = s
  BY SizesAssumption DEF Offset, SlotAt, Slots

\* A region is the set of slots that lie less than n into it.
LEMMA RegionIsOffsets ==
  ASSUME NEW i \in Slots, NEW n \in 0 .. TotalSize, NEW s \in Slots
  PROVE  s \in Region(i, n) <=> Offset(i, s) < n
  BY SizesAssumption DEF Region, Offset, Slots

-----------------------------------------------------------------------------
(* Counters *)

\* What the counters say about the positions of the three roles.
LEMMA Positions ==
  ASSUME TypeOK, CounterInv
  PROVE  /\ available["recoder"] = Published("writer") - b_idx["recoder"]
         /\ available["reader"] = Published("recoder") - b_idx["reader"]
         /\ available["writer"] = Published("reader") - b_idx["writer"] + TotalSize
         /\ \A r \in Roles : /\ available[r] \in Nat /\ size[r] \in Nat /\ b_idx[r] \in Nat
                             /\ Published(r) \in Nat /\ Touched(r) \in Nat
                             /\ size[r] <= TotalSize
                             /\ b_idx[r] <= Published(r)
                             /\ Published(r) <= Touched(r)
                             /\ Touched(r) <= b_idx[r] + size[r]
                             /\ pc[r] = "idle" => Touched(r) = b_idx[r]
                             /\ pc[r] # "idle" => size[r] <= available[r]
  <1>1. \A r \in Roles : Balance(r) /\ Covered(r)
    BY DEF CounterInv
  <1>2. \A r \in Roles : /\ available[r] \in Nat /\ size[r] \in Nat /\ b_idx[r] \in Nat
                         /\ size[r] <= TotalSize
    BY SizesAssumption DEF TypeOK
  <1>3. QED
    BY <1>1, <1>2, SizesAssumption
       DEF Roles, Balance, Covered, Downstream, Published, Touched

\* No counter exceeds twice the size, and an idle role's not even the size.
LEMMA CounterBounds ==
  ASSUME TypeOK, CounterInv
  PROVE  /\ \A r \in Roles : available[r] <= 2 * TotalSize
         /\ \A r \in Roles : pc[r] = "idle" => available[r] <= TotalSize
  <1> USE SizesAssumption, Positions DEF Roles
  <1>1. Published("recoder") <= Published("writer")
    BY DEF Published
  <1>2. Published("reader") <= Published("recoder")
    BY DEF Published
  <1>3. Published("writer") <= Published("reader") + TotalSize
    BY DEF Published
  <1>4. \A r \in Roles : Published(r) <= b_idx[r] + TotalSize
    BY DEF Published
  <1>5. \A r \in Roles : pc[r] = "idle" => Published(r) = b_idx[r]
    BY DEF Published
  <1>6. QED
    BY <1>1, <1>2, <1>3, <1>4, <1>5

\* So a fetch_add never wraps around.
LEMMA PublishFits ==
  ASSUME TypeOK, CounterInv, NEW r \in Roles, pc[r] = "add"
  PROVE  available[Downstream(r)] + size[r] <= 2 * TotalSize
  <1> USE SizesAssumption, Positions DEF Roles
  <1>1. Published("recoder") <= Published("writer")
    BY DEF Published
  <1>2. Published("reader") <= Published("recoder")
    BY DEF Published
  <1>3. \A s \in Roles : Published(s) <= b_idx[s] + TotalSize
    BY DEF Published
  <1>4. Published(r) = b_idx[r]
    BY DEF Published
  <1>5. CASE r = "writer"
    BY <1>1, <1>2, <1>3, <1>4, <1>5 DEF Downstream
  <1>6. CASE r = "recoder"
    <2>1. Published("writer") <= Published("reader") + TotalSize
      BY DEF Published
    <2>2. QED
      BY <2>1, <1>1, <1>2, <1>3, <1>4, <1>6 DEF Downstream
  <1>7. CASE r = "reader"
    <2>1. Published("writer") >= b_idx["writer"]
      OBVIOUS
    <2>2. b_idx["reader"] + size["reader"] <= Published("recoder")
      BY <1>7
    <2>3. Published("recoder") <= b_idx["writer"] + TotalSize
      BY <1>1, <1>3
    <2>4. QED
      BY <2>1, <2>2, <2>3, <1>4, <1>7 DEF Downstream
  <1>8. QED
    BY <1>5, <1>6, <1>7

-----------------------------------------------------------------------------
(* The inductive invariant of the counters *)

IInv == TypeOK /\ CounterInv

\* cyclic_buffer_init: all the room belongs to the writer.
LEMMA InitIInv == Init => IInv
  <1> SUFFICES ASSUME Init PROVE IInv
    OBVIOUS
  <1> USE SizesAssumption DEF Init
  <1>1. TypeOK
    BY DEF TypeOK, Byte, Raw, NoByte, Slots, Roles
  <1>2. \A r \in Roles : Balance(r) /\ Covered(r)
    BY DEF Balance, Covered, Published, Downstream, Roles
  <1>3. OneAtATime /\ NothingNew
    BY DEF OneAtATime, NothingNew, Roles
  <1>4. QED
    BY <1>1, <1>2, <1>3 DEF IInv, CounterInv

\* Starting an operation, which ThreadIdle keeps apart from the thread's others.
LEMMA StartKeepsIInv ==
  ASSUME IInv, NEW r \in Roles, NEW n \in Nat,
         n <= available[r],
         Recoding = "none" /\ r = "recoder" => n = available[r],
         ThreadIdle(r),
         size' = [size EXCEPT ![r] = n],
         Goto(r, "copy"),
         UNCHANGED <<data, idx, available, b_idx, dest>>
  PROVE  IInv'
  <1>1. TypeOK /\ CounterInv
    BY DEF IInv
  <1>2. pc[r] = "idle" /\ n \in 0 .. TotalSize
    <2>1. pc[r] = "idle"
      BY DEF ThreadIdle
    <2>2. QED
      BY <1>1, <2>1, CounterBounds, Positions, SizesAssumption
  <1>3. pc' = [pc EXCEPT ![r] = "copy"]
    BY DEF Goto
  <1>4. TypeOK'
    BY <1>1, <1>2, <1>3 DEF TypeOK
  <1>5. ASSUME NEW s \in Roles
        PROVE  Balance(s)' /\ Covered(s)'
    <2>1. Balance(s) /\ Covered(s)
      BY <1>1 DEF CounterInv
    <2>2. Published(s)' = Published(s)
      BY <1>1, <1>2, <1>3 DEF Published, TypeOK
    <2>3. Balance(s)'
      BY <2>1, <2>2 DEF Balance
    <2>4. Covered(s)'
      BY <2>1, <1>1, <1>3 DEF Covered, TypeOK
    <2>5. QED
      BY <2>3, <2>4
  <1>6. OneAtATime'
    BY <1>1, <1>3 DEF ThreadIdle, CounterInv, OneAtATime, TypeOK
  <1>7. NothingNew'
    BY <1>1, <1>3 DEF CounterInv, NothingNew, TypeOK, Roles
  <1>8. QED
    BY <1>4, <1>5, <1>6, <1>7 DEF IInv, CounterInv

\* The load of a counter and the MIN with the caller's size.
LEMMA LoadKeepsIInv ==
  ASSUME IInv, NEW r \in Roles, NEW max \in Nat, Load(r, max),
         Recoding = "xor" \/ r # "recoder"
  PROVE  IInv'
  <1> DEFINE n == MIN(available[r], max)
  <1>1. available[r] \in Nat
    BY SizesAssumption DEF IInv, TypeOK
  <1>2. n \in Nat /\ n <= available[r]
    BY <1>1 DEF MIN
  <1>3. /\ ThreadIdle(r) /\ Goto(r, "copy")
        /\ size' = [size EXCEPT ![r] = n]
        /\ UNCHANGED <<data, idx, available, b_idx, dest>>
    BY DEF Load
  <1> HIDE DEF n
  <1>4. QED
    BY <1>2, <1>3, StartKeepsIInv

\* The load of cyclic_buffer_recode_none, which has no size to compare with.
LEMMA NoneLoadKeepsIInv == ASSUME IInv, NoneLoad PROVE IInv'
  <1> DEFINE r == "recoder"
             n == available[r]
  <1>1. r \in Roles /\ n \in Nat /\ n <= available[r]
    BY SizesAssumption DEF IInv, TypeOK, Roles
  <1>2. /\ ThreadIdle(r) /\ Goto(r, "copy")
        /\ size' = [size EXCEPT ![r] = n]
        /\ UNCHANGED <<data, idx, available, b_idx, dest>>
    BY DEF NoneLoad
  <1>3. r = "recoder" => n = available[r]
    OBVIOUS
  <1> HIDE DEF r, n
  <1>4. QED
    BY <1>1, <1>2, <1>3, StartKeepsIInv

\* Copying and advancing the index is nothing to the counters.
LEMMA AdvanceKeepsIInv ==
  ASSUME IInv, NEW r \in Roles, NEW next \in Slots, Advance(r, next),
         data' \in [Slots -> Byte], dest' \in [0 .. DataLen - 1 -> Byte]
  PROVE  IInv'
  <1>1. TypeOK /\ CounterInv
    BY DEF IInv
  <1>2. /\ pc[r] = "copy" /\ pc' = [pc EXCEPT ![r] = "add"]
        /\ idx' = [idx EXCEPT ![r] = next]
        /\ UNCHANGED <<available, size, b_idx>>
    BY DEF Advance, Goto
  <1>3. TypeOK'
    BY <1>1, <1>2 DEF TypeOK
  <1>4. ASSUME NEW s \in Roles
        PROVE  Balance(s)' /\ Covered(s)'
    <2>1. Balance(s) /\ Covered(s)
      BY <1>1 DEF CounterInv
    <2>2. Published(s)' = Published(s)
      BY <1>1, <1>2 DEF Published, TypeOK
    <2>3. Balance(s)'
      BY <2>1, <2>2, <1>2 DEF Balance
    <2>4. Covered(s)'
      BY <2>1, <1>1, <1>2 DEF Covered, TypeOK
    <2>5. QED
      BY <2>3, <2>4
  <1>5. OneAtATime'
    BY <1>1, <1>2 DEF CounterInv, OneAtATime, TypeOK
  <1>6. NothingNew'
    BY <1>1, <1>2 DEF CounterInv, NothingNew, TypeOK, Roles
  <1>7. QED
    BY <1>3, <1>4, <1>5, <1>6 DEF IInv, CounterInv

\* The fetch_add: what the role has published and the counter grow alike.
LEMMA PublishKeepsIInv ==
  ASSUME IInv, NEW r \in Roles, Publish(r),
         Recoding = "none" => ThreadOf["writer"] = ThreadOf["recoder"]
  PROVE  IInv'
  <1> DEFINE d == Downstream(r)
  <1>1. TypeOK /\ CounterInv
    BY DEF IInv
  <1>2. /\ pc[r] = "add" /\ pc' = [pc EXCEPT ![r] = "sub"]
        /\ UNCHANGED <<data, idx, size, b_idx, dest>>
    BY DEF Publish, Goto
  <1>3. d \in Roles /\ d # r
    BY DEF Downstream, Roles
  <1>4. available[d] \in Nat /\ size[r] \in Nat /\ available[d] + size[r] < Word
    BY <1>1, <1>2, <1>3, PublishFits, SizesAssumption DEF TypeOK
  <1>5. available' = [available EXCEPT ![d] = available[d] + size[r]]
    BY <1>4, Add32NoWrap DEF Publish
  <1>6. TypeOK'
    <2>1. available[d] + size[r] \in 0 .. Word - 1
      BY <1>4, SizesAssumption
    <2>2. available' \in [Roles -> 0 .. Word - 1]
      BY <1>1, <1>5, <2>1 DEF TypeOK
    <2>3. QED
      BY <1>1, <1>2, <2>2 DEF TypeOK
  <1>7. ASSUME NEW s \in Roles
        PROVE  Balance(s)' /\ Covered(s)'
    <2>1. Balance(s) /\ Covered(s)
      BY <1>1 DEF CounterInv
    <2>2. \A q \in Roles : b_idx[q] \in Nat /\ available[q] \in Nat /\ size[q] \in Nat
      BY <1>1, SizesAssumption DEF TypeOK
    <2>3. s # r => Published(s)' = Published(s) /\ Downstream(s) # d
      BY <1>1, <1>2 DEF Published, TypeOK, Downstream, Roles
    <2>4. Published(r)' = Published(r) + size[r]
      BY <1>1, <1>2, <2>2 DEF Published, TypeOK
    <2>5. Published(s) \in Nat /\ Downstream(s) \in Roles
      BY <2>2 DEF Published, Downstream, Roles
    <2>6. Balance(s)'
      <3>1. CASE s = r
        <4>1. available'[d] = available[d] + size[r]
          BY <1>1, <1>3, <1>5 DEF TypeOK
        <4>2. QED
          BY <4>1, <3>1, <2>1, <2>2, <2>4, <2>5, <1>2, SizesAssumption DEF Balance
      <3>2. CASE s # r
        <4>1. available'[Downstream(s)] = available[Downstream(s)]
          BY <1>1, <1>5, <2>3, <2>5, <3>2 DEF TypeOK
        <4>2. QED
          BY <4>1, <3>2, <2>1, <2>3, <1>2 DEF Balance
      <3>3. QED
        BY <3>1, <3>2
    <2>7. Covered(s)'
      BY <2>1, <2>2, <1>1, <1>2, <1>3, <1>5 DEF Covered, TypeOK
    <2>8. QED
      BY <2>6, <2>7
  <1>8. OneAtATime'
    BY <1>1, <1>2 DEF CounterInv, OneAtATime, TypeOK
  <1>9. NothingNew'
    <2> SUFFICES ASSUME Recoding = "none", pc'["recoder"] # "idle"
                 PROVE  size'["recoder"] = available'["recoder"]
      BY DEF NothingNew
    <2>1. pc["recoder"] # "idle"
      BY <1>1, <1>2 DEF TypeOK, Roles
    <2>2. r # "writer"
      BY <1>1, <1>2, <2>1 DEF CounterInv, OneAtATime, Roles
    <2>3. available'["recoder"] = available["recoder"]
      BY <1>1, <1>5, <2>2 DEF TypeOK, Downstream, Roles
    <2>4. QED
      BY <1>1, <1>2, <2>1, <2>3 DEF CounterInv, NothingNew
  <1>10. QED
    BY <1>6, <1>7, <1>8, <1>9 DEF IInv, CounterInv

\* The end of an operation: the counter falls by what b_idx rises.
LEMMA ReturnKeepsIInv ==
  ASSUME IInv, NEW r \in Roles, NEW left \in Nat,
         left = available[r] - size[r], Return(r, left)
  PROVE  IInv'
  <1>1. TypeOK /\ CounterInv
    BY DEF IInv
  <1>2. /\ pc[r] = "sub" /\ pc' = [pc EXCEPT ![r] = "idle"]
        /\ available' = [available EXCEPT ![r] = left]
        /\ b_idx' = [b_idx EXCEPT ![r] = b_idx[r] + size[r]]
        /\ UNCHANGED <<data, idx, size, dest>>
    BY DEF Return, Goto
  <1>3. \A q \in Roles : b_idx[q] \in Nat /\ available[q] \in Nat /\ size[q] \in Nat
    BY <1>1, SizesAssumption DEF TypeOK
  <1>4. TypeOK'
    <2>1. left \in 0 .. Word - 1 /\ b_idx[r] + size[r] \in Nat
      BY <1>1, <1>3, SizesAssumption DEF TypeOK
    <2>2. QED
      BY <1>1, <1>2, <2>1 DEF TypeOK
  <1>5. ASSUME NEW s \in Roles
        PROVE  Balance(s)' /\ Covered(s)'
    <2>1. Balance(s) /\ Covered(s)
      BY <1>1 DEF CounterInv
    <2>2. Published(s)' = Published(s) /\ Published(s) \in Nat /\ Downstream(s) \in Roles
      BY <1>1, <1>2, <1>3 DEF Published, TypeOK, Downstream, Roles
    <2>3. available'[Downstream(s)] - available[Downstream(s)]
            = b_idx[Downstream(s)] - b_idx'[Downstream(s)]
      BY <1>1, <1>2, <1>3, <2>2 DEF TypeOK
    <2>4. b_idx'[Downstream(s)] \in Nat /\ available'[Downstream(s)] \in Nat
      BY <1>4, <2>2, SizesAssumption DEF TypeOK
    <2>5. Balance(s)'
      BY <2>1, <2>2, <2>3, <2>4, <1>3, SizesAssumption DEF Balance
    <2>6. Covered(s)'
      BY <2>1, <1>1, <1>2 DEF Covered, TypeOK
    <2>7. QED
      BY <2>5, <2>6
  <1>6. OneAtATime'
    BY <1>1, <1>2 DEF CounterInv, OneAtATime, TypeOK
  <1>7. NothingNew'
    BY <1>1, <1>2 DEF CounterInv, NothingNew, TypeOK, Roles
  <1>8. QED
    BY <1>4, <1>5, <1>6, <1>7 DEF IInv, CounterInv

-----------------------------------------------------------------------------
(* Every step keeps it *)

\* What a caller asks for is a number, also past the end of its data.
LEMMA WantedIsNat ==
  ASSUME TypeOK, NEW r \in Roles, b_idx[r] < DataLen, NEW max \in Wanted(r)
  PROVE  max \in Nat /\ max <= DataLen - b_idx[r] /\ b_idx[r] + max <= DataLen
  <1>1. max \in Nat /\ max <= DataLen - b_idx[r] /\ b_idx[r] \in Nat
    BY SizesAssumption DEF TypeOK, Wanted, MIN
  <1>2. QED
    BY <1>1, SizesAssumption

\* The fetch_sub on the own counter; recode_none stores 0, which is the same.
LEMMA ConsumeKeepsIInv ==
  ASSUME IInv, NEW r \in Roles, Consume(r)
  PROVE  IInv'
  <1> DEFINE left == available[r] - size[r]
  <1>1. pc[r] = "sub"
    BY DEF Consume, Return
  <1>2. available[r] \in Nat /\ size[r] \in Nat /\ size[r] <= available[r] /\ available[r] < Word
    BY <1>1, SizesAssumption DEF IInv, TypeOK, CounterInv, Covered
  <1>3. left \in Nat /\ left = available[r] - size[r] /\ Return(r, left)
    BY <1>2, Sub32NoWrap DEF Consume
  <1> HIDE DEF left
  <1>4. QED
    BY <1>3, ReturnKeepsIInv

\* The memcpy of cyclic_buffer_write and its new index.
LEMMA WriteCopyKeepsIInv == ASSUME IInv, WriteCopy PROVE IInv'
  <1> DEFINE r == "writer"
             next == NextIdx(idx[r], size[r])
  <1>1. r \in Roles /\ idx[r] \in Slots /\ size[r] \in 0 .. TotalSize /\ b_idx[r] \in Nat
    BY DEF IInv, TypeOK, Roles
  <1>2. next \in Slots
    BY <1>1, NextIdxInSlots
  <1>3. \A s \in Slots : Raw(b_idx["writer"] + Offset(idx["writer"], s)) \in Byte
    <2>1. \A s \in Slots : Offset(idx["writer"], s) \in Nat
      BY <1>1, OffsetInRange, SizesAssumption
    <2>2. QED
      BY <1>1, <2>1 DEF Raw, Byte
  <1>4. data' \in [Slots -> Byte] /\ dest' \in [0 .. DataLen - 1 -> Byte]
    BY <1>3 DEF WriteCopy, IInv, TypeOK
  <1>5. Advance(r, next)
    BY DEF WriteCopy
  <1> HIDE DEF r, next
  <1>6. QED
    BY <1>1, <1>2, <1>4, <1>5, AdvanceKeepsIInv

\* The XOR of cyclic_buffer_recode_xor and its new index.
LEMMA XorCopyKeepsIInv == ASSUME IInv, XorCopy(StreamMask) PROVE IInv'
  <1> DEFINE r == "recoder"
             next == NextIdx(idx[r], size[r])
  <1>1. r \in Roles /\ idx[r] \in Slots /\ size[r] \in 0 .. TotalSize /\ b_idx[r] \in Nat
    BY DEF IInv, TypeOK, Roles
  <1>2. next \in Slots
    BY <1>1, NextIdxInSlots
  <1>3. \A s \in Slots : StreamMask[Offset(idx["recoder"], s)] \in Nat
    <2>1. \A s \in Slots : Offset(idx["recoder"], s) \in 0 .. TotalSize
      BY <1>1, OffsetInRange, SizesAssumption
    <2>2. QED
      BY <1>1, <2>1 DEF StreamMask
  <1>4. \A b \in Byte : \A m \in Nat : [b EXCEPT !.mask = Toggle(m, @)] \in Byte
    BY DEF Byte, Toggle
  <1>5. data' \in [Slots -> Byte] /\ dest' \in [0 .. DataLen - 1 -> Byte]
    BY <1>3, <1>4 DEF XorCopy, IInv, TypeOK
  <1>6. Advance(r, next)
    BY DEF XorCopy
  <1> HIDE DEF r, next
  <1>7. QED
    BY <1>1, <1>2, <1>5, <1>6, AdvanceKeepsIInv

\* cyclic_buffer_recode_none only moves the index.
LEMMA NoneAdvanceKeepsIInv == ASSUME IInv, NoneAdvance PROVE IInv'
  <1> DEFINE r == "recoder"
             next == (idx[r] + size[r]) % TotalSize
  <1>1. r \in Roles /\ idx[r] \in Nat /\ size[r] \in Nat
    BY SizesAssumption DEF IInv, TypeOK, Roles, Slots
  <1>2. next \in Slots
    BY <1>1, SizesAssumption DEF Slots
  <1>3. data' \in [Slots -> Byte] /\ dest' \in [0 .. DataLen - 1 -> Byte]
    BY DEF NoneAdvance, IInv, TypeOK
  <1>4. Advance(r, next)
    BY DEF NoneAdvance
  <1> HIDE DEF r, next
  <1>5. QED
    BY <1>1, <1>2, <1>3, <1>4, AdvanceKeepsIInv

\* The memcpy of cyclic_buffer_read and its new index.
LEMMA ReadCopyKeepsIInv == ASSUME IInv, ReadCopy PROVE IInv'
  <1> DEFINE r == "reader"
             next == NextIdx(idx[r], size[r])
  <1>1. r \in Roles /\ idx[r] \in Slots /\ size[r] \in 0 .. TotalSize /\ b_idx[r] \in Nat
    BY DEF IInv, TypeOK, Roles
  <1>2. next \in Slots
    BY <1>1, NextIdxInSlots
  <1>3. ASSUME NEW k \in b_idx["reader"] .. b_idx["reader"] + size["reader"] - 1
        PROVE  SlotAt(idx["reader"], k - b_idx["reader"]) \in Slots
    BY <1>1, SizesAssumption DEF SlotAt, Slots
  <1>4. data' \in [Slots -> Byte] /\ dest' \in [0 .. DataLen - 1 -> Byte]
    BY <1>3 DEF ReadCopy, IInv, TypeOK
  <1>5. Advance(r, next)
    BY DEF ReadCopy
  <1> HIDE DEF r, next
  <1>6. QED
    BY <1>1, <1>2, <1>4, <1>5, AdvanceKeepsIInv

\* One case per action of Next.
LEMMA NextIInv == IInv /\ [Next]_vars => IInv'
  <1> SUFFICES ASSUME IInv, [Next]_vars PROVE IInv'
    OBVIOUS
  <1>0. /\ "writer" \in Roles /\ "recoder" \in Roles /\ "reader" \in Roles
        /\ TypeOK
    BY DEF Roles, IInv
  <1>1. CASE cyclic_buffer_write
    <2>1. ASSUME b_idx["writer"] < DataLen, NEW max \in Wanted("writer"), Load("writer", max)
          PROVE  IInv'
      BY <1>0, <2>1, WantedIsNat, LoadKeepsIInv
    <2>2. ASSUME Publish("writer") PROVE IInv'
      BY <1>0, <2>2, PublishKeepsIInv, RolesAssumption
    <2>3. QED
      BY <1>0, <1>1, <2>1, <2>2, WriteCopyKeepsIInv, ConsumeKeepsIInv DEF cyclic_buffer_write
  <1>2. CASE cyclic_buffer_recode_xor
    <2>1. Recoding = "xor" /\ Requests \subseteq Nat
      BY <1>2, SizesAssumption DEF cyclic_buffer_recode_xor
    <2>2. ASSUME NEW max \in Requests, Load("recoder", max) PROVE IInv'
      BY <1>0, <2>1, <2>2, LoadKeepsIInv
    <2>3. ASSUME Publish("recoder") PROVE IInv'
      BY <1>0, <2>3, PublishKeepsIInv, RolesAssumption
    <2>4. QED
      BY <1>0, <1>2, <2>2, <2>3, XorCopyKeepsIInv, ConsumeKeepsIInv
         DEF cyclic_buffer_recode_xor
  <1>3. CASE cyclic_buffer_recode_none
    <2>1. ASSUME Publish("recoder") PROVE IInv'
      BY <1>0, <2>1, PublishKeepsIInv, RolesAssumption
    <2>2. ASSUME Return("recoder", 0) PROVE IInv'
      <3>1. 0 \in Nat /\ 0 = available["recoder"] - size["recoder"]
        BY <1>3, <2>2, SizesAssumption
           DEF cyclic_buffer_recode_none, Return, IInv, TypeOK, CounterInv, NothingNew, Roles
      <3>2. QED
        BY <1>0, <2>2, <3>1, ReturnKeepsIInv
    <2>3. QED
      BY <1>3, <2>1, <2>2, NoneLoadKeepsIInv, NoneAdvanceKeepsIInv
         DEF cyclic_buffer_recode_none
  <1>4. CASE cyclic_buffer_read
    <2>1. ASSUME b_idx["reader"] < DataLen, NEW max \in Wanted("reader"), Load("reader", max)
          PROVE  IInv'
      BY <1>0, <2>1, WantedIsNat, LoadKeepsIInv
    <2>2. ASSUME Publish("reader") PROVE IInv'
      BY <1>0, <2>2, PublishKeepsIInv, RolesAssumption
    <2>3. QED
      BY <1>0, <1>4, <2>1, <2>2, ReadCopyKeepsIInv, ConsumeKeepsIInv DEF cyclic_buffer_read
  <1>5. CASE UNCHANGED vars
    BY <1>5 DEF vars, IInv, TypeOK, CounterInv, Balance, Covered, OneAtATime, NothingNew,
                Published
  <1>6. QED
    BY <1>1, <1>2, <1>3, <1>4, <1>5 DEF Next, Finished

-----------------------------------------------------------------------------
(* Theorems *)

(***************************************************************************)
(* The counters and the types are right in every reachable state.          *)
(***************************************************************************)
THEOREM Invariance == Spec => []IInv
  BY InitIInv, NextIInv, PTL DEF Spec

(***************************************************************************)
(* Each counter is what the role upstream has handed on, less what its     *)
(* owner has returned from, and covers the operation that is running.      *)
(***************************************************************************)
THEOREM CountersCorrect == Spec => []CounterInv
  <1>1. IInv => CounterInv
    BY DEF IInv
  <1>2. QED
    BY <1>1, Invariance, PTL

(***************************************************************************)
(* All variables keep their types; indexes stay inside the region.         *)
(***************************************************************************)
THEOREM TypeCorrect == Spec => []TypeOK
  <1>1. IInv => TypeOK
    BY DEF IInv
  <1>2. QED
    BY <1>1, Invariance, PTL

(***************************************************************************)
(* A counter never wraps around, although the fetch_add of a neighbour     *)
(* comes before the fetch_sub of the owner.                                *)
(***************************************************************************)
THEOREM NoCounterWraps == Spec => []CountersDoNotWrap
  <1>1. IInv => CountersDoNotWrap
    BY CounterBounds DEF IInv, CountersDoNotWrap
  <1>2. QED
    BY <1>1, Invariance, PTL

(***************************************************************************)
(* Between operations the counters split the buffer with nothing lost.     *)
(***************************************************************************)
THEOREM RoomIsConserved == Spec => []RoomConserved
  <1>1. ASSUME IInv PROVE RoomConserved
    BY <1>1, Positions, SizesAssumption DEF IInv, RoomConserved, Published, Roles
  <1>2. QED
    BY <1>1, Invariance, PTL

-----------------------------------------------------------------------------
(* Where the bytes are *)

(* Walking around the region *)

\* Two walks of at most one round together are one walk.
LEMMA WalkOn ==
  ASSUME NEW i \in Slots, NEW a \in Nat, NEW n \in Nat, a + n <= TotalSize
  PROVE  /\ SlotAt(i, a) \in Slots
         /\ SlotAt(SlotAt(i, a), n) = SlotAt(i, a + n)
  BY SizesAssumption DEF SlotAt, Slots

\* Which slots, counted from i, lie in a region that starts a slots after i.
LEMMA RegionFrom ==
  ASSUME NEW i \in Slots, NEW a \in Nat, NEW n \in Nat, a + n <= TotalSize,
         NEW o \in 0 .. TotalSize - 1
  PROVE  /\ SlotAt(i, o) \in Slots
         /\ SlotAt(i, o) \in Region(SlotAt(i, a), n) <=> a <= o /\ o < a + n
         /\ a <= o /\ o < a + n => Offset(SlotAt(i, a), SlotAt(i, o)) = o - a
  <1>1. SlotAt(i, o) \in Slots /\ SlotAt(i, a) \in Slots /\ n \in 0 .. TotalSize
    BY SizesAssumption DEF SlotAt, Slots
  <1>2. Offset(SlotAt(i, a), SlotAt(i, o)) < n <=> a <= o /\ o < a + n
    BY SizesAssumption DEF SlotAt, Slots, Offset
  <1>3. a <= o /\ o < a + n => Offset(SlotAt(i, a), SlotAt(i, o)) = o - a
    BY SizesAssumption DEF SlotAt, Slots, Offset
  <1>4. QED
    BY <1>1, <1>2, <1>3, RegionIsOffsets

\* The order of the roles in the stream, and what a running copy reaches.
LEMMA StreamOrder ==
  ASSUME IInv
  PROVE  /\ Ahead("recoder") \in Nat /\ Ahead("writer") \in Nat
         /\ Ahead("recoder") <= Ahead("writer") /\ Ahead("writer") <= TotalSize
         /\ pc["writer"] = "copy" => Ahead("writer") + size["writer"] <= TotalSize
         /\ pc["recoder"] = "copy" =>
              Ahead("recoder") + size["recoder"] <= Ahead("writer")
         /\ pc["reader"] = "copy" => size["reader"] <= Ahead("recoder")
         /\ \A r \in Roles : pc[r] = "copy" => Touched(r) = b_idx[r]
  <1> USE SizesAssumption DEF Roles
  <1>1. TypeOK /\ CounterInv
    BY DEF IInv
  <1>2. \A r \in Roles : pc[r] = "copy" => Touched(r) = b_idx[r]
    <2>1. \A r \in Roles : b_idx[r] \in Nat
      BY <1>1 DEF TypeOK
    <2>2. QED
      BY <2>1 DEF Touched
  <1>3. Touched("recoder") <= Published("writer")
        /\ (pc["recoder"] = "copy" =>
              b_idx["recoder"] + size["recoder"] <= Published("writer"))
    BY <1>1, Positions
  <1>4. Touched("reader") <= Published("recoder")
        /\ (pc["reader"] = "copy" =>
              b_idx["reader"] + size["reader"] <= Published("recoder"))
    BY <1>1, Positions
  <1>5. Touched("writer") <= Published("reader") + TotalSize
        /\ (pc["writer"] = "copy" =>
              b_idx["writer"] + size["writer"] <= Published("reader") + TotalSize)
    BY <1>1, Positions
  <1>6. \A r \in Roles : /\ Published(r) <= Touched(r)
                         /\ Published(r) \in Nat /\ Touched(r) \in Nat /\ size[r] \in Nat
    BY <1>1, Positions
  <1>7. QED
    BY <1>2, <1>3, <1>4, <1>5, <1>6 DEF Ahead

\* The three operators that read stream positions, one by one.
LEMMA SameTouched ==
  ASSUME ContentInv, UNCHANGED <<data, idx, dest>>,
         \A r \in Roles : Touched(r)' = Touched(r),
         WithinData'
  PROVE  ContentInv'
  <1>1. Ahead("writer")' = Ahead("writer") /\ Ahead("recoder")' = Ahead("recoder")
        /\ Touched("reader")' = Touched("reader")
    BY DEF Ahead, Roles
  <1>2. IndexesApart'
    BY <1>1 DEF ContentInv, IndexesApart
  <1>3. RegionHolds'
    BY <1>1 DEF ContentInv, RegionHolds
  <1>4. DestHolds'
    BY <1>1 DEF ContentInv, DestHolds
  <1>5. QED
    BY <1>2, <1>3, <1>4 DEF ContentInv

-----------------------------------------------------------------------------
(* Steps that touch no byte *)

FInv == IInv /\ ContentInv

\* An empty buffer has no bytes to be right about.
LEMMA InitFInv == Init => FInv
  <1> SUFFICES ASSUME Init PROVE FInv
    OBVIOUS
  <1> USE SizesAssumption DEF Init, Roles
  <1>1. \A r \in Roles : Touched(r) = 0
    BY DEF Touched
  <1>2. Ahead("writer") = 0 /\ Ahead("recoder") = 0
    BY <1>1 DEF Ahead
  <1>3. IndexesApart
    BY <1>2 DEF IndexesApart, SlotAt
  <1>4. RegionHolds
    BY <1>2 DEF RegionHolds
  <1>5. DestHolds
    BY <1>1 DEF DestHolds
  <1>6. WithinData
    BY DEF WithinData
  <1>7. QED
    BY <1>3, <1>4, <1>5, <1>6, InitIInv DEF FInv, ContentInv

\* Starting an operation moves no index and no byte.
LEMMA StartKeepsContent ==
  ASSUME FInv, NEW r \in Roles, NEW n \in Nat, ThreadIdle(r), Goto(r, "copy"),
         size' = [size EXCEPT ![r] = n],
         UNCHANGED <<data, idx, available, b_idx, dest>>,
         r # "recoder" => b_idx[r] + n <= DataLen
  PROVE  ContentInv'
  <1>1. TypeOK /\ ContentInv
    BY DEF FInv, IInv
  <1>2. pc[r] = "idle" /\ pc' = [pc EXCEPT ![r] = "copy"]
    BY DEF ThreadIdle, Goto
  <1>3. \A s \in Roles : Touched(s)' = Touched(s)
    BY <1>1, <1>2 DEF Touched, TypeOK
  <1>4. WithinData'
    BY <1>1, <1>2 DEF ContentInv, WithinData, TypeOK, Roles
  <1>5. QED
    BY <1>1, <1>3, <1>4, SameTouched

\* The load of a counter.
LEMMA LoadKeepsContent ==
  ASSUME FInv, NEW r \in Roles, NEW max \in Nat, Load(r, max),
         r # "recoder" => b_idx[r] + max <= DataLen
  PROVE  ContentInv'
  <1> DEFINE n == MIN(available[r], max)
  <1>1. available[r] \in Nat /\ b_idx[r] \in Nat
    BY SizesAssumption DEF FInv, IInv, TypeOK
  <1>2. n \in Nat /\ n <= max
    BY <1>1 DEF MIN
  <1>3. /\ ThreadIdle(r) /\ Goto(r, "copy")
        /\ size' = [size EXCEPT ![r] = n]
        /\ UNCHANGED <<data, idx, available, b_idx, dest>>
    BY DEF Load
  <1>4. r # "recoder" => b_idx[r] + n <= DataLen
    BY <1>1, <1>2, SizesAssumption
  <1> HIDE DEF n
  <1>5. QED
    BY <1>2, <1>3, <1>4, StartKeepsContent

\* The load of cyclic_buffer_recode_none.
LEMMA NoneLoadKeepsContent == ASSUME FInv, NoneLoad PROVE ContentInv'
  <1> DEFINE r == "recoder"
             n == available[r]
  <1>1. r \in Roles /\ n \in Nat
    BY SizesAssumption DEF FInv, IInv, TypeOK, Roles
  <1>2. /\ ThreadIdle(r) /\ Goto(r, "copy")
        /\ size' = [size EXCEPT ![r] = n]
        /\ UNCHANGED <<data, idx, available, b_idx, dest>>
    BY DEF NoneLoad
  <1>3. r = "recoder"
    OBVIOUS
  <1> HIDE DEF r, n
  <1>4. QED
    BY <1>1, <1>2, <1>3, StartKeepsContent

\* The fetch_add comes after the index has moved, and moves no byte.
LEMMA PublishKeepsContent ==
  ASSUME FInv, NEW r \in Roles, Publish(r)
  PROVE  ContentInv'
  <1>1. TypeOK /\ ContentInv
    BY DEF FInv, IInv
  <1>2. /\ pc[r] = "add" /\ pc' = [pc EXCEPT ![r] = "sub"]
        /\ UNCHANGED <<data, idx, size, b_idx, dest>>
    BY DEF Publish, Goto
  <1>3. \A s \in Roles : Touched(s)' = Touched(s)
    BY <1>1, <1>2 DEF Touched, TypeOK
  <1>4. WithinData'
    BY <1>1, <1>2 DEF ContentInv, WithinData, TypeOK, Roles
  <1>5. QED
    BY <1>1, <1>2, <1>3, <1>4, SameTouched

\* The end of an operation.
LEMMA ReturnKeepsContent ==
  ASSUME FInv, NEW r \in Roles, NEW left, Return(r, left)
  PROVE  ContentInv'
  <1>1. TypeOK /\ ContentInv
    BY DEF FInv, IInv
  <1>2. /\ pc[r] = "sub" /\ pc' = [pc EXCEPT ![r] = "idle"]
        /\ b_idx' = [b_idx EXCEPT ![r] = b_idx[r] + size[r]]
        /\ UNCHANGED <<data, idx, size, dest>>
    BY DEF Return, Goto
  <1>3. \A s \in Roles : b_idx[s] \in Nat /\ size[s] \in Nat
    BY <1>1, SizesAssumption DEF TypeOK
  <1>4. \A s \in Roles : Touched(s)' = Touched(s)
    BY <1>1, <1>2, <1>3 DEF Touched, TypeOK
  <1>5. WithinData'
    BY <1>1, <1>2, <1>3, SizesAssumption DEF ContentInv, WithinData, TypeOK, Roles
  <1>6. QED
    BY <1>1, <1>2, <1>4, <1>5, SameTouched

-----------------------------------------------------------------------------
(* Steps that touch bytes *)

\* Of the positions, a copy moves that of its role, and by its size.
LEMMA AdvanceMoves ==
  ASSUME FInv, NEW r \in Roles, NEW next, Advance(r, next)
  PROVE  /\ pc[r] = "copy" /\ idx'[r] = next
         /\ Touched(r) = b_idx[r] /\ Touched(r)' = b_idx[r] + size[r]
         /\ \A s \in Roles \ {r} : Touched(s)' = Touched(s) /\ idx'[s] = idx[s]
         /\ WithinData'
         /\ \A s \in Roles : idx[s] \in Slots /\ size[s] \in 0 .. TotalSize
                             /\ Touched(s) \in Nat
  <1>1. TypeOK /\ CounterInv /\ ContentInv
    BY DEF FInv, IInv
  <1>2. /\ pc[r] = "copy" /\ pc' = [pc EXCEPT ![r] = "add"]
        /\ idx' = [idx EXCEPT ![r] = next]
        /\ UNCHANGED <<available, size, b_idx>>
    BY DEF Advance, Goto
  <1>3. idx'[r] = next /\ \A s \in Roles \ {r} : idx'[s] = idx[s]
    BY <1>1, <1>2 DEF TypeOK
  <1>4. Touched(r) = b_idx[r] /\ Touched(r)' = b_idx[r] + size[r]
    <2>1. b_idx[r] \in Nat /\ size[r] \in Nat
      BY <1>1, SizesAssumption DEF TypeOK
    <2>2. QED
      BY <1>1, <1>2, <2>1 DEF Touched, TypeOK
  <1>5. \A s \in Roles \ {r} : Touched(s)' = Touched(s)
    BY <1>1, <1>2 DEF Touched, TypeOK
  <1>6. WithinData'
    BY <1>1, <1>2 DEF ContentInv, WithinData, TypeOK, Roles
  <1>7. \A s \in Roles : /\ idx[s] \in Slots /\ size[s] \in 0 .. TotalSize
                         /\ Touched(s) \in Nat
    BY <1>1, Positions DEF TypeOK
  <1>8. QED
    BY <1>2, <1>3, <1>4, <1>5, <1>6, <1>7

\* cyclic_buffer_write fills slots that neither of the others owns.
LEMMA WriteCopyKeepsContent == ASSUME FInv, WriteCopy PROVE ContentInv'
  <1> DEFINE i == idx["reader"]
             a == Ahead("writer")
             n == size["writer"]
             R == Touched("reader")
  <1>1. "writer" \in Roles /\ "recoder" \in Roles /\ "reader" \in Roles
    BY DEF Roles
  <1>2. ContentInv /\ IInv
    BY DEF FInv
  <1>3. Advance("writer", NextIdx(idx["writer"], n)) /\ dest' = dest
    BY DEF WriteCopy
  <1>4. /\ pc["writer"] = "copy" /\ idx'["writer"] = NextIdx(idx["writer"], n)
        /\ Touched("writer") = b_idx["writer"] /\ Touched("writer")' = Touched("writer") + n
        /\ Touched("recoder")' = Touched("recoder") /\ R' = R
        /\ idx'["recoder"] = idx["recoder"] /\ i' = i
        /\ WithinData'
        /\ i \in Slots /\ idx["writer"] \in Slots /\ n \in 0 .. TotalSize
        /\ R \in Nat /\ Touched("writer") \in Nat /\ Touched("recoder") \in Nat
    BY <1>1, <1>3, AdvanceMoves
  <1>5. /\ a \in Nat /\ n \in Nat /\ a + n <= TotalSize
        /\ Ahead("recoder") \in Nat /\ Ahead("recoder") <= a
        /\ Touched("writer") = R + a
    BY <1>2, <1>4, StreamOrder, SizesAssumption DEF Ahead
  <1>6. Ahead("writer")' = a + n /\ Ahead("recoder")' = Ahead("recoder")
    BY <1>4, <1>5 DEF Ahead
  <1>7. idx["writer"] = SlotAt(i, a) /\ idx["recoder"] = SlotAt(i, Ahead("recoder"))
    BY <1>2 DEF ContentInv, IndexesApart
  <1>8. IndexesApart'
    <2>1. idx'["writer"] = SlotAt(i, a + n)
      BY <1>4, <1>5, <1>7, NextIdxIsSlotAt, WalkOn
    <2>2. QED
      BY <2>1, <1>4, <1>6, <1>7 DEF IndexesApart
  <1>9. RegionHolds'
    <2> SUFFICES ASSUME NEW o \in 0 .. TotalSize - 1
                 PROVE  /\ o < Ahead("recoder") => data'[SlotAt(i, o)] = Recoded(R + o)
                        /\ Ahead("recoder") <= o /\ o < a + n =>
                             data'[SlotAt(i, o)] = Raw(R + o)
      BY <1>4, <1>6 DEF RegionHolds
    <2> DEFINE s == SlotAt(i, o)
    <2>1. /\ s \in Slots
          /\ s \in Region(idx["writer"], n) <=> a <= o /\ o < a + n
          /\ a <= o /\ o < a + n => Offset(idx["writer"], s) = o - a
      BY <1>4, <1>5, <1>7, RegionFrom
    <2>2. /\ o < Ahead("recoder") => data[s] = Recoded(R + o)
          /\ Ahead("recoder") <= o /\ o < a => data[s] = Raw(R + o)
      BY <1>2 DEF ContentInv, RegionHolds
    <2>3. data'[s] = IF s \in Region(idx["writer"], n)
                     THEN Raw(b_idx["writer"] + Offset(idx["writer"], s)) ELSE data[s]
      BY <2>1 DEF WriteCopy
    <2>4. CASE a <= o /\ o < a + n
      <3>1. data'[s] = Raw(R + a + (o - a))
        BY <2>1, <2>3, <2>4, <1>4, <1>5
      <3>2. R + a + (o - a) = R + o
        BY <1>4, <1>5, SizesAssumption
      <3>3. QED
        BY <3>1, <3>2, <2>4, <1>5
    <2>5. CASE ~ (a <= o /\ o < a + n)
      <3>1. data'[s] = data[s]
        BY <2>1, <2>3, <2>5
      <3> HIDE DEF s, a, n, R
      <3>2. o < Ahead("recoder") \/ (Ahead("recoder") <= o /\ o < a + n) => o < a
        BY <2>5, <1>5
      <3>3. QED
        BY <3>1, <3>2, <2>2 DEF s, a, n, R
    <2>6. QED
      BY <2>4, <2>5
  <1>10. DestHolds'
    BY <1>2, <1>3, <1>4 DEF ContentInv, DestHolds
  <1>11. QED
    BY <1>4, <1>8, <1>9, <1>10 DEF ContentInv

\* What the XOR loop, or passing on unmasked, makes of the byte it reaches.
LEMMA RecoderCopyKeepsContent ==
  ASSUME FInv, Advance("recoder", NextIdx(idx["recoder"], size["recoder"])), dest' = dest,
         \A s \in Slots :
           IF s \in Region(idx["recoder"], size["recoder"])
           THEN LET k == b_idx["recoder"] + Offset(idx["recoder"], s) IN
                data[s] = Raw(k) => data'[s] = Recoded(k)
           ELSE data'[s] = data[s]
  PROVE  ContentInv'
  <1> DEFINE i == idx["reader"]
             a == Ahead("recoder")
             n == size["recoder"]
             R == Touched("reader")
  <1>1. "writer" \in Roles /\ "recoder" \in Roles /\ "reader" \in Roles
    BY DEF Roles
  <1>2. ContentInv /\ IInv
    BY DEF FInv
  <1>3. /\ pc["recoder"] = "copy" /\ idx'["recoder"] = NextIdx(idx["recoder"], n)
        /\ Touched("recoder") = b_idx["recoder"]
        /\ Touched("recoder")' = Touched("recoder") + n
        /\ Touched("writer")' = Touched("writer") /\ R' = R
        /\ idx'["writer"] = idx["writer"] /\ i' = i
        /\ WithinData'
        /\ i \in Slots /\ idx["recoder"] \in Slots /\ n \in 0 .. TotalSize
        /\ R \in Nat /\ Touched("writer") \in Nat /\ Touched("recoder") \in Nat
    BY <1>1, AdvanceMoves
  <1>4. /\ a \in Nat /\ n \in Nat /\ a + n <= TotalSize
        /\ Ahead("writer") \in Nat /\ a + n <= Ahead("writer")
        /\ Touched("recoder") = R + a
    BY <1>2, <1>3, StreamOrder, SizesAssumption DEF Ahead
  <1>5. Ahead("recoder")' = a + n /\ Ahead("writer")' = Ahead("writer")
    BY <1>3, <1>4 DEF Ahead
  <1>6. idx["recoder"] = SlotAt(i, a) /\ idx["writer"] = SlotAt(i, Ahead("writer"))
    BY <1>2 DEF ContentInv, IndexesApart
  <1>7. IndexesApart'
    <2>1. idx'["recoder"] = SlotAt(i, a + n)
      BY <1>3, <1>4, <1>6, NextIdxIsSlotAt, WalkOn
    <2>2. QED
      BY <2>1, <1>3, <1>5, <1>6 DEF IndexesApart
  <1>8. RegionHolds'
    <2> SUFFICES ASSUME NEW o \in 0 .. TotalSize - 1
                 PROVE  /\ o < a + n => data'[SlotAt(i, o)] = Recoded(R + o)
                        /\ a + n <= o /\ o < Ahead("writer") =>
                             data'[SlotAt(i, o)] = Raw(R + o)
      BY <1>3, <1>5 DEF RegionHolds
    <2> DEFINE s == SlotAt(i, o)
    <2>1. /\ s \in Slots
          /\ s \in Region(idx["recoder"], n) <=> a <= o /\ o < a + n
          /\ a <= o /\ o < a + n => Offset(idx["recoder"], s) = o - a
      BY <1>3, <1>4, <1>6, RegionFrom
    <2>2. /\ o < a => data[s] = Recoded(R + o)
          /\ a <= o /\ o < Ahead("writer") => data[s] = Raw(R + o)
      BY <1>2 DEF ContentInv, RegionHolds
    <2>3. CASE a <= o /\ o < a + n
      <3>1. b_idx["recoder"] + Offset(idx["recoder"], s) = R + o
        BY <2>1, <2>3, <1>3, <1>4, SizesAssumption
      <3>2. data[s] = Raw(R + o)
        BY <2>2, <2>3, <1>4, SizesAssumption
      <3>3. data'[s] = Recoded(R + o)
        BY <2>1, <2>3, <3>1, <3>2
      <3>4. QED
        BY <3>3, <2>3, <1>4
    <2>4. CASE ~ (a <= o /\ o < a + n)
      <3>1. data'[s] = data[s]
        BY <2>1, <2>4
      <3> HIDE DEF s, a, n, R
      <3>2. /\ o < a + n => o < a
            /\ a + n <= o => a <= o
        BY <2>4, <1>4
      <3>3. QED
        BY <3>1, <3>2, <2>2 DEF s, a, n, R
    <2>5. QED
      BY <2>3, <2>4
  <1>9. DestHolds'
    BY <1>2, <1>3 DEF ContentInv, DestHolds
  <1>10. QED
    BY <1>3, <1>7, <1>8, <1>9 DEF ContentInv

\* cyclic_buffer_recode_xor meets each byte with its mask byte, once.
LEMMA XorCopyKeepsContent ==
  ASSUME FInv, XorCopy(StreamMask), Recoding = "xor"
  PROVE  ContentInv'
  <1>1. /\ Advance("recoder", NextIdx(idx["recoder"], size["recoder"]))
        /\ dest' = dest
    BY DEF XorCopy
  <1>2. idx["recoder"] \in Slots /\ b_idx["recoder"] \in Nat
    BY DEF FInv, IInv, TypeOK, Roles
  <1>3. ASSUME NEW s \in Slots
        PROVE  IF s \in Region(idx["recoder"], size["recoder"])
               THEN LET k == b_idx["recoder"] + Offset(idx["recoder"], s) IN
                    data[s] = Raw(k) => data'[s] = Recoded(k)
               ELSE data'[s] = data[s]
    <2> DEFINE k == b_idx["recoder"] + Offset(idx["recoder"], s)
    <2>1. data'[s] = IF s \in Region(idx["recoder"], size["recoder"])
                     THEN [data[s] EXCEPT
                            !.mask = Toggle(StreamMask[Offset(idx["recoder"], s)], @)]
                     ELSE data[s]
      BY DEF XorCopy
    <2>2. StreamMask[Offset(idx["recoder"], s)] = k
      BY <1>2, OffsetInRange, SizesAssumption DEF StreamMask
    <2>3. [Raw(k) EXCEPT !.mask = Toggle(k, @)] = Recoded(k)
      BY DEF Raw, Recoded, Toggle
    <2> HIDE DEF k
    <2>4. s \in Region(idx["recoder"], size["recoder"]) /\ data[s] = Raw(k)
            => data'[s] = Recoded(k)
      BY <2>1, <2>2, <2>3
    <2>5. QED
      BY <2>1, <2>4 DEF k
  <1>4. QED
    BY <1>1, <1>3, RecoderCopyKeepsContent

\* cyclic_buffer_recode_none passes the bytes on as they are.
LEMMA NoneAdvanceKeepsContent ==
  ASSUME FInv, NoneAdvance, Recoding = "none"
  PROVE  ContentInv'
  <1>1. idx["recoder"] \in Slots /\ size["recoder"] \in 0 .. TotalSize
        /\ pc["recoder"] = "copy" /\ available["recoder"] \in Nat
    BY SizesAssumption DEF FInv, IInv, TypeOK, Roles, NoneAdvance, Advance
  <1>2. (idx["recoder"] + size["recoder"]) % TotalSize
          = NextIdx(idx["recoder"], size["recoder"])
    BY <1>1, SizesAssumption DEF NextIdx, Slots
  <1>3. /\ Advance("recoder", NextIdx(idx["recoder"], size["recoder"]))
        /\ data' = data /\ dest' = dest
    BY <1>2 DEF NoneAdvance
  <1>4. \A k : Recoded(k) = Raw(k)
    BY DEF Recoded, Raw
  <1>5. ASSUME NEW s \in Slots
        PROVE  IF s \in Region(idx["recoder"], size["recoder"])
               THEN LET k == b_idx["recoder"] + Offset(idx["recoder"], s) IN
                    data[s] = Raw(k) => data'[s] = Recoded(k)
               ELSE data'[s] = data[s]
    BY <1>3, <1>4
  <1>6. QED
    BY <1>3, <1>5, RecoderCopyKeepsContent

\* cyclic_buffer_read appends the next bytes of the stream to the output.
LEMMA ReadCopyKeepsContent == ASSUME FInv, ReadCopy PROVE ContentInv'
  <1> DEFINE i == idx["reader"]
             c == Ahead("recoder")
             w == Ahead("writer")
             n == size["reader"]
             R == Touched("reader")
  <1>1. "writer" \in Roles /\ "recoder" \in Roles /\ "reader" \in Roles
    BY DEF Roles
  <1>2. ContentInv /\ IInv
    BY DEF FInv
  <1>3. Advance("reader", NextIdx(i, n)) /\ data' = data
    BY DEF ReadCopy
  <1>4. /\ pc["reader"] = "copy" /\ i' = NextIdx(i, n)
        /\ R = b_idx["reader"] /\ R' = R + n
        /\ Touched("writer")' = Touched("writer") /\ Touched("recoder")' = Touched("recoder")
        /\ idx'["writer"] = idx["writer"] /\ idx'["recoder"] = idx["recoder"]
        /\ WithinData'
        /\ i \in Slots /\ n \in 0 .. TotalSize
        /\ R \in Nat /\ Touched("writer") \in Nat /\ Touched("recoder") \in Nat
    BY <1>1, <1>3, AdvanceMoves
  <1>5. /\ n \in Nat /\ c \in Nat /\ w \in Nat
        /\ n <= c /\ c <= w /\ w <= TotalSize
        /\ Touched("writer") = R + w /\ Touched("recoder") = R + c
    BY <1>2, <1>4, StreamOrder, SizesAssumption DEF Ahead
  <1>6. w' = w - n /\ c' = c - n
    BY <1>4, <1>5 DEF Ahead
  <1>7. i' = SlotAt(i, n)
    BY <1>4, NextIdxIsSlotAt
  <1>8. IndexesApart'
    <2>1. idx["writer"] = SlotAt(i, w) /\ idx["recoder"] = SlotAt(i, c)
      BY <1>2 DEF ContentInv, IndexesApart
    <2> HIDE DEF i, c, w, n, R
    <2>2. SlotAt(SlotAt(i, n), w - n) = SlotAt(i, w)
      <3>1. w - n \in Nat /\ n + (w - n) = w /\ w <= TotalSize
        BY <1>5, SizesAssumption
      <3>2. QED
        BY <3>1, <1>4, <1>5, WalkOn
    <2>3. SlotAt(SlotAt(i, n), c - n) = SlotAt(i, c)
      <3>1. c - n \in Nat /\ n + (c - n) = c /\ c <= TotalSize
        BY <1>5, SizesAssumption
      <3>2. QED
        BY <3>1, <1>4, <1>5, WalkOn
    <2>4. idx'["writer"] = SlotAt(i', w') /\ idx'["recoder"] = SlotAt(i', c')
      BY <2>1, <2>2, <2>3, <1>4, <1>6, <1>7
    <2>5. QED
      BY <2>4 DEF IndexesApart, i, c, w
  <1>9. RegionHolds'
    <2> SUFFICES ASSUME NEW o \in 0 .. TotalSize - 1
                 PROVE  /\ o < c - n => data[SlotAt(i', o)] = Recoded(R + n + o)
                        /\ c - n <= o /\ o < w - n =>
                             data[SlotAt(i', o)] = Raw(R + n + o)
      BY <1>3, <1>4, <1>6 DEF RegionHolds
    <2>1. CASE o < w - n
      <3> HIDE DEF i, c, w, n, R
      <3>1. n + o \in 0 .. TotalSize - 1 /\ o \in Nat
        BY <2>1, <1>5, SizesAssumption
      <3>2. SlotAt(i', o) = SlotAt(i, n + o)
        BY <3>1, <1>4, <1>5, <1>7, WalkOn, SizesAssumption
      <3>3. /\ n + o < c => data[SlotAt(i, n + o)] = Recoded(R + (n + o))
            /\ c <= n + o /\ n + o < w => data[SlotAt(i, n + o)] = Raw(R + (n + o))
        BY <1>2, <3>1 DEF ContentInv, RegionHolds, i, c, w, R
      <3>4. R + (n + o) = R + n + o /\ (n + o < c <=> o < c - n) /\ (n + o < w <=> o < w - n)
            /\ (c <= n + o <=> c - n <= o)
        BY <3>1, <1>4, <1>5
      <3>5. QED
        BY <3>2, <3>3, <3>4
    <2>2. CASE ~ (o < w - n)
      <3> HIDE DEF i, c, w, n, R
      <3>1. ~ (o < c - n)
        BY <2>2, <1>5, SizesAssumption
      <3>2. QED
        BY <2>2, <3>1
    <2>3. QED
      BY <2>1, <2>2
  <1>10. DestHolds'
    <2> SUFFICES ASSUME NEW k \in 0 .. DataLen - 1
                 PROVE  dest'[k] = IF k < R + n THEN Recoded(k) ELSE Raw(NoByte)
      BY <1>4 DEF DestHolds
    <2>1. dest[k] = IF k < R THEN Recoded(k) ELSE Raw(NoByte)
      BY <1>2 DEF ContentInv, DestHolds
    <2>2. dest'[k] = IF k \in R .. R + n - 1 THEN data[SlotAt(i, k - R)] ELSE dest[k]
      <3>1. k \in DOMAIN dest
        BY <1>2 DEF IInv, TypeOK
      <3>2. QED
        BY <3>1, <1>4 DEF ReadCopy
    <2>3. CASE k \in R .. R + n - 1
      <3> HIDE DEF i, c, w, n, R
      <3>1. k - R \in 0 .. TotalSize - 1 /\ k - R < c /\ R + (k - R) = k /\ k < R + n
        BY <2>3, <1>4, <1>5, SizesAssumption
      <3>2. data[SlotAt(i, k - R)] = Recoded(R + (k - R))
        BY <3>1, <1>2 DEF ContentInv, RegionHolds, i, c, R
      <3>3. QED
        BY <3>1, <3>2, <2>2, <2>3
    <2>4. CASE k \notin R .. R + n - 1
      <3> HIDE DEF i, c, w, n, R
      <3>1. k < R + n <=> k < R
        BY <2>4, <1>4, <1>5, SizesAssumption
      <3>2. QED
        BY <3>1, <2>1, <2>2, <2>4
    <2>5. QED
      BY <2>3, <2>4
  <1>11. QED
    BY <1>4, <1>8, <1>9, <1>10 DEF ContentInv

\* Taking n bytes out of the region, with writer, recoder and reader at the
\* positions x, y and z and the counters that belong to these.
LEMMA TakingOut ==
  ASSUME NEW x \in Nat, NEW y \in Nat, NEW z \in Nat, NEW n \in Nat,
         x - y \in Nat, y - z \in Nat, z - x + TotalSize \in Nat, n <= y - z
  PROVE  /\ n \in 0 .. TotalSize /\ z + n <= y /\ y <= x /\ x <= z + TotalSize
         /\ z - x + TotalSize + n <= TotalSize
         /\ y - z \in Nat /\ x - z \in Nat
         /\ n <= y - z /\ y - z <= x - z /\ x - z <= TotalSize
         /\ x - (z + n) = x - z - n /\ y - (z + n) = y - z - n
  BY SizesAssumption

(***************************************************************************)
(* A caller that takes n bytes out of the region between two operations of *)
(* the buffer, advancing the reader's index and both counters by itself,   *)
(* as cyclic_buffer_recode_xor_buf does with its mask buffer.              *)
(***************************************************************************)
TakesOut(n) ==
  /\ idx' = [idx EXCEPT !["reader"] = NextIdx(@, n)]
  /\ available' = [available EXCEPT !["writer"] = Add32(@, n),
                                   !["reader"] = Sub32(@, n)]
  /\ b_idx' = [b_idx EXCEPT !["reader"] = @ + n]
  /\ UNCHANGED <<data, pc, size>>
  /\ dest' = [k \in 0 .. DataLen - 1 |->
               IF k < b_idx["reader"] + n THEN Recoded(k) ELSE Raw(NoByte)]

\* Where the bytes are stays right: it is a load, a copy and two updates in one.
LEMMA ReadAtOnce ==
  ASSUME FInv, \A r \in Roles : pc[r] = "idle",
         NEW n \in Nat, n <= available["reader"], TakesOut(n)
  PROVE  FInv'
  <1> DEFINE i == idx["reader"]
             c == Ahead("recoder")
             w == Ahead("writer")
             R == b_idx["reader"]
  <1>1. /\ "writer" \in Roles /\ "recoder" \in Roles /\ "reader" \in Roles
        /\ IInv /\ TypeOK /\ CounterInv /\ ContentInv
    BY DEF Roles, FInv, IInv
  <1>2. /\ \A r \in Roles : /\ b_idx[r] \in Nat /\ available[r] \in Nat
                            /\ available[r] <= TotalSize
                            /\ Published(r) = b_idx[r] /\ Touched(r) = b_idx[r]
        /\ i \in Slots /\ R \in Nat
    BY <1>1, CounterBounds, Positions DEF TypeOK, Published, Touched
  <1>3. /\ available["recoder"] = b_idx["writer"] - b_idx["recoder"]
        /\ available["reader"] = b_idx["recoder"] - R
        /\ available["writer"] = R - b_idx["writer"] + TotalSize
        /\ available["recoder"] \in Nat /\ available["reader"] \in Nat
        /\ available["writer"] \in Nat /\ available["reader"] <= TotalSize
        /\ b_idx["writer"] \in Nat /\ b_idx["recoder"] \in Nat /\ R \in Nat
    <2>1. /\ available["recoder"] = b_idx["writer"] - b_idx["recoder"]
          /\ available["reader"] = b_idx["recoder"] - R
          /\ available["writer"] = R - b_idx["writer"] + TotalSize
      BY <1>1, <1>2, Positions
    <2>2. QED
      BY <1>1, <1>2, <2>1
  <1>4. /\ n \in 0 .. TotalSize /\ R + n <= b_idx["recoder"]
        /\ b_idx["recoder"] <= b_idx["writer"] /\ b_idx["writer"] <= R + TotalSize
        /\ available["writer"] + n <= TotalSize
        /\ b_idx["recoder"] - R \in Nat /\ b_idx["writer"] - R \in Nat
        /\ n <= b_idx["recoder"] - R /\ b_idx["recoder"] - R <= b_idx["writer"] - R
        /\ b_idx["writer"] - R <= TotalSize
        /\ b_idx["writer"] - (R + n) = b_idx["writer"] - R - n
        /\ b_idx["recoder"] - (R + n) = b_idx["recoder"] - R - n
    <2>1. /\ b_idx["writer"] \in Nat /\ b_idx["recoder"] \in Nat /\ R \in Nat
          /\ b_idx["writer"] - b_idx["recoder"] \in Nat /\ b_idx["recoder"] - R \in Nat
          /\ R - b_idx["writer"] + TotalSize \in Nat /\ n <= b_idx["recoder"] - R
      BY <1>3
    <2> HIDE DEF R
    <2>2. QED
      BY <2>1, <1>3, TakingOut
  <1>5. /\ c = b_idx["recoder"] - R /\ w = b_idx["writer"] - R
        /\ c \in Nat /\ w \in Nat /\ n <= c /\ c <= w /\ w <= TotalSize
    <2>1. c = b_idx["recoder"] - R /\ w = b_idx["writer"] - R
      BY <1>1, <1>2 DEF Ahead
    <2> HIDE DEF R, c, w
    <2>2. QED
      BY <2>1, <1>4
  <1>6. /\ idx'["reader"] = SlotAt(i, n) /\ idx'["reader"] \in Slots
        /\ idx'["writer"] = idx["writer"] /\ idx'["recoder"] = idx["recoder"]
        /\ idx' \in [Roles -> Slots]
    BY <1>1, <1>2, <1>4, NextIdxIsSlotAt, NextIdxInSlots DEF TypeOK, TakesOut
  <1>7. /\ b_idx'["reader"] = R + n
        /\ b_idx'["writer"] = b_idx["writer"] /\ b_idx'["recoder"] = b_idx["recoder"]
        /\ b_idx' \in [Roles -> Nat]
        /\ data' = data /\ pc' = pc /\ size' = size
    BY <1>1, <1>2 DEF TypeOK, TakesOut
  <1>8. /\ available'["writer"] = available["writer"] + n
        /\ available'["reader"] = available["reader"] - n
        /\ available'["recoder"] = available["recoder"]
        /\ available' \in [Roles -> 0 .. Word - 1]
    <2>1. /\ Add32(available["writer"], n) = available["writer"] + n
          /\ Sub32(available["reader"], n) = available["reader"] - n
          /\ available["writer"] + n \in 0 .. Word - 1
          /\ available["reader"] - n \in 0 .. Word - 1
      <3>1. available["writer"] + n < Word /\ available["reader"] < Word
        BY <1>3, <1>4, SizesAssumption
      <3>2. /\ Add32(available["writer"], n) = available["writer"] + n
            /\ Sub32(available["reader"], n) = available["reader"] - n
        BY <3>1, <1>3, Add32NoWrap, Sub32NoWrap
      <3>3. QED
        BY <3>1, <3>2, <1>3, SizesAssumption
    <2>2. available \in [Roles -> 0 .. Word - 1]
      BY <1>1 DEF TypeOK
    <2> DEFINE aw == available["writer"] + n
               ar == available["reader"] - n
               W == 0 .. Word - 1
    <2>3. available' = [available EXCEPT !["writer"] = aw, !["reader"] = ar]
      BY <2>1 DEF TakesOut
    <2>4. aw \in W /\ ar \in W /\ available \in [Roles -> W]
      BY <2>1, <2>2
    <2> HIDE DEF aw, ar, W
    <2>5. /\ available'["writer"] = aw /\ available'["reader"] = ar
          /\ available'["recoder"] = available["recoder"]
          /\ available' \in [Roles -> W]
      BY <1>1, <2>3, <2>4
    <2>6. QED
      BY <2>5 DEF aw, ar, W
  <1>9. \A r \in Roles : Published(r)' = b_idx'[r] /\ Touched(r)' = b_idx'[r]
    BY <1>7 DEF Published, Touched
  <1>10. TypeOK'
    <2>1. \A k \in 0 .. DataLen - 1 : Recoded(k) \in Byte /\ Raw(NoByte) \in Byte
      BY SizesAssumption DEF Recoded, Raw, NoByte, Byte
    <2>2. dest' \in [0 .. DataLen - 1 -> Byte]
      BY <2>1 DEF TakesOut
    <2>3. QED
      BY <1>1, <1>6, <1>7, <1>8, <2>2 DEF TypeOK
  <1>11. CounterInv'
    <2>1. /\ available'["recoder"] = b_idx'["writer"] - b_idx'["recoder"] + 0
          /\ available'["reader"] = b_idx'["recoder"] - b_idx'["reader"] + 0
          /\ available'["writer"] = b_idx'["reader"] - b_idx'["writer"] + TotalSize
      <3> DEFINE x == b_idx["writer"]
                 y == b_idx["recoder"]
      <3>1. /\ x \in Nat /\ y \in Nat /\ R \in Nat
            /\ b_idx'["writer"] = x /\ b_idx'["recoder"] = y /\ b_idx'["reader"] = R + n
            /\ available'["recoder"] = x - y
            /\ available'["reader"] = y - R - n
            /\ available'["writer"] = R - x + TotalSize + n
        BY <1>1, <1>2, <1>3, <1>7, <1>8
      <3> HIDE DEF R, x, y
      <3>2. /\ y - R - n = y - (R + n) + 0 /\ x - y = x - y + 0
            /\ R - x + TotalSize + n = R + n - x + TotalSize
        BY <3>1, SizesAssumption
      <3>3. QED
        BY <3>1, <3>2
    <2>2. /\ Published("writer")' = b_idx'["writer"]
          /\ Published("recoder")' = b_idx'["recoder"]
          /\ Published("reader")' = b_idx'["reader"]
      BY <1>1, <1>9
    <2>3. Balance("writer")' /\ Balance("recoder")' /\ Balance("reader")'
      BY <2>1, <2>2 DEF Balance, Downstream
    <2>4. \A r \in Roles : Balance(r)' /\ Covered(r)'
      BY <2>3, <1>7 DEF Roles, Covered
    <2>5. OneAtATime' /\ NothingNew'
      BY <1>1, <1>7 DEF CounterInv, OneAtATime, NothingNew, Roles
    <2>6. QED
      BY <2>4, <2>5 DEF CounterInv
  <1>12. w' = w - n /\ c' = c - n
    <2>1. w' = b_idx["writer"] - (R + n) /\ c' = b_idx["recoder"] - (R + n)
      BY <1>1, <1>7, <1>9 DEF Ahead
    <2> HIDE DEF R, c, w
    <2>2. QED
      BY <2>1, <1>4, <1>5
  <1>13. IndexesApart'
    <2>1. idx["writer"] = SlotAt(i, w) /\ idx["recoder"] = SlotAt(i, c)
      BY <1>1 DEF ContentInv, IndexesApart
    <2> HIDE DEF i, c, w, R
    <2>2. SlotAt(SlotAt(i, n), w - n) = SlotAt(i, w)
      <3>1. w - n \in Nat /\ n + (w - n) = w /\ w <= TotalSize
        BY <1>5, SizesAssumption
      <3>2. QED
        BY <3>1, <1>2, WalkOn
    <2>3. SlotAt(SlotAt(i, n), c - n) = SlotAt(i, c)
      <3>1. c - n \in Nat /\ n + (c - n) = c /\ c <= TotalSize
        BY <1>5, SizesAssumption
      <3>2. QED
        BY <3>1, <1>2, WalkOn
    <2>4. idx'["writer"] = SlotAt(i', w') /\ idx'["recoder"] = SlotAt(i', c')
      BY <2>1, <2>2, <2>3, <1>6, <1>12 DEF i
    <2>5. QED
      BY <2>4 DEF IndexesApart, i, c, w
  <1>14. RegionHolds'
    <2> SUFFICES ASSUME NEW o \in 0 .. TotalSize - 1
                 PROVE  /\ o < c - n => data[SlotAt(idx'["reader"], o)] = Recoded(R + n + o)
                        /\ c - n <= o /\ o < w - n =>
                             data[SlotAt(idx'["reader"], o)] = Raw(R + n + o)
      BY <1>1, <1>7, <1>9, <1>12 DEF RegionHolds
    <2> HIDE DEF i, c, w, R
    <2>1. CASE o < w - n
      <3>1. n + o \in 0 .. TotalSize - 1 /\ o \in Nat
        BY <2>1, <1>5, SizesAssumption
      <3>2. SlotAt(idx'["reader"], o) = SlotAt(i, n + o)
        BY <3>1, <1>2, <1>6, WalkOn, SizesAssumption
      <3>3. /\ n + o < c => data[SlotAt(i, n + o)] = Recoded(R + (n + o))
            /\ c <= n + o /\ n + o < w => data[SlotAt(i, n + o)] = Raw(R + (n + o))
        BY <1>1, <1>2, <3>1 DEF ContentInv, RegionHolds, i, c, w, R
      <3>4. R + (n + o) = R + n + o /\ (n + o < c <=> o < c - n) /\ (n + o < w <=> o < w - n)
            /\ (c <= n + o <=> c - n <= o)
        BY <3>1, <1>2, <1>5
      <3>5. QED
        BY <3>2, <3>3, <3>4
    <2>2. CASE ~ (o < w - n)
      <3>1. ~ (o < c - n)
        BY <2>2, <1>5, SizesAssumption
      <3>2. QED
        BY <2>2, <3>1
    <2>3. QED
      BY <2>1, <2>2
  <1>15. DestHolds'
    BY <1>1, <1>7, <1>9 DEF DestHolds, TakesOut
  <1>16. WithinData'
    <2>1. b_idx["writer"] <= DataLen
      <3>1. b_idx["writer"] + 0 <= DataLen
        BY <1>1 DEF ContentInv, WithinData
      <3>2. QED
        BY <3>1, <1>1, <1>2
    <2>2. R + n <= DataLen
      <3> HIDE DEF R
      <3>1. QED
        BY <2>1, <1>1, <1>2, <1>4, SizesAssumption
    <2>3. \A r \in {"writer", "reader"} : b_idx'[r] <= DataLen
      BY <2>1, <2>2, <1>7
    <2>4. \A r \in {"writer", "reader"} : pc'[r] = "idle" /\ b_idx'[r] + 0 = b_idx'[r]
      BY <1>1, <1>7
    <2>5. QED
      BY <2>3, <2>4 DEF WithinData
  <1>17. QED
    BY <1>10, <1>11, <1>13, <1>14, <1>15, <1>16 DEF FInv, IInv, ContentInv

\* One case per action of Next.
LEMMA NextFInv == FInv /\ [Next]_vars => FInv'
  <1> SUFFICES ASSUME FInv, [Next]_vars PROVE ContentInv'
    BY NextIInv DEF FInv
  <1>0. /\ "writer" \in Roles /\ "recoder" \in Roles /\ "reader" \in Roles
        /\ TypeOK /\ ContentInv
        /\ Requests \subseteq Nat
    BY SizesAssumption DEF Roles, FInv, IInv
  <1>1. ASSUME NEW r \in Roles, b_idx[r] < DataLen, NEW max \in Wanted(r), Load(r, max)
        PROVE  ContentInv'
    <2>1. max \in Nat /\ b_idx[r] + max <= DataLen
      BY <1>0, <1>1, WantedIsNat
    <2>2. QED
      BY <1>1, <2>1, LoadKeepsContent
  <1>2. ASSUME NEW r \in Roles, Consume(r) PROVE ContentInv'
    BY <1>2, ReturnKeepsContent DEF Consume
  <1>3. CASE cyclic_buffer_write
    BY <1>0, <1>1, <1>2, <1>3, WriteCopyKeepsContent, PublishKeepsContent
       DEF cyclic_buffer_write
  <1>4. CASE cyclic_buffer_recode_xor
    <2>1. ASSUME NEW max \in Requests, Load("recoder", max) PROVE ContentInv'
      BY <1>0, <2>1, LoadKeepsContent
    <2>2. QED
      BY <1>0, <1>2, <1>4, <2>1, XorCopyKeepsContent, PublishKeepsContent
         DEF cyclic_buffer_recode_xor
  <1>5. CASE cyclic_buffer_recode_none
    BY <1>0, <1>5, NoneLoadKeepsContent, NoneAdvanceKeepsContent, PublishKeepsContent,
       ReturnKeepsContent
       DEF cyclic_buffer_recode_none
  <1>6. CASE cyclic_buffer_read
    BY <1>0, <1>1, <1>2, <1>6, ReadCopyKeepsContent, PublishKeepsContent
       DEF cyclic_buffer_read
  <1>7. CASE UNCHANGED vars
    BY <1>0, <1>7
       DEF vars, ContentInv, IndexesApart, RegionHolds, DestHolds, WithinData, Ahead, Touched
  <1>8. QED
    BY <1>3, <1>4, <1>5, <1>6, <1>7 DEF Next, Finished

-----------------------------------------------------------------------------
(* Theorems *)

\* The counters and the content of the region are right in every reachable state.
THEOREM FullInvariance == Spec => []FInv
  BY InitFInv, NextFInv, PTL DEF Spec

(***************************************************************************)
(* The region and the destination hold what they should at every point of  *)
(* every interleaving.                                                     *)
(***************************************************************************)
THEOREM ContentCorrect == Spec => []ContentInv
  <1>1. FInv => ContentInv
    BY DEF FInv
  <1>2. QED
    BY <1>1, FullInvariance, PTL

(***************************************************************************)
(* What cyclic_buffer_read has copied out is the stream, recoded once.     *)
(***************************************************************************)
LEMMA FInvDelivers == FInv => Delivered
  <1> SUFFICES ASSUME FInv PROVE Delivered
    OBVIOUS
  <1>1. TypeOK /\ "reader" \in Roles
    BY DEF FInv, IInv, Roles
  <1>2. Touched("reader") <= DataLen
    <2>1. b_idx["reader"] \in Nat /\ size["reader"] \in Nat
      BY <1>1, SizesAssumption DEF TypeOK
    <2>2. QED
      BY <2>1, SizesAssumption DEF FInv, ContentInv, WithinData, Touched
  <1>3. Touched("reader") \in Nat
    BY <1>1, Positions DEF FInv, IInv
  <1>4. QED
    BY <1>2, <1>3, SizesAssumption DEF FInv, ContentInv, DestHolds, Delivered

\* The same of every behaviour.
THEOREM DeliveredCorrectly == Spec => []Delivered
  BY FInvDelivers, FullInvariance, PTL

(***************************************************************************)
(* The copies of two roles never overlap, in no interleaving.              *)
(***************************************************************************)
THEOREM CopiesDisjoint == Spec => []DisjointCopies
  <1> DEFINE i == idx["reader"]
             base(r) == IF r = "reader" THEN 0 ELSE Ahead(r)
  <1>1. ASSUME FInv, NEW r \in Roles, pc[r] = "copy", NEW o \in 0 .. TotalSize - 1,
               SlotAt(i, o) \in Region(idx[r], size[r])
        PROVE  base(r) <= o /\ o < base(r) + size[r]
    <2>1. i \in Slots /\ size[r] \in Nat
      BY <1>1, SizesAssumption DEF FInv, IInv, TypeOK, Roles
    <2>2. base(r) \in Nat /\ base(r) + size[r] <= TotalSize
      BY <1>1, <2>1, StreamOrder, SizesAssumption DEF FInv, Roles
    <2>3. idx[r] = SlotAt(i, base(r))
      BY <1>1, <2>1, SizesAssumption DEF FInv, ContentInv, IndexesApart, Roles, SlotAt, Slots
    <2> HIDE DEF i, base
    <2>4. QED
      BY <1>1, <2>1, <2>2, <2>3, RegionFrom
  <1>2. ASSUME FInv, NEW r \in Roles, NEW s \in Roles, r # s,
               NEW x \in Touching(r), x \in Touching(s)
        PROVE  FALSE
    <2>1. /\ pc[r] = "copy" /\ pc[s] = "copy"
          /\ x \in Region(idx[r], size[r]) /\ x \in Region(idx[s], size[s])
      BY <1>2 DEF Touching
    <2>2. /\ i \in Slots /\ idx[r] \in Slots
          /\ \A q \in Roles : size[q] \in 0 .. TotalSize
      BY <1>2 DEF FInv, IInv, TypeOK, Roles
    <2>3. x \in Slots
      BY <2>1, <2>2, SizesAssumption DEF Region, Slots
    <2>4. PICK o \in 0 .. TotalSize - 1 : x = SlotAt(i, o)
      BY <2>2, <2>3, OffsetInRange
    <2>5. /\ base(r) <= o /\ o < base(r) + size[r]
          /\ base(s) <= o /\ o < base(s) + size[s]
      <3> HIDE DEF base, i
      <3>1. QED
        BY <1>1, <1>2, <2>1, <2>4
    <2>6. QED
      BY <1>2, <2>1, <2>2, <2>5, StreamOrder, SizesAssumption DEF FInv, Roles
  <1>3. FInv => DisjointCopies
    BY <1>2 DEF DisjointCopies
  <1>4. QED
    BY <1>3, FullInvariance, PTL

-----------------------------------------------------------------------------
(* The refinement of RecodeStream *)

\* What the stream sees as read out, in terms of the positions alone.
OutAt(read) ==
  [k \in 0 .. DataLen - 1 |-> IF k < read THEN Recoded(k) ELSE Raw(NoByte)]

\* The substitution for out.
OutNow ==
  [k \in 0 .. DataLen - 1 |-> IF k < Published("reader") THEN dest[k] ELSE Raw(NoByte)]

OutRight == OutNow = OutAt(Published("reader"))

\* The mapped output is the recoded stream as far as it has been handed on.
LEMMA OutIsRead == FInv => OutRight
  <1> SUFFICES ASSUME FInv PROVE OutNow = OutAt(Published("reader"))
    BY DEF OutRight
  <1>1. /\ Published("reader") \in Nat /\ Touched("reader") \in Nat
        /\ Published("reader") <= Touched("reader")
    BY Positions DEF FInv, IInv, Roles
  <1>2. ASSUME NEW k \in 0 .. DataLen - 1, k < Published("reader")
        PROVE  dest[k] = Recoded(k)
    <2>1. k < Touched("reader")
      BY <1>1, <1>2, SizesAssumption
    <2>2. QED
      BY <2>1 DEF FInv, ContentInv, DestHolds
  <1>3. QED
    BY <1>2 DEF OutAt, OutNow

\* The same after a step.
LEMMA OutIsReadNext == FInv' => OutRight'
  BY OutIsRead, PTL

\* How far the roles have handed on, in order and within the data.
LEMMA PublishBounds ==
  ASSUME FInv, NEW r \in Roles, pc[r] = "add"
  PROVE  /\ \A s \in Roles : Published(s) \in Nat
         /\ size[r] \in Nat /\ Published(r) = b_idx[r]
         /\ r = "writer" => /\ Published(r) + size[r] <= Published("reader") + TotalSize
                            /\ Published(r) + size[r] <= DataLen
         /\ r = "recoder" => Published(r) + size[r] <= Published("writer")
         /\ r = "reader" => Published(r) + size[r] <= Published("recoder")
  <1> USE SizesAssumption
  <1>1. TypeOK /\ CounterInv /\ WithinData
    BY DEF FInv, IInv, ContentInv
  <1>2. Published(r) = b_idx[r]
    <2>1. b_idx[r] \in Nat
      BY <1>1 DEF TypeOK
    <2>2. QED
      BY <2>1 DEF Published
  <1>3. \A s \in Roles : Published(s) \in Nat /\ size[s] \in Nat /\ b_idx[s] \in Nat
    BY <1>1, Positions
  <1>4. size[r] <= available[r] /\ available[r] \in Nat
    BY <1>1, Positions
  <1>5. r = "writer" => Published(r) + size[r] <= DataLen
    BY <1>1, <1>2 DEF WithinData
  <1>6. QED
    BY <1>1, <1>2, <1>3, <1>4, <1>5, Positions DEF Roles

\* Before the fetch_add and after it nothing is handed on.
LEMMA OnlyPublishPublishes ==
  ASSUME TypeOK, NEW r \in Roles, NEW from, NEW to,
         pc[r] = from, pc' = [pc EXCEPT ![r] = to], from # "add",
         \/ b_idx' = b_idx /\ from # "sub" /\ to # "sub"
         \/ /\ from = "sub" /\ to = "idle" /\ size' = size
            /\ b_idx' = [b_idx EXCEPT ![r] = b_idx[r] + size[r]],
         \A s \in Roles \ {r} : size'[s] = size[s]
  PROVE  \A s \in Roles : Published(s)' = Published(s)
  <1>1. \A s \in Roles : b_idx[s] \in Nat /\ size[s] \in Nat
    BY SizesAssumption DEF TypeOK
  <1>2. QED
    BY <1>1 DEF Published, TypeOK

\* A fetch_add on a counter downstream is the step of RecodeStream for that role.
LEMMA PublishStep ==
  ASSUME FInv, FInv', NEW r \in Roles, Publish(r)
  PROVE  [Stream!Next]_(Stream!svars)
  <1>1. TypeOK
    BY DEF FInv, IInv
  <1>2. /\ pc[r] = "add" /\ pc' = [pc EXCEPT ![r] = "sub"]
        /\ UNCHANGED <<data, idx, size, b_idx, dest>>
    BY DEF Publish, Goto
  <1>3. /\ \A s \in Roles : Published(s) \in Nat
        /\ size[r] \in Nat /\ Published(r) = b_idx[r]
    BY <1>2, PublishBounds
  <1>4. Published(r)' = Published(r) + size[r]
    BY <1>1, <1>2, <1>3 DEF Published, TypeOK
  <1>5. \A s \in Roles \ {r} : Published(s)' = Published(s)
    BY <1>1, <1>2 DEF Published, TypeOK
  <1>6. CASE size[r] = 0
    <2>1. \A s \in Roles : Published(s)' = Published(s)
      BY <1>3, <1>4, <1>5, <1>6
    <2>2. QED
      BY <2>1, <1>2 DEF Stream!svars, Roles
  <1>7. CASE size[r] # 0 /\ r = "writer"
    <2>1. Stream!Write
      BY <1>2, <1>3, <1>4, <1>5, <1>7, PublishBounds, SizesAssumption DEF Stream!Write, Roles
    <2>2. QED
      BY <2>1 DEF Stream!Next
  <1>8. CASE size[r] # 0 /\ r = "recoder"
    <2>1. Stream!Recode
      BY <1>2, <1>3, <1>4, <1>5, <1>8, PublishBounds, SizesAssumption DEF Stream!Recode, Roles
    <2>2. QED
      BY <2>1 DEF Stream!Next
  <1>9. CASE size[r] # 0 /\ r = "reader"
    <2>1. Published("reader")' \in Published("reader") + 1 .. Published("recoder")
      BY <1>2, <1>3, <1>4, <1>9, PublishBounds DEF Roles
    <2>2. OutNow' = OutAt(Published("reader"))'
      BY OutIsReadNext DEF OutRight
    <2>3. Stream!Read
      BY <2>1, <2>2, <1>5, <1>9 DEF Stream!Read, OutAt, OutNow, Roles
    <2>4. QED
      BY <2>3 DEF Stream!Next
  <1>10. QED
    BY <1>6, <1>7, <1>8, <1>9 DEF Roles

\* A step that hands nothing on is a stutter of RecodeStream.
LEMMA OtherStep ==
  ASSUME FInv, FInv', \A s \in Roles : Published(s)' = Published(s)
  PROVE  [Stream!Next]_(Stream!svars)
  <1>1. OutAt(Published("reader"))' = OutAt(Published("reader"))
    BY DEF OutAt, Roles
  <1>2. OutNow' = OutNow
    BY <1>1, OutIsRead, OutIsReadNext DEF OutRight
  <1>3. QED
    BY <1>2 DEF Stream!svars, OutNow, Roles

\* Every step of the buffer is a step of RecodeStream or a stutter.
LEMMA StepIsStreamStep ==
  ASSUME FInv, [Next]_vars
  PROVE  [Stream!Next]_(Stream!svars)
  <1>1. FInv' /\ TypeOK
    BY NextFInv DEF FInv, IInv
  <1>2. "writer" \in Roles /\ "recoder" \in Roles /\ "reader" \in Roles
    BY DEF Roles
  <1> DEFINE Kept == \A s \in Roles : Published(s)' = Published(s)
  <1>3. ASSUME NEW r \in Roles, NEW n, ThreadIdle(r), Goto(r, "copy"),
               size' = [size EXCEPT ![r] = n], b_idx' = b_idx
        PROVE  Kept
    <2>1. pc[r] = "idle" /\ pc' = [pc EXCEPT ![r] = "copy"]
      BY <1>3 DEF ThreadIdle, Goto
    <2>2. \A s \in Roles \ {r} : size'[s] = size[s]
      BY <1>1, <1>3 DEF TypeOK
    <2>3. QED
      BY <1>1, <1>3, <2>1, <2>2, OnlyPublishPublishes
  <1>4. ASSUME NEW r \in Roles, NEW max, Load(r, max) PROVE Kept
    BY <1>3, <1>4 DEF Load
  <1>5. ASSUME NoneLoad PROVE Kept
    BY <1>2, <1>3, <1>5 DEF NoneLoad
  <1>6. ASSUME NEW r \in Roles, NEW next, Advance(r, next) PROVE Kept
    <2>1. pc[r] = "copy" /\ pc' = [pc EXCEPT ![r] = "add"] /\ size' = size /\ b_idx' = b_idx
      BY <1>6 DEF Advance, Goto
    <2>2. QED
      BY <1>1, <2>1, OnlyPublishPublishes
  <1>7. ASSUME NEW r \in Roles, NEW left, Return(r, left) PROVE Kept
    <2>1. /\ pc[r] = "sub" /\ pc' = [pc EXCEPT ![r] = "idle"] /\ size' = size
          /\ b_idx' = [b_idx EXCEPT ![r] = b_idx[r] + size[r]]
      BY <1>7 DEF Return, Goto
    <2>2. QED
      BY <1>1, <2>1, OnlyPublishPublishes
  <1>8. Kept \/ \E r \in Roles : Publish(r)
    <2>1. CASE UNCHANGED vars
      BY <2>1 DEF vars, Published
    <2>2. CASE cyclic_buffer_write
      BY <1>2, <1>4, <1>6, <1>7, <2>2 DEF cyclic_buffer_write, WriteCopy, Consume
    <2>3. CASE cyclic_buffer_recode_xor
      BY <1>2, <1>4, <1>6, <1>7, <2>3 DEF cyclic_buffer_recode_xor, XorCopy, Consume
    <2>4. CASE cyclic_buffer_recode_none
      BY <1>2, <1>5, <1>6, <1>7, <2>4 DEF cyclic_buffer_recode_none, NoneAdvance
    <2>5. CASE cyclic_buffer_read
      BY <1>2, <1>4, <1>6, <1>7, <2>5 DEF cyclic_buffer_read, ReadCopy, Consume
    <2>6. QED
      BY <2>1, <2>2, <2>3, <2>4, <2>5 DEF Next, Finished
  <1>9. QED
    BY <1>1, <1>8, PublishStep, OtherStep

\* An empty buffer is an empty stream.
LEMMA InitIsStreamInit == ASSUME Init PROVE Stream!Init
  <1>1. FInv
    BY InitFInv
  <1>2. \A r \in Roles : Published(r) = 0
    BY DEF Init, Published
  <1>3. OutAt(0) = [k \in 0 .. DataLen - 1 |-> Raw(NoByte)]
    BY SizesAssumption DEF OutAt
  <1>4. QED
    BY <1>1, <1>2, <1>3, OutIsRead DEF Stream!Init, OutNow, OutRight, Roles

(***************************************************************************)
(* For every size, every amount of data and every interleaving, the buffer *)
(* is a stream: nothing is lost, reordered, recoded twice or overwritten.  *)
(***************************************************************************)
THEOREM BufferIsStream == Spec => ImplementsStream
  <1>1. FInv /\ [Next]_vars => [Stream!Next]_(Stream!svars)
    BY StepIsStreamStep
  <1>2. QED
    BY <1>1, InitIsStreamInit, FullInvariance, PTL DEF Spec, ImplementsStream, Stream!Spec

=============================================================================
