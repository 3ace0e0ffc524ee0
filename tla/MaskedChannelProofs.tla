------------------------ MODULE MaskedChannelProofs -------------------------
(***************************************************************************)
(* Proofs about MaskedChannel, for buffers of any two sizes: the mask      *)
(* keeps in step with the channel, and the two buffers are a single one    *)
(* with cyclic_buffer_recode_xor to the threads around them.               *)
(*                                                                         *)
(* Both buffers are instances of CyclicBuffer, so that what CyclicBuffer-  *)
(* Proofs says of FInv holds of each.  What is left to prove is how the    *)
(* phases of the recoder tie the two together.                             *)
(***************************************************************************)
EXTENDS MaskedChannel, TLAPS

\* The channel, with a recoder that may ask for any size.
Rec == INSTANCE CyclicBufferProofs WITH
  ThreadOf <- [r \in Roles |-> r], Recoding <- "xor",
  Requests <- Requests \cup 0 .. TotalSize,
  data <- c_data, idx <- c_idx, available <- c_available, pc <- c_pc,
  size <- c_size, b_idx <- c_b_idx, dest <- c_dest

\* recode_xor_buf takes the bytes out of the mask buffer without storing them;
\* the proof pretends that they are stored like those of cyclic_buffer_read.
ReadOut ==
  [k \in 0 .. MaskTotal - 1 |->
    [byte |-> IF k < m_b_idx["reader"] THEN k ELSE -1, mask |-> {}]]

\* The mask buffer, with ReadOut for the memory that is read into.
Fill == INSTANCE CyclicBufferProofs WITH
  TotalSize <- MaskSize, DataLen <- MaskTotal, Requests <- MaskRequests,
  ThreadOf <- [r \in Roles |-> "recoder"], Recoding <- "none",
  data <- m_data, idx <- m_idx, available <- m_available, pc <- m_pc,
  size <- m_size, b_idx <- m_b_idx, dest <- ReadOut

-----------------------------------------------------------------------------
\* Both buffers satisfy what CyclicBuffer assumes.
LEMMA RecAssumptions == Rec!SizesAssumption /\ Rec!RolesAssumption
  BY MaskAssumption DEF Rec!SizesAssumption, Rec!RolesAssumption, Roles, Rec!Roles

\* The thread that fills the mask buffer also passes the bytes on.
LEMMA FillAssumptions == Fill!SizesAssumption /\ Fill!RolesAssumption
  BY MaskAssumption DEF Fill!SizesAssumption, Fill!RolesAssumption, Roles, Fill!Roles

\* The abstraction of MaskedChannel is the instance the lemmas speak of.
LEMMA RecoderIsRec == Recoder!Next => Rec!Next
  BY DEF Recoder!Next, Recoder!cyclic_buffer_write, Recoder!cyclic_buffer_read,
     Recoder!cyclic_buffer_recode_xor, Recoder!cyclic_buffer_recode_none,
     Recoder!Finished, Recoder!WriteCopy, Recoder!XorCopy, Recoder!ReadCopy,
     Recoder!Load, Recoder!NoneLoad, Recoder!NoneAdvance, Recoder!Publish,
     Recoder!Consume, Recoder!Return, Recoder!Advance, Recoder!Goto, Recoder!Wanted,
     Recoder!StreamMask, Recoder!Slots, Recoder!Region, Recoder!Offset,
     Recoder!SlotAt, Recoder!NextIdx, Recoder!Raw, Recoder!Toggle, Recoder!Add32,
     Recoder!Sub32, Recoder!MIN, Recoder!Downstream, Recoder!ThreadIdle,
     Recoder!Roles, Recoder!vars, Rec!Next, Rec!cyclic_buffer_write,
     Rec!cyclic_buffer_read, Rec!cyclic_buffer_recode_xor,
     Rec!cyclic_buffer_recode_none, Rec!Finished, Rec!WriteCopy, Rec!XorCopy,
     Rec!ReadCopy, Rec!Load, Rec!NoneLoad, Rec!NoneAdvance, Rec!Publish,
     Rec!Consume, Rec!Return, Rec!Advance, Rec!Goto, Rec!Wanted, Rec!StreamMask,
     Rec!Slots, Rec!Region, Rec!Offset, Rec!SlotAt, Rec!NextIdx, Rec!Raw,
     Rec!Toggle, Rec!Add32, Rec!Sub32, Rec!MIN, Rec!Downstream, Rec!ThreadIdle,
     Rec!Roles, Rec!vars

-----------------------------------------------------------------------------
(* The inductive invariant *)

\* The mask bytes used by the calls of recode_xor that have returned, and
\* the bytes, the number of them and the phase after it of the call to come.
Done == IF phase = "second" THEN SizeTillEnd ELSE 0
From == IF phase = "second" THEN 0 ELSE m_idx["reader"]
ThisCall ==
  IF phase = "second" THEN x_size - SizeTillEnd
  ELSE IF Wraps THEN SizeTillEnd ELSE x_size
AfterCall == IF phase = "first" /\ Wraps THEN "second" ELSE "advance"

\* Each function of the recoder's loop has returned before the next begins.
OneCallAtATime ==
  /\ phase \in {"write", "none", "xor", "first", "second", "advance"}
  /\ m_pc["reader"] = "idle"
  /\ phase # "write" => m_pc["writer"] = "idle"
  /\ phase # "none" => m_pc["recoder"] = "idle"
  /\ phase \notin {"first", "second"} => c_pc["recoder"] = "idle"

\* The size that recode_xor_buf has decided on stays within both counters.
SizeHolds ==
  /\ phase \in {"first", "second", "advance"} =>
       x_size \in Nat \ {0} /\ x_size <= m_available["reader"]
  /\ phase \in {"first", "second"} =>
       /\ x_size - Done <= c_available["recoder"]
       /\ c_pc["recoder"] # "idle" => c_size["recoder"] = ThisCall
  /\ phase = "second" => Wraps

\* How far the channel is ahead of the mask.
InStep ==
  c_b_idx["recoder"] =
    m_b_idx["reader"] + IF phase = "advance" THEN x_size ELSE Done

PhaseInv == OneCallAtATime /\ SizeHolds /\ InStep

ChannelInv == Rec!FInv /\ Fill!FInv /\ PhaseInv
-----------------------------------------------------------------------------
(* The mask bytes at hand *)

\* The types of the mask buffer that the steps of the recoder rely on.
LEMMA MaskTypes ==
  ASSUME Fill!FInv
  PROVE  /\ m_idx["reader"] \in 0 .. MaskSize - 1
         /\ m_available["reader"] \in Nat /\ m_available["reader"] <= 2 * MaskSize
         /\ m_b_idx["reader"] \in Nat
         /\ "reader" \in DOMAIN m_b_idx
  <1>1. Fill!TypeOK /\ Fill!CounterInv
    BY DEF Fill!FInv, Fill!IInv
  <1>2. \A r \in Fill!Roles : m_available[r] <= 2 * MaskSize
    BY <1>1, FillAssumptions, Fill!CounterBounds
  <1>3. QED
    BY <1>1, <1>2, MaskAssumption DEF Fill!TypeOK, Fill!Roles, Fill!Slots

\* The calls of recode_xor find the mask bytes that follow those used before.
LEMMA MaskBytes ==
  ASSUME Fill!FInv, PhaseInv, phase \in {"first", "second"}
  PROVE  /\ Done \in Nat /\ ThisCall \in Nat \ {0} /\ Done + ThisCall <= x_size
         /\ \A o \in 0 .. ThisCall - 1 :
              m_data[From + o].byte = m_b_idx["reader"] + Done + o
  <1>1. /\ x_size \in Nat \ {0} /\ x_size <= m_available["reader"]
        /\ phase = "second" => Wraps
        /\ m_pc["reader"] = "idle" /\ m_pc["recoder"] = "idle"
    BY DEF PhaseInv, SizeHolds, OneCallAtATime
  <1>2. m_idx["reader"] \in 0 .. MaskSize - 1 /\ m_b_idx["reader"] \in Nat
    BY MaskTypes
  <1>3. Done \in Nat /\ ThisCall \in Nat \ {0} /\ Done + ThisCall <= x_size
    BY <1>1, <1>2, MaskAssumption DEF Done, ThisCall, Wraps, SizeTillEnd
  <1>4. x_size <= MaskSize /\ x_size <= Fill!Ahead("recoder")
        /\ Fill!Touched("reader") = m_b_idx["reader"]
    <2>1. Fill!TypeOK /\ Fill!CounterInv
      BY DEF Fill!FInv, Fill!IInv
    <2>2. m_available["reader"] <= MaskSize
      BY <2>1, <1>1, FillAssumptions, Fill!CounterBounds DEF Fill!Roles
    <2>3. /\ m_available["reader"] = Fill!Published("recoder") - m_b_idx["reader"]
          /\ m_b_idx["recoder"] \in Nat
      BY <2>1, FillAssumptions, Fill!Positions DEF Fill!Roles
    <2>4. /\ Fill!Published("recoder") = m_b_idx["recoder"]
          /\ Fill!Touched("recoder") = m_b_idx["recoder"]
          /\ Fill!Touched("reader") = m_b_idx["reader"]
      BY <2>3, <1>1, <1>2 DEF Fill!Published, Fill!Touched
    <2>5. m_available["reader"] \in Nat
      BY MaskTypes
    <2>6. QED
      BY <2>2, <2>3, <2>4, <2>5, <1>1, MaskAssumption DEF Fill!Ahead
  <1>5. ASSUME NEW o \in 0 .. ThisCall - 1
        PROVE  m_data[From + o].byte = m_b_idx["reader"] + Done + o
    <2>1. Done + o \in 0 .. MaskSize - 1 /\ Done + o < x_size
      BY <1>1, <1>3, <1>4, MaskAssumption
    <2>2. Fill!SlotAt(m_idx["reader"], Done + o) = From + o
      BY <1>1, <1>2, <2>1, MaskAssumption
         DEF Fill!SlotAt, From, Done, ThisCall, Wraps, SizeTillEnd
    <2>3. Done + o < Fill!Ahead("recoder")
      BY <2>1, <1>4, <1>1, <1>3, Fill!StreamOrder, FillAssumptions DEF Fill!FInv
    <2>4. m_data[Fill!SlotAt(m_idx["reader"], Done + o)]
            = Fill!Recoded(Fill!Touched("reader") + (Done + o))
      BY <2>1, <2>3 DEF Fill!FInv, Fill!ContentInv, Fill!RegionHolds
    <2>5. m_data[From + o].byte = m_b_idx["reader"] + (Done + o)
      BY <2>2, <2>4, <1>4 DEF Fill!Recoded
    <2>6. QED
      BY <2>5, <1>2, <1>3
  <1>6. QED
    BY <1>3, <1>5
-----------------------------------------------------------------------------
(* The same step, seen through another instance of CyclicBuffer *)

\* A write or a read of the channel is one of the buffer with free sizes.
LEMMA ChannelStepIsRecoderStep ==
  Chan!cyclic_buffer_write \/ Chan!cyclic_buffer_read => Recoder!Next
  <1>1. Chan!cyclic_buffer_write => Recoder!cyclic_buffer_write
    BY DEF Chan!cyclic_buffer_write, Chan!WriteCopy, Chan!Load, Chan!Publish,
           Chan!Consume, Chan!Return, Chan!Advance, Chan!Goto,
           Chan!Wanted, Chan!Region, Chan!Offset, Chan!NextIdx, Chan!Raw,
           Chan!Add32, Chan!Sub32, Chan!MIN, Chan!Slots, Chan!Downstream,
           Chan!ThreadIdle, Chan!Roles, Recoder!cyclic_buffer_write,
           Recoder!WriteCopy, Recoder!Load, Recoder!Publish,
           Recoder!Consume, Recoder!Return, Recoder!Advance,
           Recoder!Goto, Recoder!Wanted, Recoder!Region, Recoder!Offset,
           Recoder!NextIdx, Recoder!Raw, Recoder!Add32, Recoder!Sub32,
           Recoder!MIN, Recoder!Slots, Recoder!Downstream,
           Recoder!ThreadIdle, Recoder!Roles
  <1>2. Chan!cyclic_buffer_read => Recoder!cyclic_buffer_read
    BY DEF Chan!cyclic_buffer_read, Chan!ReadCopy, Chan!Load, Chan!Publish,
           Chan!Consume, Chan!Return, Chan!Advance, Chan!Goto,
           Chan!Wanted, Chan!SlotAt, Chan!NextIdx, Chan!Add32,
           Chan!Sub32, Chan!MIN, Chan!Downstream, Chan!ThreadIdle,
           Chan!Roles, Recoder!cyclic_buffer_read, Recoder!ReadCopy,
           Recoder!Load, Recoder!Publish, Recoder!Consume,
           Recoder!Return, Recoder!Advance, Recoder!Goto, Recoder!Wanted,
           Recoder!SlotAt, Recoder!NextIdx, Recoder!Add32, Recoder!Sub32,
           Recoder!MIN, Recoder!Downstream, Recoder!ThreadIdle,
           Recoder!Roles
  <1>3. QED
    BY <1>1, <1>2 DEF Recoder!Next

\* The recoder's counter may only grow under its hands.
LEMMA OthersLeaveTheRecoder ==
  ASSUME Rec!FInv, Chan!cyclic_buffer_write \/ Chan!cyclic_buffer_read
  PROVE  /\ c_pc'["recoder"] = c_pc["recoder"] /\ c_size'["recoder"] = c_size["recoder"]
         /\ c_b_idx'["recoder"] = c_b_idx["recoder"]
         /\ c_available["recoder"] \in Nat /\ c_available'["recoder"] \in Nat
         /\ c_available'["recoder"] >= c_available["recoder"]
  <1>1. Rec!TypeOK /\ Rec!CounterInv
    BY DEF Rec!FInv, Rec!IInv
  <1>2. /\ DOMAIN c_pc = Roles /\ DOMAIN c_size = Roles /\ DOMAIN c_b_idx = Roles
        /\ DOMAIN c_available = Roles
        /\ \A r \in Roles : c_available[r] \in Nat /\ c_size[r] \in Nat
    BY <1>1, MaskAssumption DEF Rec!TypeOK, Rec!Roles, Roles
  <1>3. /\ c_pc'["recoder"] = c_pc["recoder"] /\ c_size'["recoder"] = c_size["recoder"]
        /\ c_b_idx'["recoder"] = c_b_idx["recoder"]
    BY <1>2
       DEF Chan!cyclic_buffer_write, Chan!WriteCopy, Chan!Load, Chan!Publish,
           Chan!Consume, Chan!Return, Chan!Advance, Chan!Goto,
           Chan!Wanted, Chan!Region, Chan!Offset, Chan!NextIdx, Chan!Raw,
           Chan!Add32, Chan!Sub32, Chan!MIN, Chan!Slots, Chan!Downstream,
           Chan!ThreadIdle, Roles, Chan!ReadCopy,
           Chan!cyclic_buffer_read
  <1>4. \/ c_available'["recoder"] = c_available["recoder"]
        \/ /\ c_pc["writer"] = "add"
           /\ c_available'["recoder"]
                = Rec!Add32(c_available["recoder"], c_size["writer"])
    BY <1>2
       DEF Chan!cyclic_buffer_write, Chan!WriteCopy, Chan!Load, Chan!Publish,
           Chan!Consume, Chan!Return, Chan!Advance, Chan!Goto,
           Chan!Wanted, Chan!Region, Chan!Offset, Chan!NextIdx, Chan!Raw,
           Chan!Add32, Chan!Sub32, Chan!MIN, Chan!Slots, Chan!Downstream,
           Chan!ThreadIdle, Roles, Chan!ReadCopy,
           Chan!cyclic_buffer_read, Rec!Add32
  <1>5. c_pc["writer"] = "add" =>
          Rec!Add32(c_available["recoder"], c_size["writer"])
            = c_available["recoder"] + c_size["writer"]
    <2> SUFFICES ASSUME c_pc["writer"] = "add"
                 PROVE  Rec!Add32(c_available["recoder"], c_size["writer"])
                          = c_available["recoder"] + c_size["writer"]
      OBVIOUS
    <2>1. c_available["recoder"] + c_size["writer"] <= 2 * TotalSize
      BY <1>1, RecAssumptions, Rec!PublishFits DEF Rec!Roles, Rec!Downstream
    <2>2. QED
      BY <2>1, <1>2, RecAssumptions, Rec!Add32NoWrap, MaskAssumption DEF Roles
  <1>6. c_available["recoder"] \in Nat /\ c_size["writer"] \in Nat
    BY <1>2 DEF Roles
  <1>7. QED
    BY <1>3, <1>4, <1>5, <1>6

-----------------------------------------------------------------------------
(* A call of cyclic_buffer_recode_xor from cyclic_buffer_recode_xor_buf *)

\* What a step of such a call does to the recoder's place in the channel: it
\* goes on with the size decided on, or returns having recoded exactly that.
LEMMA CallEffect ==
  ASSUME Rec!FInv, Fill!FInv, PhaseInv, phase \in {"first", "second"},
         NestedXor(From, ThisCall, AfterCall)
  PROVE  /\ UNCHANGED <<mask, x_size, stage>>
         /\ \/ /\ phase' = phase
               /\ c_b_idx'["recoder"] = c_b_idx["recoder"]
               /\ c_available'["recoder"] = c_available["recoder"]
               /\ c_size'["recoder"] = ThisCall
            \/ /\ phase' = AfterCall
               /\ c_b_idx'["recoder"] = c_b_idx["recoder"] + ThisCall
               /\ c_available'["recoder"] = c_available["recoder"] - ThisCall
               /\ c_pc'["recoder"] = "idle"
         /\ c_pc["recoder"] = "idle" => ThisCall <= c_available["recoder"]
         /\ c_available["recoder"] # 0
  <1>1. Rec!TypeOK /\ Rec!CounterInv
    BY DEF Rec!FInv, Rec!IInv
  <1>2. /\ "recoder" \in Roles /\ DOMAIN c_pc = Roles /\ DOMAIN c_size = Roles
        /\ DOMAIN c_b_idx = Roles /\ DOMAIN c_available = Roles
        /\ c_available["recoder"] \in Nat /\ c_available["recoder"] < Word
    BY <1>1, MaskAssumption DEF Rec!TypeOK, Rec!Roles, Roles
  <1>3. /\ Done \in Nat /\ ThisCall \in Nat \ {0} /\ Done + ThisCall <= x_size
        /\ x_size \in Nat /\ x_size - Done <= c_available["recoder"]
        /\ c_pc["recoder"] # "idle" => c_size["recoder"] = ThisCall
    BY MaskBytes DEF PhaseInv, SizeHolds
  <1>4. ThisCall <= c_available["recoder"]
    BY <1>2, <1>3
  <1>5. UNCHANGED <<mask, x_size, stage>> /\ c_available["recoder"] # 0
    BY <1>3, <1>4, <1>2 DEF NestedXor
  <1>6. ASSUME Chan!Load("recoder", ThisCall), UNCHANGED phase
        PROVE  /\ phase' = phase
               /\ c_b_idx'["recoder"] = c_b_idx["recoder"]
               /\ c_available'["recoder"] = c_available["recoder"]
               /\ c_size'["recoder"] = ThisCall
    <2>1. Chan!MIN(c_available["recoder"], ThisCall) = ThisCall
      BY <1>2, <1>3, <1>4 DEF Chan!MIN
    <2>2. QED
      BY <2>1, <1>2, <1>6 DEF Chan!Load
  <1>7. ASSUME NEW bytes, Chan!XorCopy(bytes), UNCHANGED phase
        PROVE  /\ phase' = phase
               /\ c_b_idx'["recoder"] = c_b_idx["recoder"]
               /\ c_available'["recoder"] = c_available["recoder"]
               /\ c_size'["recoder"] = ThisCall
    BY <1>3, <1>7 DEF Chan!XorCopy, Chan!Advance
  <1>8. ASSUME Chan!Publish("recoder"), UNCHANGED phase
        PROVE  /\ phase' = phase
               /\ c_b_idx'["recoder"] = c_b_idx["recoder"]
               /\ c_available'["recoder"] = c_available["recoder"]
               /\ c_size'["recoder"] = ThisCall
    BY <1>2, <1>3, <1>8 DEF Chan!Publish, Chan!Downstream, Roles
  <1>9. ASSUME Chan!Consume("recoder"), phase' = AfterCall
        PROVE  /\ phase' = AfterCall
               /\ c_b_idx'["recoder"] = c_b_idx["recoder"] + ThisCall
               /\ c_available'["recoder"] = c_available["recoder"] - ThisCall
               /\ c_pc'["recoder"] = "idle"
    <2>1. c_size["recoder"] = ThisCall
      BY <1>3, <1>9 DEF Chan!Consume, Chan!Return
    <2>2. Chan!Sub32(c_available["recoder"], ThisCall) = c_available["recoder"] - ThisCall
      BY <1>2, <1>3, <1>4, RecAssumptions, Rec!Sub32NoWrap DEF Chan!Sub32, Rec!Sub32
    <2>3. QED
      BY <2>1, <2>2, <1>2, <1>9 DEF Chan!Consume, Chan!Return, Chan!Goto
  <1>10. QED
    <2>1. \/ Chan!Load("recoder", ThisCall) /\ UNCHANGED phase
          \/ Chan!XorCopy([o \in 0 .. ThisCall - 1 |-> m_data[From + o].byte])
             /\ UNCHANGED phase
          \/ Chan!Publish("recoder") /\ UNCHANGED phase
          \/ Chan!Consume("recoder") /\ phase' = AfterCall
      BY <1>5 DEF NestedXor
    <2>2. QED
      BY <2>1, <1>4, <1>5, <1>6, <1>7, <1>8, <1>9

\* The bytes it XORs with are those of the stream, though it reads them from
\* a second buffer that wraps around elsewhere.
LEMMA CallXorsWithTheStream ==
  ASSUME Rec!FInv, Fill!FInv, PhaseInv, phase \in {"first", "second"},
         Chan!XorCopy([o \in 0 .. ThisCall - 1 |-> m_data[From + o].byte])
  PROVE  Recoder!XorCopy(Recoder!StreamMask)
  <1> DEFINE bytes == [o \in 0 .. ThisCall - 1 |-> m_data[From + o].byte]
             i == c_idx["recoder"]
  <1>1. Rec!TypeOK
    BY DEF Rec!FInv, Rec!IInv
  <1>2. c_pc["recoder"] = "copy" /\ c_size["recoder"] = ThisCall
    BY DEF Chan!XorCopy, Chan!Advance, PhaseInv, SizeHolds
  <1>3. /\ i \in Rec!Slots /\ ThisCall \in 0 .. TotalSize
        /\ c_b_idx["recoder"] \in Nat
    BY <1>1, <1>2 DEF Rec!TypeOK, Rec!Roles
  <1>4. \A o \in 0 .. ThisCall - 1 : bytes[o] = c_b_idx["recoder"] + o
    <2>1. c_b_idx["recoder"] = m_b_idx["reader"] + Done
      BY DEF PhaseInv, InStep
    <2>2. QED
      BY <2>1, MaskBytes
  <1>5. ASSUME NEW s \in Rec!Slots, s \in Rec!Region(i, ThisCall)
        PROVE  bytes[Rec!Offset(i, s)] = Rec!StreamMask[Rec!Offset(i, s)]
    <2>1. Rec!Offset(i, s) < ThisCall /\ Rec!Offset(i, s) \in 0 .. TotalSize - 1
      BY <1>3, <1>5, RecAssumptions, Rec!RegionIsOffsets, Rec!OffsetInRange
    <2>2. Rec!Offset(i, s) \in 0 .. ThisCall - 1 /\ Rec!Offset(i, s) \in 0 .. TotalSize
      BY <2>1, <1>3, MaskAssumption
    <2>3. QED
      BY <2>2, <1>4 DEF Rec!StreamMask
  <1>6. Chan!XorCopy(bytes)
    OBVIOUS
  <1> HIDE DEF bytes
  <1>7. c_data' = [s \in Rec!Slots |->
                     IF s \in Rec!Region(i, ThisCall)
                     THEN [c_data[s] EXCEPT
                             !.mask = Rec!Toggle(bytes[Rec!Offset(i, s)], @)]
                     ELSE c_data[s]]
    BY <1>2, <1>6
       DEF Chan!XorCopy, Chan!Region, Chan!Offset, Chan!Toggle, Chan!Slots,
           Rec!Slots, Rec!Region, Rec!Offset, Rec!Toggle
  <1>8. c_data' = [s \in Rec!Slots |->
                     IF s \in Rec!Region(i, ThisCall)
                     THEN [c_data[s] EXCEPT
                             !.mask = Rec!Toggle(Rec!StreamMask[Rec!Offset(i, s)], @)]
                     ELSE c_data[s]]
    BY <1>5, <1>7
  <1>9. /\ Recoder!Advance("recoder", Recoder!NextIdx(i, ThisCall))
        /\ UNCHANGED c_dest
    BY <1>2, <1>6
       DEF Chan!XorCopy, Chan!Advance, Chan!Goto, Chan!NextIdx,
           Recoder!Advance, Recoder!Goto, Recoder!NextIdx
  <1>10. QED
    BY <1>2, <1>8, <1>9
       DEF Recoder!XorCopy, Recoder!Region, Recoder!Offset, Recoder!Toggle,
           Recoder!Slots, Recoder!StreamMask, Rec!Slots, Rec!Region,
           Rec!Offset, Rec!Toggle, Rec!StreamMask

\* So the call is one of recode_xor with the mask of the stream, as
\* CyclicBuffer models it.
LEMMA CallIsRecoderStep ==
  ASSUME Rec!FInv, Fill!FInv, PhaseInv, phase \in {"first", "second"},
         NestedXor(From, ThisCall, AfterCall)
  PROVE  Recoder!Next
  <1>1. \/ Chan!Load("recoder", ThisCall)
        \/ Chan!XorCopy([o \in 0 .. ThisCall - 1 |-> m_data[From + o].byte])
        \/ Chan!Publish("recoder")
        \/ Chan!Consume("recoder")
    BY CallEffect DEF NestedXor
  <1>2. ASSUME Chan!Load("recoder", ThisCall)
        PROVE  \E max \in Requests \cup 0 .. TotalSize : Recoder!Load("recoder", max)
    <2>1. c_pc["recoder"] = "idle"
      BY <1>2 DEF Chan!Load, Chan!ThreadIdle, Chan!Roles, Roles
    <2>2. ThisCall \in 0 .. TotalSize
      <3>1. Rec!TypeOK /\ Rec!CounterInv
        BY DEF Rec!FInv, Rec!IInv
      <3>2. c_available["recoder"] <= TotalSize /\ c_available["recoder"] \in Nat
        BY <2>1, <3>1, RecAssumptions, Rec!CounterBounds, Rec!Positions DEF Rec!Roles
      <3>3. QED
        BY <2>1, <3>2, CallEffect, MaskBytes, MaskAssumption
    <2>3. Recoder!Load("recoder", ThisCall)
      BY <1>2
         DEF Chan!Load, Chan!Goto, Chan!MIN, Chan!ThreadIdle, Chan!Roles,
             Recoder!Load, Recoder!Goto, Recoder!MIN,
             Recoder!ThreadIdle, Recoder!Roles
    <2>4. QED
      BY <2>2, <2>3
  <1>3. Chan!Publish("recoder") => Recoder!Publish("recoder")
    BY DEF Chan!Publish, Chan!Goto, Chan!Downstream, Chan!Add32, Recoder!Publish,
           Recoder!Goto, Recoder!Downstream, Recoder!Add32
  <1>4. Chan!Consume("recoder") => Recoder!Consume("recoder")
    BY DEF Chan!Consume, Chan!Return, Chan!Goto, Chan!Sub32, Recoder!Consume,
           Recoder!Return, Recoder!Goto, Recoder!Sub32
  <1>5. QED
    BY <1>1, <1>2, <1>3, <1>4, CallXorsWithTheStream
       DEF Recoder!Next, Recoder!cyclic_buffer_recode_xor

\* recode_xor_buf makes its first call, and its second, as NestedXor says.
LEMMA CallsAreNested ==
  XorFirst \/ XorSecond => NestedXor(From, ThisCall, AfterCall) /\ phase \in {"first", "second"}
  <1>1. CASE XorFirst /\ Wraps
    BY <1>1 DEF XorFirst, From, ThisCall, AfterCall
  <1>2. CASE XorFirst /\ ~ Wraps
    BY <1>2 DEF XorFirst, From, ThisCall, AfterCall
  <1>3. CASE XorSecond
    BY <1>3 DEF XorSecond, From, ThisCall, AfterCall
  <1>4. QED
    BY <1>1, <1>2, <1>3

-----------------------------------------------------------------------------
(* The mask buffer *)

\* Filling it is writing and passing on as in CyclicBuffer.
LEMMA FillingKeepsFInv ==
  ASSUME Fill!FInv, Mask!cyclic_buffer_write \/ Mask!cyclic_buffer_recode_none
  PROVE  /\ Fill!FInv'
         /\ m_b_idx'["reader"] = m_b_idx["reader"] /\ m_pc'["reader"] = m_pc["reader"]
         /\ Mask!cyclic_buffer_write => m_pc'["recoder"] = m_pc["recoder"]
         /\ Mask!cyclic_buffer_recode_none => m_pc'["writer"] = m_pc["writer"]
  <1>1. Fill!TypeOK
    BY DEF Fill!FInv, Fill!IInv
  <1>2. /\ "reader" \in DOMAIN m_b_idx /\ "reader" \in DOMAIN m_pc
        /\ "recoder" \in DOMAIN m_pc /\ "writer" \in DOMAIN m_pc
    BY <1>1 DEF Fill!TypeOK, Fill!Roles
  <1>3. /\ m_b_idx'["reader"] = m_b_idx["reader"] /\ m_pc'["reader"] = m_pc["reader"]
        /\ Mask!cyclic_buffer_write => m_pc'["recoder"] = m_pc["recoder"]
        /\ Mask!cyclic_buffer_recode_none => m_pc'["writer"] = m_pc["writer"]
    BY <1>2
       DEF Mask!cyclic_buffer_write, Mask!WriteCopy, Mask!Load, Mask!Publish,
           Mask!Consume, Mask!Return, Mask!Advance, Mask!Goto,
           Mask!cyclic_buffer_recode_none, Mask!NoneLoad,
           Mask!NoneAdvance
  <1>4. ReadOut' = ReadOut
    BY <1>3 DEF ReadOut
  <1>5. Mask!cyclic_buffer_write => Fill!cyclic_buffer_write
    BY <1>4
       DEF Mask!cyclic_buffer_write, Mask!WriteCopy, Mask!Load, Mask!Publish,
           Mask!Consume, Mask!Return, Mask!Advance, Mask!Goto,
           Mask!Wanted, Mask!Region, Mask!Offset, Mask!NextIdx, Mask!Raw,
           Mask!Add32, Mask!Sub32, Mask!MIN, Mask!Slots, Mask!Downstream,
           Mask!ThreadIdle, Mask!Roles, Fill!cyclic_buffer_write,
           Fill!WriteCopy, Fill!Load, Fill!Publish, Fill!Consume,
           Fill!Return, Fill!Advance, Fill!Goto, Fill!Wanted,
           Fill!Region, Fill!Offset, Fill!NextIdx, Fill!Raw, Fill!Add32,
           Fill!Sub32, Fill!MIN, Fill!Slots, Fill!Downstream,
           Fill!ThreadIdle, Fill!Roles
  <1>6. Mask!cyclic_buffer_recode_none => Fill!cyclic_buffer_recode_none
    BY <1>4
       DEF Mask!cyclic_buffer_recode_none, Mask!NoneLoad, Mask!NoneAdvance,
           Mask!Publish, Mask!Return, Mask!Advance, Mask!Goto,
           Mask!Add32, Mask!Downstream, Mask!ThreadIdle, Mask!Roles,
           Fill!cyclic_buffer_recode_none, Fill!NoneLoad,
           Fill!NoneAdvance, Fill!Publish, Fill!Return, Fill!Advance,
           Fill!Goto, Fill!Add32, Fill!Downstream, Fill!ThreadIdle,
           Fill!Roles
  <1>7. Fill!FInv'
    BY <1>5, <1>6, FillAssumptions, Fill!NextFInv DEF Fill!Next
  <1>8. QED
    BY <1>3, <1>7

\* Nothing else changes it, but for the advance after the calls.
LEMMA MaskStays ==
  ASSUME Fill!FInv, UNCHANGED mask
  PROVE  Fill!FInv'
  <1>1. ReadOut' = ReadOut
    BY DEF ReadOut, mask
  <1>2. UNCHANGED Fill!vars
    BY <1>1 DEF Fill!vars, mask
  <1>3. QED
    BY <1>2, FillAssumptions, Fill!NextFInv

\* Taking x_size bytes out of it at once, without cyclic_buffer_read.
LEMMA AdvanceKeepsFInv ==
  ASSUME Fill!FInv, PhaseInv, MaskAdvance
  PROVE  Fill!FInv'
  <1>1. /\ \A r \in Fill!Roles : m_pc[r] = "idle"
        /\ x_size \in Nat \ {0} /\ x_size <= m_available["reader"]
    BY DEF PhaseInv, OneCallAtATime, SizeHolds, MaskAdvance, Fill!Roles
  <1>2. PICK n \in Nat : n = x_size
    BY <1>1
  <1>3. m_b_idx'["reader"] = m_b_idx["reader"] + n
    BY <1>2, MaskTypes DEF MaskAdvance
  <1>4. /\ m_idx' = [m_idx EXCEPT !["reader"] = Fill!NextIdx(@, n)]
        /\ m_available' = [m_available EXCEPT !["writer"] = Fill!Add32(@, n),
                                             !["reader"] = Fill!Sub32(@, n)]
        /\ m_b_idx' = [m_b_idx EXCEPT !["reader"] = @ + n]
        /\ UNCHANGED <<m_data, m_pc, m_size>>
    BY <1>2
       DEF MaskAdvance, Mask!NextIdx, Mask!Add32, Mask!Sub32, Fill!NextIdx,
                        Fill!Add32, Fill!Sub32
  <1>5. ReadOut' = [k \in 0 .. MaskTotal - 1 |->
                     IF k < m_b_idx["reader"] + n THEN Fill!Recoded(k)
                     ELSE Fill!Raw(Fill!NoByte)]
    BY <1>3 DEF ReadOut, Fill!Recoded, Fill!Raw, Fill!NoByte
  <1>6. Fill!TakesOut(n)
    BY <1>4, <1>5 DEF Fill!TakesOut
  <1>7. QED
    BY <1>1, <1>2, <1>6, FillAssumptions, Fill!ReadAtOnce

-----------------------------------------------------------------------------
(* The steps of the program *)

\* All three parts of the channel start empty and idle.
LEMMA InitChannelInv == Init => ChannelInv
  <1> SUFFICES ASSUME Init PROVE ChannelInv
    OBVIOUS
  <1>1. Rec!FInv
    <2>1. Rec!Init
      BY DEF Init, Chan!Init, Chan!Slots, Chan!Raw, Chan!NoByte, Chan!Roles, Rec!Init,
             Rec!Slots, Rec!Raw, Rec!NoByte, Rec!Roles
    <2>2. QED
      BY <2>1, RecAssumptions, Rec!InitFInv
  <1>2. /\ m_pc = [r \in Roles |-> "idle"] /\ m_b_idx = [r \in Roles |-> 0]
        /\ c_pc = [r \in Roles |-> "idle"] /\ c_b_idx = [r \in Roles |-> 0]
    BY DEF Init, Chan!Init, Mask!Init, Chan!Roles, Mask!Roles, Roles
  <1>3. Fill!FInv
    <2>1. ReadOut = [k \in 0 .. MaskTotal - 1 |-> Fill!Raw(Fill!NoByte)]
      BY <1>2, MaskAssumption DEF ReadOut, Fill!Raw, Fill!NoByte, Roles
    <2>2. Fill!Init
      BY <2>1
         DEF Init, Mask!Init, Mask!Slots, Mask!Raw, Mask!NoByte, Mask!Roles, Fill!Init,
             Fill!Slots, Fill!Raw, Fill!NoByte, Fill!Roles
    <2>3. QED
      BY <2>2, FillAssumptions, Fill!InitFInv
  <1>4. PhaseInv
    BY <1>2 DEF Init, PhaseInv, OneCallAtATime, SizeHolds, InStep, Done, Roles
  <1>5. QED
    BY <1>1, <1>3, <1>4 DEF ChannelInv

\* The writer and the reader leave the recoder where it is.
LEMMA OthersKeepPhaseInv ==
  ASSUME ChannelInv, Chan!cyclic_buffer_write \/ Chan!cyclic_buffer_read,
         UNCHANGED <<mask, phase, x_size>>
  PROVE  PhaseInv'
  <1>1. /\ c_pc'["recoder"] = c_pc["recoder"] /\ c_size'["recoder"] = c_size["recoder"]
        /\ c_b_idx'["recoder"] = c_b_idx["recoder"]
        /\ c_available["recoder"] \in Nat /\ c_available'["recoder"] \in Nat
        /\ c_available'["recoder"] >= c_available["recoder"]
    BY OthersLeaveTheRecoder DEF ChannelInv
  <1>2. PhaseInv /\ Fill!FInv
    BY DEF ChannelInv
  <1>3. /\ Done' = Done /\ ThisCall' = ThisCall /\ Wraps' = Wraps
        /\ m_pc' = m_pc /\ m_available' = m_available /\ m_b_idx' = m_b_idx
    BY DEF Done, ThisCall, Wraps, SizeTillEnd, mask
  <1>4. OneCallAtATime'
    BY <1>1, <1>2, <1>3 DEF PhaseInv, OneCallAtATime
  <1>5. SizeHolds'
    <2>1. phase \in {"first", "second"} => x_size - Done <= c_available'["recoder"]
      <3>1. phase \in {"first", "second"} =>
              x_size - Done <= c_available["recoder"] /\ x_size \in Nat /\ Done \in Nat
        BY <1>2, MaskBytes DEF PhaseInv, SizeHolds
      <3>2. QED
        BY <3>1, <1>1
    <2>2. QED
      BY <2>1, <1>1, <1>2, <1>3 DEF PhaseInv, SizeHolds
  <1>6. InStep'
    BY <1>1, <1>2, <1>3 DEF PhaseInv, InStep
  <1>7. QED
    BY <1>4, <1>5, <1>6 DEF PhaseInv

\* Filling the mask buffer does not move its reader.
LEMMA FillingKeepsPhaseInv ==
  ASSUME ChannelInv, MaskWrite \/ MaskNone
  PROVE  PhaseInv' /\ Fill!FInv'
  <1>1. PhaseInv /\ Fill!FInv
    BY DEF ChannelInv
  <1>2. CASE UNCHANGED mask /\ phase = "write" /\ phase' = "none" /\ m_pc["writer"] = "idle"
              /\ UNCHANGED channel
    BY <1>1, <1>2, MaskStays
       DEF mask, channel, PhaseInv, OneCallAtATime, SizeHolds, InStep, Done
  <1>3. CASE /\ phase = "write" /\ Mask!cyclic_buffer_write
             /\ phase' = IF m_pc'["writer"] = "idle" THEN "none" ELSE phase
             /\ UNCHANGED channel
    BY <1>1, <1>3, FillingKeepsFInv
       DEF channel, PhaseInv, OneCallAtATime, SizeHolds, InStep, Done
  <1>4. CASE MaskNone
    BY <1>1, <1>4, FillingKeepsFInv
       DEF MaskNone, channel, PhaseInv, OneCallAtATime, SizeHolds, InStep, Done
  <1>5. QED
    BY <1>2, <1>3, <1>4 DEF MaskWrite

\* The size of recode_xor_buf is not zero and within both counters.
LEMMA LoadKeepsPhaseInv ==
  ASSUME ChannelInv, XorBufLoad
  PROVE  PhaseInv'
  <1>1. PhaseInv /\ Fill!FInv /\ UNCHANGED <<channel, mask>> /\ phase = "xor"
    BY DEF ChannelInv, XorBufLoad
  <1>2. c_available["recoder"] \in Nat /\ m_available["reader"] \in Nat
    BY MaskTypes, MaskAssumption
       DEF ChannelInv, Rec!FInv, Rec!IInv, Rec!TypeOK, Rec!Roles
  <1>3. CASE phase' = "write"
    BY <1>1, <1>3 DEF channel, mask, PhaseInv, OneCallAtATime, SizeHolds, InStep, Done
  <1>4. CASE phase' # "write"
    <2>1. /\ phase' = "first" /\ x_size' \in Nat \ {0}
          /\ x_size' <= m_available["reader"] /\ x_size' <= c_available["recoder"]
      BY <1>2, <1>4 DEF XorBufLoad, Chan!MIN
    <2>2. Done' = 0
      BY <2>1 DEF Done
    <2>3. x_size' - 0 <= c_available["recoder"]
      BY <1>2, <2>1
    <2>4. QED
      BY <1>1, <2>1, <2>2, <2>3
         DEF channel, mask, PhaseInv, OneCallAtATime, SizeHolds, InStep, Done
  <1>5. QED
    BY <1>3, <1>4

\* A call that goes on keeps its size; one that returns has done it all.
LEMMA CallKeepsPhaseInv ==
  ASSUME ChannelInv, XorFirst \/ XorSecond
  PROVE  PhaseInv'
  <1>1. /\ PhaseInv /\ Fill!FInv /\ Rec!FInv
        /\ phase \in {"first", "second"} /\ NestedXor(From, ThisCall, AfterCall)
    BY CallsAreNested DEF ChannelInv
  <1>2. /\ UNCHANGED <<mask, x_size, stage>>
        /\ \/ /\ phase' = phase
              /\ c_b_idx'["recoder"] = c_b_idx["recoder"]
              /\ c_available'["recoder"] = c_available["recoder"]
              /\ c_size'["recoder"] = ThisCall
           \/ /\ phase' = AfterCall
              /\ c_b_idx'["recoder"] = c_b_idx["recoder"] + ThisCall
              /\ c_available'["recoder"] = c_available["recoder"] - ThisCall
              /\ c_pc'["recoder"] = "idle"
    BY <1>1, CallEffect
  <1>3. /\ m_pc' = m_pc /\ m_idx' = m_idx /\ m_available' = m_available
        /\ m_b_idx' = m_b_idx /\ x_size' = x_size
    BY <1>2 DEF mask
  <1>4. /\ Done \in Nat /\ ThisCall \in Nat \ {0} /\ Done + ThisCall <= x_size
        /\ m_b_idx["reader"] \in Nat /\ m_idx["reader"] \in 0 .. MaskSize - 1
        /\ c_available["recoder"] \in Nat
    BY <1>1, MaskBytes, MaskTypes, MaskAssumption
       DEF Rec!FInv, Rec!IInv, Rec!TypeOK, Rec!Roles
  <1>5. /\ x_size \in Nat \ {0} /\ x_size <= m_available["reader"]
        /\ x_size - Done <= c_available["recoder"]
        /\ phase = "second" => Wraps
        /\ c_b_idx["recoder"] = m_b_idx["reader"] + Done
        /\ m_pc["reader"] = "idle" /\ m_pc["writer"] = "idle" /\ m_pc["recoder"] = "idle"
    BY <1>1 DEF PhaseInv, OneCallAtATime, SizeHolds, InStep
  <1>6. CASE /\ phase' = phase
             /\ c_b_idx'["recoder"] = c_b_idx["recoder"]
             /\ c_available'["recoder"] = c_available["recoder"]
             /\ c_size'["recoder"] = ThisCall
    <2>1. Done' = Done /\ ThisCall' = ThisCall /\ Wraps' = Wraps
      BY <1>3, <1>6 DEF Done, ThisCall, Wraps, SizeTillEnd
    <2>2. QED
      BY <2>1, <1>1, <1>3, <1>5, <1>6 DEF PhaseInv, OneCallAtATime, SizeHolds, InStep
  <1>7. CASE /\ phase' = AfterCall
             /\ c_b_idx'["recoder"] = c_b_idx["recoder"] + ThisCall
             /\ c_available'["recoder"] = c_available["recoder"] - ThisCall
             /\ c_pc'["recoder"] = "idle"
    <2>1. CASE phase = "first" /\ Wraps
      <3>1. /\ Done = 0 /\ ThisCall = SizeTillEnd /\ phase' = "second"
            /\ Done' = SizeTillEnd /\ Wraps'
        BY <2>1, <1>3, <1>7 DEF Done, ThisCall, AfterCall, Wraps, SizeTillEnd
      <3>2. /\ x_size - SizeTillEnd <= c_available'["recoder"]
            /\ c_b_idx'["recoder"] = m_b_idx["reader"] + SizeTillEnd
        BY <3>1, <1>4, <1>5, <1>7
      <3>3. QED
        BY <3>1, <3>2, <1>3, <1>5, <1>7 DEF PhaseInv, OneCallAtATime, SizeHolds, InStep
    <2>2. CASE ~ (phase = "first" /\ Wraps)
      <3>1. phase' = "advance" /\ Done + ThisCall = x_size
        BY <2>2, <1>1, <1>3, <1>4, <1>5, <1>7, MaskAssumption
           DEF Done, ThisCall, AfterCall, SizeTillEnd
      <3>2. c_b_idx'["recoder"] = m_b_idx["reader"] + x_size
        BY <3>1, <1>4, <1>5, <1>7
      <3>3. QED
        BY <3>1, <3>2, <1>3, <1>5, <1>7 DEF PhaseInv, OneCallAtATime, SizeHolds, InStep
    <2>3. QED
      BY <2>1, <2>2
  <1>8. QED
    BY <1>2, <1>6, <1>7

\* The advance of the mask buffer catches up with the channel.
LEMMA AdvanceKeepsPhaseInv ==
  ASSUME ChannelInv, MaskAdvance
  PROVE  PhaseInv'
  <1>1. /\ PhaseInv /\ Fill!FInv /\ phase = "advance" /\ phase' = "write"
        /\ UNCHANGED <<channel, m_pc>>
    BY DEF ChannelInv, MaskAdvance
  <1>2. m_b_idx'["reader"] = m_b_idx["reader"] + x_size
    BY <1>1, MaskTypes DEF MaskAdvance
  <1>3. m_b_idx'["reader"] \in Nat
    BY <1>1, <1>2, MaskTypes DEF PhaseInv, SizeHolds
  <1>4. QED
    BY <1>1, <1>2, <1>3 DEF channel, PhaseInv, OneCallAtATime, SizeHolds, InStep, Done

\* Every step is a step of the buffer whose recoder is free to choose its
\* sizes, or does not touch the channel.
LEMMA StepIsRecoderStep ==
  ChannelInv /\ [Next]_vars => [Recoder!Next]_Recoder!vars
  <1> SUFFICES ASSUME ChannelInv, [Next]_vars PROVE [Recoder!Next]_Recoder!vars
    OBVIOUS
  <1>1. UNCHANGED channel => UNCHANGED Recoder!vars
    BY DEF channel, Recoder!vars
  <1>2. CASE run_writer
    BY <1>2, ChannelStepIsRecoderStep DEF run_writer
  <1>3. CASE run_recoder
    <2>1. CASE XorFirst \/ XorSecond
      BY <2>1, CallsAreNested, CallIsRecoderStep DEF ChannelInv
    <2>2. CASE ~ (XorFirst \/ XorSecond)
      BY <2>2, <1>1, <1>3
         DEF run_recoder, cyclic_buffer_recode_xor_buf, MaskWrite, MaskNone, XorBufLoad,
             MaskAdvance
    <2>3. QED
      BY <2>1, <2>2
  <1>4. CASE run_reader
    BY <1>1, <1>4, ChannelStepIsRecoderStep DEF run_reader
  <1>5. CASE UNCHANGED vars
    BY <1>1, <1>5 DEF vars, channel
  <1>6. QED
    BY <1>2, <1>3, <1>4, <1>5 DEF Next

\* One case per thread.
LEMMA NextChannelInv == ChannelInv /\ [Next]_vars => ChannelInv'
  <1> SUFFICES ASSUME ChannelInv, [Next]_vars PROVE ChannelInv'
    OBVIOUS
  <1>1. Rec!FInv'
    <2>1. UNCHANGED Recoder!vars => UNCHANGED Rec!vars
      BY DEF Recoder!vars, Rec!vars
    <2>2. [Rec!Next]_Rec!vars
      BY <2>1, StepIsRecoderStep, RecoderIsRec
    <2>3. QED
      BY <2>2, RecAssumptions, Rec!NextFInv DEF ChannelInv
  <1>2. CASE run_writer
    BY <1>1, <1>2, OthersKeepPhaseInv, MaskStays DEF ChannelInv, run_writer
  <1>3. CASE run_recoder
    <2>1. CASE MaskWrite \/ MaskNone
      BY <1>1, <2>1, FillingKeepsPhaseInv DEF ChannelInv
    <2>2. CASE XorBufLoad
      BY <1>1, <2>2, LoadKeepsPhaseInv, MaskStays DEF ChannelInv, XorBufLoad
    <2>3. CASE XorFirst \/ XorSecond
      <3>1. UNCHANGED mask
        BY <2>3, CallsAreNested, CallEffect DEF ChannelInv
      <3>2. QED
        BY <1>1, <2>3, <3>1, CallKeepsPhaseInv, MaskStays DEF ChannelInv
    <2>4. CASE MaskAdvance
      BY <1>1, <2>4, AdvanceKeepsPhaseInv, AdvanceKeepsFInv DEF ChannelInv
    <2>5. QED
      BY <1>3, <2>1, <2>2, <2>3, <2>4 DEF run_recoder, cyclic_buffer_recode_xor_buf
  <1>4. UNCHANGED <<channel, mask, phase, x_size>> => PhaseInv'
    BY DEF ChannelInv, channel, mask, PhaseInv, OneCallAtATime, SizeHolds, InStep, Done,
           ThisCall, Wraps, SizeTillEnd
  <1>5. CASE run_reader
    BY <1>1, <1>4, <1>5, OthersKeepPhaseInv, MaskStays DEF ChannelInv, run_reader
  <1>6. CASE UNCHANGED vars
    BY <1>1, <1>4, <1>6, MaskStays DEF ChannelInv, vars
  <1>7. QED
    BY <1>2, <1>3, <1>5, <1>6 DEF Next

-----------------------------------------------------------------------------
(* Theorems *)

\* recode_xor_buf never leaves the mask buffer and the channel out of step:
\* both buffers are right, and apart by what the calls have recoded so far.
THEOREM ChannelInvariance == Spec => []ChannelInv
  <1>1. QED
    BY InitChannelInv, NextChannelInv, PTL DEF Spec

\* Whenever recode_xor_buf is not running, the mask buffer has advanced by as
\* many bytes as the channel was recoded, though the results of the nested
\* calls are ignored.
THEOREM MaskKeepsInStep == Spec => []MaskInStep
  <1>1. ChannelInv => MaskInStep
    <2> SUFFICES ASSUME ChannelInv, phase \in {"write", "none", "xor"}
                 PROVE  c_b_idx["recoder"] = m_b_idx["reader"]
      BY DEF MaskInStep
    <2>1. m_b_idx["reader"] \in Nat
      BY MaskTypes DEF ChannelInv
    <2>2. QED
      BY <2>1 DEF ChannelInv, PhaseInv, InStep, Done
  <1>2. QED
    BY <1>1, ChannelInvariance, PTL

\* The two buffers together do what one buffer with cyclic_buffer_recode_xor
\* and the mask of the stream does.
THEOREM ChannelIsRecodeXor == Spec => ImplementsRecodeXor
  <1>1. Init => Recoder!Init
    BY DEF Init, Chan!Init, Chan!Slots, Chan!Raw, Chan!NoByte, Chan!Roles, Recoder!Init,
           Recoder!Slots, Recoder!Raw, Recoder!NoByte, Recoder!Roles
  <1>2. QED
    BY <1>1, StepIsRecoderStep, ChannelInvariance, PTL
       DEF Spec, ImplementsRecodeXor, Recoder!Spec

\* So the reader gets every byte of the data XORed with its own mask byte.
THEOREM ChannelDelivers == Spec => []Recoder!Delivered
  <1>1. ChannelInv => Recoder!Delivered
    <2>1. ChannelInv => Rec!Delivered
      BY RecAssumptions, Rec!FInvDelivers DEF ChannelInv
    <2>2. QED
      BY <2>1
         DEF Rec!Delivered, Rec!Touched, Rec!Recoded, Recoder!Delivered,
             Recoder!Touched, Recoder!Recoded
  <1>2. QED
    BY <1>1, ChannelInvariance, PTL
=============================================================================
