--------------------------- MODULE MaskedChannel ----------------------------
(***************************************************************************)
(* cyclic_buffer_recode_xor_buf of src/cyclic_buffer.c, which recodes one  *)
(* cyclic buffer with the bytes of another, among the three threads of     *)
(* src/test_cyclic_buffer.c.  The writer and the reader share the channel  *)
(* with the recoder.  The recoder alone fills a second buffer with mask    *)
(* bytes, passes them on with cyclic_buffer_recode_none and XORs the       *)
(* channel with them.  recode_xor_buf calls recode_xor once, or twice when *)
(* the mask bytes wrap around, and ignores how many bytes these calls did. *)
(*                                                                         *)
(* Both buffers are instances of CyclicBuffer; the k-th mask byte is the   *)
(* number k, and the reuse of a finite mask is left out.                   *)
(***************************************************************************)
EXTENDS Integers

CONSTANTS
  TotalSize, MaskSize,   \* total_size of the channel and of the mask buffer
  Word,
  DataLen,               \* the bytes to be sent
  MaskTotal,             \* a bound on the mask bytes the recoder produces
  Requests, MaskRequests \* the sizes asked for

ASSUME MaskAssumption ==
  /\ TotalSize \in Nat \ {0} /\ MaskSize \in Nat \ {0}
  /\ Word \in Nat /\ 2 * TotalSize < Word /\ 2 * MaskSize < Word
  /\ DataLen \in Nat /\ MaskTotal \in Nat /\ DataLen <= MaskTotal
  /\ Requests \subseteq Nat /\ MaskRequests \subseteq Nat \ {0}

VARIABLES
  c_data, c_idx, c_available, c_pc, c_size, c_b_idx, c_dest,   \* the channel
  m_data, m_idx, m_available, m_pc, m_size, m_b_idx,           \* the mask buffer
  phase,        \* where the recoder is in its loop and in recode_xor_buf
  x_size,       \* the local variable size of recode_xor_buf
  stage         \* *info->stage: 2 once the reader has everything

channel == <<c_data, c_idx, c_available, c_pc, c_size, c_b_idx, c_dest>>
mask == <<m_data, m_idx, m_available, m_pc, m_size, m_b_idx>>
vars == <<channel, mask, phase, x_size, stage>>

Roles == {"writer", "recoder", "reader"}

Chan == INSTANCE CyclicBuffer WITH
  ThreadOf <- [r \in Roles |-> r], Recoding <- "xor",
  data <- c_data, idx <- c_idx, available <- c_available, pc <- c_pc,
  size <- c_size, b_idx <- c_b_idx, dest <- c_dest

\* The mask buffer is not read with cyclic_buffer_read: it has no dest.
Mask == INSTANCE CyclicBuffer WITH
  TotalSize <- MaskSize, DataLen <- MaskTotal, Requests <- MaskRequests,
  ThreadOf <- [r \in Roles |-> "recoder"], Recoding <- "none",
  data <- m_data, idx <- m_idx, available <- m_available, pc <- m_pc,
  size <- m_size, b_idx <- m_b_idx,
  dest <- [k \in 0 .. MaskTotal - 1 |-> [byte |-> -1, mask |-> {}]]

Init ==
  /\ Chan!Init
  /\ Mask!Init
  /\ phase = "write"
  /\ x_size = 0
  /\ stage = 1

-----------------------------------------------------------------------------
(* run_recoder: fill the mask buffer ... *)

MaskFull == m_available["writer"] = 0 \/ m_b_idx["writer"] = MaskTotal

MaskWrite ==
  /\ phase = "write"
  /\ m_pc["writer"] = "idle" => stage = 1
  /\ IF m_pc["writer"] = "idle" /\ MaskFull
     THEN phase' = "none" /\ UNCHANGED mask
     ELSE /\ Mask!cyclic_buffer_write
          /\ phase' = IF m_pc'["writer"] = "idle" THEN "none" ELSE phase
  /\ UNCHANGED <<channel, x_size, stage>>

\* ... make the bytes readable ...
MaskNone ==
  /\ phase = "none"
  /\ Mask!cyclic_buffer_recode_none
  /\ phase' = IF m_pc'["recoder"] = "idle" THEN "xor" ELSE phase
  /\ UNCHANGED <<channel, x_size, stage>>

\* Fault: as many bytes as there are mask bytes, recodeable or not.
XorBufLoadMask ==
  /\ phase = "xor"
  /\ IF c_available["recoder"] = 0 \/ m_available["reader"] = 0
     THEN phase' = "write" /\ UNCHANGED x_size
     ELSE x_size' = m_available["reader"] /\ phase' = "first"
  /\ UNCHANGED <<channel, mask, stage>>

(***************************************************************************)
(* ... and cyclic_buffer_recode_xor_buf.  Load both counters; return 0     *)
(* when there is nothing to recode, or nothing to recode it with.          *)
(***************************************************************************)
XorBufLoad ==
  /\ phase = "xor"
  /\ IF c_available["recoder"] = 0 \/ m_available["reader"] = 0
     THEN phase' = "write" /\ UNCHANGED x_size
     ELSE /\ x_size' = Chan!MIN(c_available["recoder"], m_available["reader"])
          /\ phase' = "first"
  /\ UNCHANGED <<channel, mask, stage>>

Wraps == m_idx["reader"] + x_size > MaskSize
SizeTillEnd == MaskSize - m_idx["reader"]

(***************************************************************************)
(* cyclic_buffer_recode_xor(buf, mask_buf->data_ptr + start, max), called  *)
(* from recode_xor_buf.  It loads the counter again, and may return 0.     *)
(***************************************************************************)
NestedXor(start, max, next) ==
  /\ \/ /\ c_pc["recoder"] = "idle"
        /\ IF c_available["recoder"] = 0
           THEN phase' = next /\ UNCHANGED channel
           ELSE Chan!Load("recoder", max) /\ UNCHANGED phase
     \/ /\ Chan!XorCopy([o \in 0 .. max - 1 |-> m_data[start + o].byte])
        /\ UNCHANGED phase
     \/ Chan!Publish("recoder") /\ UNCHANGED phase
     \/ Chan!Consume("recoder") /\ phase' = next
  /\ UNCHANGED <<mask, x_size, stage>>

XorFirst ==
  /\ phase = "first"
  /\ IF Wraps
     THEN NestedXor(m_idx["reader"], SizeTillEnd, "second")
     ELSE NestedXor(m_idx["reader"], x_size, "advance")

\* Fault: the second call does not go back to the start of the mask buffer.
XorSecondAhead ==
  phase = "second" /\ NestedXor(m_idx["reader"], x_size - SizeTillEnd, "advance")

XorSecond == phase = "second" /\ NestedXor(0, x_size - SizeTillEnd, "advance")

\* Fault: the mask bytes that were used up do not make room.
MaskAdvanceNoRoom ==
  /\ phase = "advance"
  /\ m_idx' = [m_idx EXCEPT !["reader"] = Mask!NextIdx(@, x_size)]
  /\ m_available' = [m_available EXCEPT !["reader"] = Mask!Sub32(@, x_size)]
  /\ m_b_idx' = [m_b_idx EXCEPT !["reader"] = @ + x_size]
  /\ phase' = "write"
  /\ UNCHANGED <<channel, m_data, m_pc, m_size, x_size, stage>>

\* advance mask buf, whatever the calls have returned
MaskAdvance ==
  /\ phase = "advance"
  /\ m_idx' = [m_idx EXCEPT !["reader"] = Mask!NextIdx(@, x_size)]
  /\ m_available' = [m_available EXCEPT
                       !["writer"] = Mask!Add32(@, x_size),
                       !["reader"] = Mask!Sub32(@, x_size)]
  /\ m_b_idx' = [m_b_idx EXCEPT !["reader"] = @ + x_size]
  /\ phase' = "write"
  /\ UNCHANGED <<channel, m_data, m_pc, m_size, x_size, stage>>

cyclic_buffer_recode_xor_buf == XorBufLoad \/ XorFirst \/ XorSecond \/ MaskAdvance

run_recoder == MaskWrite \/ MaskNone \/ cyclic_buffer_recode_xor_buf

run_writer == Chan!cyclic_buffer_write /\ UNCHANGED <<mask, phase, x_size, stage>>

run_reader ==
  \/ Chan!cyclic_buffer_read /\ UNCHANGED <<mask, phase, x_size, stage>>
  \/ /\ stage = 1 /\ c_b_idx["reader"] = DataLen /\ c_pc["reader"] = "idle"
     /\ stage' = 2
     /\ UNCHANGED <<channel, mask, phase, x_size>>

\* All threads have returned; the recoder looks at stage when a round begins.
Joined == stage = 2 /\ phase = "write" /\ m_pc["writer"] = "idle" /\ c_pc["writer"] = "idle"

Next == run_writer \/ run_recoder \/ run_reader \/ (Joined /\ UNCHANGED vars)

\* Each thread keeps being scheduled.
Spec ==
  /\ Init /\ [][Next]_vars
  /\ WF_vars(run_writer) /\ WF_vars(run_recoder) /\ WF_vars(run_reader)

-----------------------------------------------------------------------------
(***************************************************************************)
(* The mask keeps in step with the channel: recode_xor_buf advances the    *)
(* mask buffer by exactly what the nested calls have recoded, though it    *)
(* decides the size before them and ignores their results.                 *)
(***************************************************************************)
MaskInStep ==
  phase \in {"write", "none", "xor"} => c_b_idx["recoder"] = m_b_idx["reader"]

(***************************************************************************)
(* To the writer and the reader the composition is a single buffer whose   *)
(* recoder XORs byte k of the stream with byte k of the mask, with sizes   *)
(* of its own choosing.                                                    *)
(***************************************************************************)
Recoder == INSTANCE CyclicBuffer WITH
  ThreadOf <- [r \in Roles |-> r], Recoding <- "xor",
  Requests <- Requests \cup 0 .. TotalSize,
  data <- c_data, idx <- c_idx, available <- c_available, pc <- c_pc,
  size <- c_size, b_idx <- c_b_idx, dest <- c_dest

ImplementsRecodeXor == Recoder!Spec

(***************************************************************************)
(* run_thread_test joins all three threads: the reader gets all the data,  *)
(* and the recoder then leaves its loop.                                   *)
(***************************************************************************)
AllJoin == <>Joined

=============================================================================
