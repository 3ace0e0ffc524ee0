---------------------------- MODULE CyclicBuffer ----------------------------
(***************************************************************************)
(* The cyclic buffer of src/cyclic_buffer.c: one memory region that three  *)
(* roles pass bytes through.  The writer stores bytes, the recoder XORs    *)
(* them in place, the reader copies them out.  There is no lock: each role *)
(* owns one index, and an atomic counter per role says how many bytes the  *)
(* role may touch next.  A role                                            *)
(*                                                                         *)
(*   "idle"  loads its counter and fixes the size of the operation,        *)
(*   "copy"  touches the bytes and advances its index,                     *)
(*   "add"   adds the size to the counter of the role downstream,          *)
(*   "sub"   subtracts the size from its own counter and returns.          *)
(*                                                                         *)
(* Between two of these steps the other roles may do anything, so the      *)
(* three counters do not add up to the size of the buffer in general.      *)
(*                                                                         *)
(* The three C functions have the same shape; idx[r] and available[r]      *)
(* stand for write_idx, recode_idx, read_idx and for available_to_write,   *)
(* available_to_recode, available_to_read.                                 *)
(***************************************************************************)
EXTENDS Integers

CONSTANTS
  TotalSize,   \* buf->total_size
  Word,        \* the number of values of a uint32_t
  DataLen,     \* the number of bytes the writer has to send (len in the test)
  Requests,    \* the sizes (max) that callers ask for
  ThreadOf,    \* the thread that plays each role
  Recoding     \* the function the recoder calls: "xor" or "none"

Roles == {"writer", "recoder", "reader"}

(***************************************************************************)
(* cyclic_buffer_init admits at most CYCLIC_BUFFER_MAX_SIZE = 2^30 bytes,  *)
(* a quarter of the range of the counters.                                 *)
(***************************************************************************)
ASSUME SizesAssumption ==
  /\ TotalSize \in Nat \ {0}
  /\ Word \in Nat
  /\ 2 * TotalSize < Word
  /\ DataLen \in Nat
  /\ Requests \subseteq Nat

(***************************************************************************)
(* cyclic_buffer_recode_none overwrites the counter that the writer adds   *)
(* to, so that it is only called by the thread that also writes, as        *)
(* run_recoder of test_cyclic_buffer.c does with its private buffer.       *)
(***************************************************************************)
ASSUME RolesAssumption ==
  /\ DOMAIN ThreadOf = Roles
  /\ Recoding \in {"xor", "none"}
  /\ Recoding = "none" => ThreadOf["writer"] = ThreadOf["recoder"]

VARIABLES
  data,        \* data_ptr[0 .. total_size - 1]
  idx,         \* write_idx, recode_idx, read_idx
  available,   \* available_to_write, available_to_recode, available_to_read
  pc,          \* where each role is in its operation
  size,        \* the local variable size of each operation
  b_idx,       \* the caller's running total of bytes processed
  dest         \* the memory the reader copies into

vars == <<data, idx, available, pc, size, b_idx, dest>>

-----------------------------------------------------------------------------
(***************************************************************************)
(* Bytes.  The k-th byte the writer sends is the number k together with    *)
(* the set of mask bytes it has been XORed with: XOR twice with the same   *)
(* mask byte cancels, so it toggles membership.                            *)
(***************************************************************************)
NoByte == -1
Byte == [byte : Nat \cup {NoByte}, mask : SUBSET Nat]
Raw(k) == [byte |-> k, mask |-> {}]
Toggle(m, S) == IF m \in S THEN S \ {m} ELSE S \cup {m}

\* What the byte at position k of the stream must be when it is read.
Recoded(k) == [byte |-> k, mask |-> IF Recoding = "xor" THEN {k} ELSE {}]

Slots == 0 .. TotalSize - 1

\* Arithmetic of uint32_t and MIN of sys/param.h.
Add32(x, y) == (x + y) % Word
Sub32(x, y) == (x - y) % Word
MIN(x, y) == IF x < y THEN x ELSE y

\* Fault: the index is not taken modulo the size.
NextIdxNoModulo(i, n) ==
  IF i + n > TotalSize THEN n - (TotalSize - i) ELSE i + n

\* The index after n bytes from i on, as all the functions compute it.
NextIdx(i, n) ==
  IF i + n > TotalSize THEN n - (TotalSize - i) ELSE (i + n) % TotalSize

\* The slots of n bytes from i on: up to the end, then from the start.
Region(i, n) ==
  IF i + n > TotalSize
  THEN (i .. TotalSize - 1) \cup (0 .. n - (TotalSize - i) - 1)
  ELSE i .. i + n - 1

\* How far into such a region slot s lies, and the slot that far into it.
Offset(i, s) == IF s >= i THEN s - i ELSE s + (TotalSize - i)
SlotAt(i, o) == IF i + o >= TotalSize THEN i + o - TotalSize ELSE i + o

Downstream(r) ==
  IF r = "writer" THEN "recoder" ELSE IF r = "recoder" THEN "reader" ELSE "writer"

\* Fault: the roles of one thread overlap, as if each had its own.
ThreadIdleAlone(r) == pc[r] = "idle"

\* A thread runs one operation at a time.
ThreadIdle(r) == \A s \in Roles : ThreadOf[s] = ThreadOf[r] => pc[s] = "idle"

-----------------------------------------------------------------------------
(***************************************************************************)
(* cyclic_buffer_init: the region is uninitialised, all of it is writable. *)
(***************************************************************************)
Init ==
  /\ data = [s \in Slots |-> Raw(NoByte)]
  /\ idx = [r \in Roles |-> 0]
  /\ available = [r \in Roles |-> IF r = "writer" THEN TotalSize ELSE 0]
  /\ pc = [r \in Roles |-> "idle"]
  /\ size = [r \in Roles |-> 0]
  /\ b_idx = [r \in Roles |-> 0]
  /\ dest = [k \in 0 .. DataLen - 1 |-> Raw(NoByte)]

Goto(r, label) == pc' = [pc EXCEPT ![r] = label]

\* Fault: the size asked for is not cut down to what is available.
LoadAsAsked(r, max) ==
  /\ ThreadIdle(r)
  /\ available[r] # 0
  /\ size' = [size EXCEPT ![r] = max]
  /\ Goto(r, "copy")
  /\ UNCHANGED <<data, idx, available, b_idx, dest>>

(***************************************************************************)
(* The first step of an operation: load the counter, return at once when   *)
(* it is zero (no step), else take no more than the caller asks for.       *)
(***************************************************************************)
Load(r, max) ==
  /\ ThreadIdle(r)
  /\ available[r] # 0
  /\ size' = [size EXCEPT ![r] = MIN(available[r], max)]
  /\ Goto(r, "copy")
  /\ UNCHANGED <<data, idx, available, b_idx, dest>>

\* "advance": the role's own index ...
Advance(r, next) ==
  /\ pc[r] = "copy"
  /\ idx' = [idx EXCEPT ![r] = next]
  /\ Goto(r, "add")
  /\ UNCHANGED <<available, size, b_idx>>

\* Fault: the reader does not give the room back.
PublishNoRoom(r) ==
  /\ pc[r] = "add"
  /\ available' = IF r = "reader" THEN available
                  ELSE [available EXCEPT ![Downstream(r)] = Add32(@, size[r])]
  /\ Goto(r, "sub")
  /\ UNCHANGED <<data, idx, size, b_idx, dest>>

\* ... then atomic_fetch_add on the counter downstream ...
Publish(r) ==
  /\ pc[r] = "add"
  /\ available' = [available EXCEPT ![Downstream(r)] = Add32(@, size[r])]
  /\ Goto(r, "sub")
  /\ UNCHANGED <<data, idx, size, b_idx, dest>>

\* ... then the role's own counter, and the caller advances by the result.
Return(r, left) ==
  /\ pc[r] = "sub"
  /\ available' = [available EXCEPT ![r] = left]
  /\ b_idx' = [b_idx EXCEPT ![r] = @ + size[r]]
  /\ Goto(r, "idle")
  /\ UNCHANGED <<data, idx, size, dest>>

\* Fault: the fetch_sub is forgotten.
ConsumeNothing(r) == Return(r, available[r])

\* Fault: the counter is overwritten, as recode_none does.
ConsumeAll(r) == Return(r, 0)

\* atomic_fetch_sub, as all the functions but cyclic_buffer_recode_none do.
Consume(r) == Return(r, Sub32(available[r], size[r]))

-----------------------------------------------------------------------------
(***************************************************************************)
(* src, mask and dest are memory.  The functions also accept a null        *)
(* pointer and then move the index and the counters without copying; no    *)
(* caller passes one, and the copies below are those of the other branch.  *)
(***************************************************************************)

\* A caller of write or read asks for at most what is left of its DataLen.
Wanted(r) == {MIN(q, DataLen - b_idx[r]) : q \in Requests}

\* Fault: the second memcpy, to the start of the region, is missing.
WriteCopyToEnd ==
  /\ Advance("writer", NextIdx(idx["writer"], size["writer"]))
  /\ data' = [s \in Slots |->
                IF s \in idx["writer"] .. idx["writer"] + size["writer"] - 1
                THEN Raw(b_idx["writer"] + Offset(idx["writer"], s))
                ELSE data[s]]
  /\ UNCHANGED dest

WriteCopy ==
  /\ Advance("writer", NextIdx(idx["writer"], size["writer"]))
  /\ data' = [s \in Slots |->
                IF s \in Region(idx["writer"], size["writer"])
                THEN Raw(b_idx["writer"] + Offset(idx["writer"], s))
                ELSE data[s]]
  /\ UNCHANGED dest

cyclic_buffer_write ==
  \/ b_idx["writer"] < DataLen /\ \E max \in Wanted("writer") : Load("writer", max)
  \/ WriteCopy
  \/ Publish("writer")
  \/ Consume("writer")

\* XOR the recoder's region with the mask bytes mask[0], mask[1], ...
XorCopy(mask) ==
  /\ Advance("recoder", NextIdx(idx["recoder"], size["recoder"]))
  /\ data' = [s \in Slots |->
                IF s \in Region(idx["recoder"], size["recoder"])
                THEN [data[s] EXCEPT
                       !.mask = Toggle(mask[Offset(idx["recoder"], s)], @)]
                ELSE data[s]]
  /\ UNCHANGED dest

\* Fault: the mask starts again with every call.
StreamMaskAgain == [o \in 0 .. TotalSize |-> o]

\* The caller's mask: one mask byte for each position of the stream.
StreamMask == [o \in 0 .. TotalSize |-> b_idx["recoder"] + o]

cyclic_buffer_recode_xor ==
  /\ Recoding = "xor"
  /\ \/ \E max \in Requests : Load("recoder", max)
     \/ XorCopy(StreamMask)
     \/ Publish("recoder")
     \/ Consume("recoder")

(***************************************************************************)
(* cyclic_buffer_recode_none passes on all there is without touching it.   *)
(* It does not test for zero, and it stores 0 instead of subtracting.      *)
(***************************************************************************)
NoneLoad ==
  /\ ThreadIdle("recoder")
  /\ size' = [size EXCEPT !["recoder"] = available["recoder"]]
  /\ Goto("recoder", "copy")
  /\ UNCHANGED <<data, idx, available, b_idx, dest>>

NoneAdvance ==
  /\ Advance("recoder", (idx["recoder"] + size["recoder"]) % TotalSize)
  /\ UNCHANGED <<data, dest>>

cyclic_buffer_recode_none ==
  /\ Recoding = "none"
  /\ NoneLoad \/ NoneAdvance \/ Publish("recoder") \/ Return("recoder", 0)

\* Fault: the second memcpy, from the start of the region, is missing.
ReadCopyToEnd ==
  /\ Advance("reader", NextIdx(idx["reader"], size["reader"]))
  /\ dest' = [k \in DOMAIN dest |->
                IF /\ k \in b_idx["reader"] .. b_idx["reader"] + size["reader"] - 1
                   /\ idx["reader"] + (k - b_idx["reader"]) < TotalSize
                THEN data[idx["reader"] + (k - b_idx["reader"])]
                ELSE dest[k]]
  /\ UNCHANGED data

ReadCopy ==
  /\ Advance("reader", NextIdx(idx["reader"], size["reader"]))
  /\ dest' = [k \in DOMAIN dest |->
                IF k \in b_idx["reader"] .. b_idx["reader"] + size["reader"] - 1
                THEN data[SlotAt(idx["reader"], k - b_idx["reader"])]
                ELSE dest[k]]
  /\ UNCHANGED data

cyclic_buffer_read ==
  \/ b_idx["reader"] < DataLen /\ \E max \in Wanted("reader") : Load("reader", max)
  \/ ReadCopy
  \/ Publish("reader")
  \/ Consume("reader")

\* The callers' loops end once the reader has everything.
Finished ==
  /\ b_idx["reader"] = DataLen
  /\ \A r \in Roles : pc[r] = "idle"
  /\ UNCHANGED vars

Next ==
  \/ cyclic_buffer_write
  \/ cyclic_buffer_recode_xor
  \/ cyclic_buffer_recode_none
  \/ cyclic_buffer_read
  \/ Finished

Spec == Init /\ [][Next]_vars

\* Every thread keeps being scheduled; each calls again after a zero result.
Fairness ==
  /\ WF_vars(cyclic_buffer_write)
  /\ WF_vars(cyclic_buffer_recode_xor \/ cyclic_buffer_recode_none)
  /\ WF_vars(cyclic_buffer_read)

FairSpec == Spec /\ Fairness

-----------------------------------------------------------------------------
(***************************************************************************)
(* Positions of the stream: how far role r has touched the bytes, and how  *)
(* far it has handed them on to the role downstream.                       *)
(***************************************************************************)
Touched(r) == b_idx[r] + IF pc[r] \in {"add", "sub"} THEN size[r] ELSE 0
Published(r) == b_idx[r] + IF pc[r] = "sub" THEN size[r] ELSE 0

\* The types of the variables; the C code keeps them by its declarations.
TypeOK ==
  /\ data \in [Slots -> Byte]
  /\ idx \in [Roles -> Slots]
  /\ available \in [Roles -> 0 .. Word - 1]
  /\ pc \in [Roles -> {"idle", "copy", "add", "sub"}]
  /\ size \in [Roles -> 0 .. TotalSize]
  /\ b_idx \in [Roles -> Nat]
  /\ dest \in [0 .. DataLen - 1 -> Byte]

(***************************************************************************)
(* The memcpy and XOR loops of two roles never overlap, though nothing but *)
(* the counters keeps them apart.  It is also why the model may take a     *)
(* whole copy as one step.                                                 *)
(***************************************************************************)
Touching(r) == IF pc[r] = "copy" THEN Region(idx[r], size[r]) ELSE {}

DisjointCopies ==
  \A r, s \in Roles : r # s => Touching(r) \cap Touching(s) = {}

(***************************************************************************)
(* run_thread_test compares what was read with what was written: every     *)
(* byte copied out by cyclic_buffer_read is the byte of that position,     *)
(* recoded exactly once with the mask byte of that position.               *)
(***************************************************************************)
Delivered ==
  \A k \in 0 .. Touched("reader") - 1 : dest[k] = Recoded(k)

(***************************************************************************)
(* The fetch_add before the fetch_sub lets a counter exceed total_size for *)
(* a while, but never twice total_size, so that it cannot wrap around.     *)
(***************************************************************************)
CountersDoNotWrap == \A r \in Roles : available[r] <= 2 * TotalSize

(***************************************************************************)
(* No operation leaks or invents room: whenever no operation is running,   *)
(* the three counters split the buffer between them.                       *)
(***************************************************************************)
RoomConserved ==
  (\A r \in Roles : pc[r] = "idle") =>
    available["writer"] + available["recoder"] + available["reader"] = TotalSize

(***************************************************************************)
(* Why all this holds.  The counter of a role is what the role upstream    *)
(* has handed on, less what the role has returned from; an operation never *)
(* takes more than its counter still shows; and the thread that owns two   *)
(* roles is in one of them at a time, so that the store of 0 at the end of *)
(* recode_none subtracts what its load saw.                                *)
(***************************************************************************)
Balance(r) ==
  available[Downstream(r)] =
    Published(r) - b_idx[Downstream(r)] + IF r = "reader" THEN TotalSize ELSE 0

Covered(r) == pc[r] # "idle" => size[r] <= available[r]

OneAtATime ==
  \A r, s \in Roles :
    r # s /\ ThreadOf[r] = ThreadOf[s] => pc[r] = "idle" \/ pc[s] = "idle"

NothingNew ==
  Recoding = "none" /\ pc["recoder"] # "idle" => size["recoder"] = available["recoder"]

CounterInv ==
  /\ \A r \in Roles : Balance(r) /\ Covered(r)
  /\ OneAtATime
  /\ NothingNew

(***************************************************************************)
(* Where the bytes are.  The indexes lie as far apart in the region as the *)
(* roles are in the stream, and from the reader's index on the region      *)
(* holds the recoded bytes, then the written ones.                         *)
(***************************************************************************)
Ahead(r) == Touched(r) - Touched("reader")

IndexesApart ==
  \A r \in {"writer", "recoder"} : idx[r] = SlotAt(idx["reader"], Ahead(r))

RegionHolds ==
  \A o \in 0 .. TotalSize - 1 :
    /\ o < Ahead("recoder") =>
         data[SlotAt(idx["reader"], o)] = Recoded(Touched("reader") + o)
    /\ Ahead("recoder") <= o /\ o < Ahead("writer") =>
         data[SlotAt(idx["reader"], o)] = Raw(Touched("reader") + o)

DestHolds ==
  \A k \in 0 .. DataLen - 1 :
    dest[k] = IF k < Touched("reader") THEN Recoded(k) ELSE Raw(NoByte)

\* Callers of write and read never ask for more than there is.
WithinData ==
  \A r \in {"writer", "reader"} :
    b_idx[r] + (IF pc[r] = "idle" THEN 0 ELSE size[r]) <= DataLen

ContentInv == IndexesApart /\ RegionHolds /\ DestHolds /\ WithinData

(***************************************************************************)
(* The buffer implements the stream.  A byte counts as written, recoded or *)
(* read at the fetch_add that hands it on; what the reader has copied      *)
(* before that is not yet out.                                             *)
(***************************************************************************)
Stream == INSTANCE RecodeStream WITH
  Capacity <- TotalSize,
  Length <- DataLen,
  Unread <- Raw(NoByte),
  Expected <- Recoded,
  written <- Published("writer"),
  recoded <- Published("recoder"),
  read <- Published("reader"),
  out <- [k \in 0 .. DataLen - 1 |->
           IF k < Published("reader") THEN dest[k] ELSE Raw(NoByte)]

ImplementsStream == Stream!Spec

(***************************************************************************)
(* The reader gets all the data, as run_reader waits for: no order of the  *)
(* counter updates leaves the three roles waiting for one another.         *)
(***************************************************************************)
AllDelivered == <>(b_idx["reader"] = DataLen)

=============================================================================
