--------------------------- MODULE BufferLifecycle --------------------------
(***************************************************************************)
(* The life of a buffer of src/cyclic_buffer.c: cyclic_buffer_init, which  *)
(* may fail, the operations of CyclicBuffer, and cyclic_buffer_destroy,    *)
(* after which the same struct may be initialised again.                   *)
(*                                                                         *)
(* The callers, those of test_cyclic_buffer.c, do not look at what         *)
(* cyclic_buffer_init returns: they use a buffer without memory as if it   *)
(* had some.  After a call for no chunk its total_size is 0, and           *)
(* cyclic_buffer_recode_none then divides by zero.                         *)
(***************************************************************************)
EXTENDS CyclicBuffer

CONSTANTS
  ChunkSize,  \* CYCLIC_BUFFER_CHUNK_SIZE
  MaxSize,    \* CYCLIC_BUFFER_MAX_SIZE
  Chunks      \* the numbers of chunks asked for

(***************************************************************************)
(* The product of cyclic_buffer_init stays within its int, which the code  *)
(* leaves to its callers; TotalSize is the size of a buffer that has       *)
(* memory.                                                                 *)
(***************************************************************************)
ASSUME ChunksAssumption ==
  /\ ChunkSize \in Nat \ {0}
  /\ MaxSize \in Nat
  /\ Chunks \subseteq Int
  /\ \A c \in Chunks : 2 * ChunkSize * c < Word
  /\ \A c \in Chunks : c > 0 /\ ChunkSize * c <= MaxSize => ChunkSize * c = TotalSize

VARIABLES
  used,        \* the buffer is between cyclic_buffer_init and _destroy
  chunks,      \* what that cyclic_buffer_init was asked for
  has_memory,  \* data_ptr is not NULL
  total_size

lvars == <<vars, used, chunks, has_memory, total_size>>

NobodyThere == \A r \in Roles : pc[r] = "idle"

LInit ==
  /\ data = [s \in Slots |-> Raw(NoByte)]
  /\ idx = [r \in Roles |-> 0] /\ available = [r \in Roles |-> 0]
  /\ pc = [r \in Roles |-> "idle"] /\ size = [r \in Roles |-> 0]
  /\ b_idx = [r \in Roles |-> 0]
  /\ dest = [k \in 0 .. DataLen - 1 |-> Raw(NoByte)]
  /\ used = FALSE /\ chunks = 0 /\ has_memory = FALSE /\ total_size = 0

\* The struct starts anew, and so does what its callers send through it.
Starts(writeable) ==
  /\ idx' = [r \in Roles |-> 0]
  /\ available' = [r \in Roles |-> IF r = "writer" THEN writeable ELSE 0]
  /\ data' = [s \in Slots |-> Raw(NoByte)]
  /\ size' = [r \in Roles |-> 0]
  /\ b_idx' = [r \in Roles |-> 0]
  /\ dest' = [k \in 0 .. DataLen - 1 |-> Raw(NoByte)]
  /\ UNCHANGED pc

-----------------------------------------------------------------------------
Asks == ~ used /\ used' = TRUE /\ chunks' \in Chunks

\* No chunk at all; the struct stays as memset left it.
InitNoChunks ==
  /\ Asks /\ chunks' <= 0
  /\ total_size' = 0
  /\ Starts(0)
  /\ UNCHANGED has_memory

\* Fault: all of it is writeable before malloc fails.
InitFailsLate ==
  /\ Asks /\ chunks' > 0
  /\ total_size' = ChunkSize * chunks'
  /\ Starts(total_size')
  /\ UNCHANGED has_memory

\* Fault: the size is set once there is memory.
InitFailsEarly ==
  /\ Asks /\ chunks' > 0
  /\ total_size' = 0
  /\ Starts(0)
  /\ UNCHANGED has_memory

\* Too many chunks, or malloc fails: total_size is set by then.
InitFails ==
  /\ Asks /\ chunks' > 0
  /\ total_size' = ChunkSize * chunks'
  /\ Starts(0)
  /\ UNCHANGED has_memory

InitSucceeds ==
  /\ Asks /\ chunks' > 0 /\ ChunkSize * chunks' <= MaxSize
  /\ total_size' = ChunkSize * chunks'
  /\ has_memory' = TRUE
  /\ Starts(total_size')

cyclic_buffer_init == InitNoChunks \/ InitFails \/ InitSucceeds

cyclic_buffer_destroy ==
  /\ used /\ NobodyThere
  /\ used' = FALSE /\ chunks' = 0 /\ has_memory' = FALSE /\ total_size' = 0
  /\ Starts(0)

(***************************************************************************)
(* The modulo by total_size at the end of a copy, by zero.  That is        *)
(* undefined; here, as by SIGFPE, the program does not go on.              *)
(***************************************************************************)
DividesByZero == total_size = 0 /\ \E r \in Roles : pc[r] = "copy"
Stopped == DividesByZero /\ UNCHANGED lvars

Use == used /\ ~ DividesByZero /\ Next /\ UNCHANGED <<used, chunks, has_memory, total_size>>

LNext == cyclic_buffer_init \/ Use \/ Stopped \/ cyclic_buffer_destroy

LSpec == LInit /\ [][LNext]_lvars

-----------------------------------------------------------------------------
(***************************************************************************)
(* Whatever was called before, destroy and another init included, the      *)
(* counters of a buffer at rest split the memory there is, and only that:  *)
(* nothing if there is none.                                               *)
(***************************************************************************)
RoomIsMemory ==
  NobodyThere =>
    available["writer"] + available["recoder"] + available["reader"]
      = IF has_memory THEN total_size ELSE 0

(***************************************************************************)
(* Nobody copies from or to the null pointer of a buffer whose init        *)
(* failed, and the callers are told that nothing was done.                 *)
(***************************************************************************)
NullIsLeftAlone ==
  ~ has_memory => \A r \in Roles : Touching(r) = {} /\ b_idx[r] = 0

(***************************************************************************)
(* Neither want of memory nor a size that is too large makes recode_none,  *)
(* which does not test for an empty buffer first, divide by zero: only a   *)
(* call of cyclic_buffer_init for no chunk does, when its result is not    *)
(* looked at.                                                              *)
(***************************************************************************)
OnlyNoChunksDivideByZero == DividesByZero => chunks <= 0

=============================================================================
