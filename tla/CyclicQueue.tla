----------------------------- MODULE CyclicQueue ----------------------------
(***************************************************************************)
(* The queue of src/cyclic_queue.c: any number of threads push and take    *)
(* elements of a circular array that doubles when it is full.              *)
(*                                                                         *)
(* Each end is guarded by a spin lock that lives in the index itself: the  *)
(* value UINT32_MAX means locked, and the holder keeps the index in a      *)
(* local variable until it stores it back.  A push holds the lock of the   *)
(* push end, and also takes the lock of the take end when it must grow the *)
(* array.  Only the counter size is shared by the two ends: it is read     *)
(* without a lock, and changed by whoever holds either lock.               *)
(*                                                                         *)
(* A step of the model is a load, a CAS, a fetch_add or a store of one of  *)
(* the shared variables, or the copying of an element.  Computing a local  *)
(* variable goes with the next shared step.                                *)
(***************************************************************************)
EXTENDS Integers, Sequences

CONSTANTS
  Threads,
  Elements,
  InitialCapacity,  \* the capacity cyclic_queue_init settles on
  MaxCapacity,      \* queue->max_capacity
  AllocMayFail,     \* whether malloc may return NULL
  Garbage           \* what malloc leaves in a slot, or in a local variable

(***************************************************************************)
(* cyclic_queue_init refuses capacities above CYCLIC_QUEUE_MAX_CAPACITY;   *)
(* test_cyclic_queue.c lowers max_capacity but keeps it above the initial  *)
(* capacity.                                                               *)
(***************************************************************************)
ASSUME CapacityAssumption ==
  /\ InitialCapacity \in Nat \ {0}
  /\ MaxCapacity \in Nat
  /\ InitialCapacity <= MaxCapacity
  /\ AllocMayFail \in BOOLEAN
  /\ Garbage \notin Elements

Locked == -1        \* UINT32_MAX, which no index reaches

VARIABLES
  data,             \* data_ptr[0 .. capacity - 1]
  capacity,
  size,
  take_idx,
  push_idx,
  pc,               \* where each thread is in its operation
  my_take,          \* local variable take_idx of each thread
  my_push,          \* local variable push_idx
  elem,             \* *element: what is pushed, or what has been taken
  result            \* local variable result

shared == <<data, capacity, size, take_idx, push_idx>>
local == <<pc, my_take, my_push, elem, result>>
vars == <<shared, local>>

-----------------------------------------------------------------------------
MIN(x, y) == IF x < y THEN x ELSE y
\* Fault: the index is not taken modulo the capacity.
Next1NoModulo(i) == i + 1

Next1(i) == (i + 1) % capacity

\* The slot i elements after the one at index from.
SlotAfter(from, i) ==
  IF from + i >= capacity THEN from + i - capacity ELSE from + i

Init ==
  /\ capacity = InitialCapacity
  /\ data = [i \in 0 .. capacity - 1 |-> Garbage]
  /\ size = 0
  /\ take_idx = 0
  /\ push_idx = 0
  /\ pc = [t \in Threads |-> "idle"]
  /\ my_take = [t \in Threads |-> Locked]
  /\ my_push = [t \in Threads |-> Locked]
  /\ elem = [t \in Threads |-> Garbage]
  /\ result = [t \in Threads |-> FALSE]

Goto(t, label) == pc' = [pc EXCEPT ![t] = label]
Step(t, from, to) == pc[t] = from /\ Goto(t, to)

\* The locals of an operation go when it returns.
Leave(t) ==
  /\ Goto(t, "idle")
  /\ my_take' = [my_take EXCEPT ![t] = Locked]
  /\ my_push' = [my_push EXCEPT ![t] = Locked]
  /\ elem' = [elem EXCEPT ![t] = Garbage]
  /\ result' = [result EXCEPT ![t] = FALSE]

\* Fault: the CAS does not care whether the index is locked.
LockPushAnyway(t) ==
  /\ my_push' = [my_push EXCEPT ![t] = push_idx]
  /\ push_idx' = Locked
  /\ UNCHANGED <<data, capacity, size, take_idx, my_take, elem, result>>

(***************************************************************************)
(* __LOCK_IDX: load the index until it is not UINT32_MAX, then CAS.  The   *)
(* CAS succeeds only if the index still is what was loaded, so that the    *)
(* pair is one step; a failed round changes nothing.                       *)
(***************************************************************************)
LockPush(t) ==
  /\ push_idx # Locked
  /\ my_push' = [my_push EXCEPT ![t] = push_idx]
  /\ push_idx' = Locked
  /\ UNCHANGED <<data, capacity, size, take_idx, my_take, elem, result>>

LockTake(t) ==
  /\ take_idx # Locked
  /\ my_take' = [my_take EXCEPT ![t] = take_idx]
  /\ take_idx' = Locked
  /\ UNCHANGED <<data, capacity, size, push_idx, my_push, elem, result>>

-----------------------------------------------------------------------------
(* cyclic_queue_push *)

CallPush(t, e) ==
  /\ Step(t, "idle", "push_lock")
  /\ elem' = [elem EXCEPT ![t] = e]
  /\ UNCHANGED <<shared, my_take, my_push, result>>

PushLock(t) == Step(t, "push_lock", "push_check") /\ LockPush(t)

\* Fault: off by one in the test for a full queue.
PushCheckLate(t) ==
  /\ Step(t, "push_check", IF size > capacity THEN "push_lock_take" ELSE "push_copy")
  /\ UNCHANGED <<shared, my_take, my_push, elem, result>>

\* is queue full?
PushCheck(t) ==
  /\ Step(t, "push_check", IF size = capacity THEN "push_lock_take" ELSE "push_copy")
  /\ UNCHANGED <<shared, my_take, my_push, elem, result>>

PushLockTake(t) == Step(t, "push_lock_take", "push_recheck") /\ LockTake(t)

\* lock take op and recheck queue size: room was made meanwhile
PushRecheckRoom(t) ==
  /\ size # capacity
  /\ Step(t, "push_recheck", "push_copy")
  /\ UNCHANGED <<shared, my_take, my_push, elem, result>>

NewCapacity == MIN(capacity * 2, MaxCapacity)

\* max capacity reached, or malloc failed: exit with unsuccess status
PushRefuse(t) ==
  /\ size = capacity
  /\ NewCapacity = capacity \/ AllocMayFail
  /\ Step(t, "push_recheck", "push_unlock_take")
  /\ UNCHANGED <<shared, my_take, my_push, elem, result>>

\* Fault: the push index still counts from the start of the old region.
PushGrowKeepsPush(t) ==
  /\ size = capacity
  /\ NewCapacity # capacity
  /\ Step(t, "push_recheck", "push_copy")
  /\ data' = [i \in 0 .. NewCapacity - 1 |->
                IF i < size THEN data[SlotAfter(my_take[t], i)] ELSE Garbage]
  /\ capacity' = NewCapacity
  /\ my_take' = [my_take EXCEPT ![t] = 0]
  /\ UNCHANGED <<size, take_idx, push_idx, my_push, elem, result>>

\* move data to a new region: until the end of the old one, then its start
PushGrow(t) ==
  /\ size = capacity
  /\ NewCapacity # capacity
  /\ Step(t, "push_recheck", "push_copy")
  /\ data' = [i \in 0 .. NewCapacity - 1 |->
                IF i < size THEN data[SlotAfter(my_take[t], i)] ELSE Garbage]
  /\ capacity' = NewCapacity
  /\ my_take' = [my_take EXCEPT ![t] = 0]
  /\ my_push' = [my_push EXCEPT ![t] = size]
  /\ UNCHANGED <<size, take_idx, push_idx, elem, result>>

PushCopy(t) ==
  /\ Step(t, "push_copy", "push_size")
  /\ data' = [data EXCEPT ![my_push[t]] = elem[t]]
  /\ UNCHANGED <<capacity, size, take_idx, push_idx, my_take, my_push, elem, result>>

PushSize(t) ==
  /\ Step(t, "push_size", IF my_take[t] # Locked THEN "push_unlock_take" ELSE "push_unlock")
  /\ my_push' = [my_push EXCEPT ![t] = Next1(@)]
  /\ size' = size + 1
  /\ result' = [result EXCEPT ![t] = TRUE]
  /\ UNCHANGED <<data, capacity, take_idx, push_idx, my_take, elem>>

PushUnlockTake(t) ==
  /\ Step(t, "push_unlock_take", "push_unlock")
  /\ take_idx' = my_take[t]
  /\ my_take' = [my_take EXCEPT ![t] = Locked]
  /\ UNCHANGED <<data, capacity, size, push_idx, my_push, elem, result>>

PushUnlock(t) ==
  /\ pc[t] = "push_unlock"
  /\ push_idx' = my_push[t]
  /\ Leave(t)
  /\ UNCHANGED <<data, capacity, size, take_idx>>

cyclic_queue_push(t) ==
  \/ PushLock(t) \/ PushCheck(t)
  \/ PushLockTake(t) \/ PushRecheckRoom(t) \/ PushRefuse(t) \/ PushGrow(t)
  \/ PushCopy(t) \/ PushSize(t)
  \/ PushUnlockTake(t) \/ PushUnlock(t)

-----------------------------------------------------------------------------
(* cyclic_queue_take *)

CallTake(t) ==
  /\ Step(t, "idle", "take_check")
  /\ UNCHANGED <<shared, my_take, my_push, elem, result>>

\* is queue empty?
TakeCheck(t) ==
  /\ Step(t, "take_check", IF size = 0 THEN "take_return" ELSE "take_lock")
  /\ UNCHANGED <<shared, my_take, my_push, elem, result>>

TakeReturn(t) == pc[t] = "take_return" /\ Leave(t) /\ UNCHANGED shared

TakeLock(t) == Step(t, "take_lock", "take_recheck") /\ LockTake(t)

\* Fault: an empty queue is left with the lock held.
TakeRecheckReturns(t) ==
  /\ Step(t, "take_recheck", IF size = 0 THEN "take_return" ELSE "take_copy")
  /\ UNCHANGED <<shared, my_take, my_push, elem, result>>

\* recheck queue size (after lock is acquired)
TakeRecheck(t) ==
  /\ Step(t, "take_recheck", IF size = 0 THEN "take_unlock" ELSE "take_copy")
  /\ UNCHANGED <<shared, my_take, my_push, elem, result>>

TakeCopy(t) ==
  /\ Step(t, "take_copy", "take_size")
  /\ elem' = [elem EXCEPT ![t] = data[my_take[t]]]
  /\ UNCHANGED <<shared, my_take, my_push, result>>

TakeSize(t) ==
  /\ Step(t, "take_size", "take_unlock")
  /\ my_take' = [my_take EXCEPT ![t] = Next1(@)]
  /\ size' = size - 1
  /\ result' = [result EXCEPT ![t] = TRUE]
  /\ UNCHANGED <<data, capacity, take_idx, push_idx, my_push, elem>>

TakeUnlock(t) ==
  /\ pc[t] = "take_unlock"
  /\ take_idx' = my_take[t]
  /\ Leave(t)
  /\ UNCHANGED <<data, capacity, size, push_idx>>

cyclic_queue_take(t) ==
  \/ TakeCheck(t) \/ TakeReturn(t)
  \/ TakeLock(t) \/ TakeRecheck(t)
  \/ TakeCopy(t) \/ TakeSize(t)
  \/ TakeUnlock(t)

-----------------------------------------------------------------------------
Next ==
  \E t \in Threads :
    \/ \E e \in Elements : CallPush(t, e)
    \/ CallTake(t)
    \/ cyclic_queue_push(t)
    \/ cyclic_queue_take(t)

Spec == Init /\ [][Next]_vars

-----------------------------------------------------------------------------
\* The steps at which a thread holds the lock of the push or the take end.
HoldsPush(t) == pc[t] \in {"push_check", "push_lock_take", "push_recheck",
                           "push_copy", "push_size", "push_unlock_take", "push_unlock"}

HoldsTake(t) ==
  \/ pc[t] \in {"push_recheck", "push_unlock_take"}
  \/ pc[t] \in {"push_copy", "push_size"} /\ my_take[t] # Locked
  \/ pc[t] \in {"take_recheck", "take_copy", "take_size", "take_unlock"}

\* The types of the variables; Locked stands for UINT32_MAX in the indexes.
TypeOK ==
  /\ capacity \in 1 .. MaxCapacity
  /\ data \in [0 .. capacity - 1 -> Elements \cup {Garbage}]
  /\ size \in 0 .. capacity
  /\ take_idx \in 0 .. capacity - 1 \cup {Locked}
  /\ push_idx \in 0 .. capacity - 1 \cup {Locked}
  /\ pc \in [Threads ->
       {"idle", "push_lock", "push_check", "push_lock_take", "push_recheck",
        "push_copy", "push_size", "push_unlock_take", "push_unlock",
        "take_check", "take_return", "take_lock", "take_recheck", "take_copy",
        "take_size", "take_unlock"}]
  /\ my_take \in [Threads -> 0 .. capacity - 1 \cup {Locked}]
  /\ my_push \in [Threads -> 0 .. capacity - 1 \cup {Locked}]
  /\ elem \in [Threads -> Elements \cup {Garbage}]
  /\ result \in [Threads -> BOOLEAN]

(***************************************************************************)
(* Each index is locked while some thread is between its __LOCK_IDX and    *)
(* its __UNLOCK_IDX, and by one thread only, though a push that grows      *)
(* takes both locks and a growing push moves both indexes.                 *)
(***************************************************************************)
LocksExclusive ==
  /\ \A t, u \in Threads : HoldsPush(t) /\ HoldsPush(u) => t = u
  /\ \A t, u \in Threads : HoldsTake(t) /\ HoldsTake(u) => t = u
  /\ push_idx = Locked <=> \E t \in Threads : HoldsPush(t)
  /\ take_idx = Locked <=> \E t \in Threads : HoldsTake(t)

(***************************************************************************)
(* The slot a push copies into is never the slot a take copies out of at   *)
(* that time, and no take is copying when a push replaces the region: the  *)
(* two ends exclude each other by size alone.                              *)
(***************************************************************************)
CopiesDisjoint ==
  \A t, u \in Threads :
    /\ pc[t] = "push_copy" /\ pc[u] = "take_copy" => my_push[t] # my_take[u]
    /\ pc[t] = "push_recheck" => pc[u] # "take_copy"

(***************************************************************************)
(* The elements in the queue, first to last.  A thread that holds the take *)
(* lock has the index of the first one in its local variable.              *)
(***************************************************************************)
Head0 ==
  IF take_idx # Locked THEN take_idx
  ELSE my_take[CHOOSE t \in Threads : HoldsTake(t)]

Items == [i \in 1 .. size |-> data[SlotAfter(Head0, i - 1)]]

\* What a thread's call has come to, as FifoQueue sees it.
Outcome(what, e) == [what |-> what, elem |-> e]

Progress(t) ==
  CASE pc[t] = "idle" -> Outcome("none", Garbage)
    [] pc[t] \in {"push_lock", "push_check", "push_lock_take", "push_recheck",
                  "push_copy", "push_size"} -> Outcome("push", elem[t])
    [] pc[t] \in {"push_unlock_take", "push_unlock"} ->
         Outcome(IF result[t] THEN "pushed" ELSE "refused", Garbage)
    [] pc[t] \in {"take_check", "take_lock", "take_recheck", "take_copy",
                  "take_size"} -> Outcome("take", Garbage)
    [] pc[t] = "take_return" -> Outcome("empty", Garbage)
    [] pc[t] = "take_unlock" ->
         IF result[t] THEN Outcome("took", elem[t]) ELSE Outcome("empty", Garbage)

(***************************************************************************)
(* The queue is linearisable: each push takes effect at its fetch_add on   *)
(* size, each take at its fetch_sub, and a refused push or an empty take   *)
(* at the load of size that decides it.  Growing is invisible.             *)
(***************************************************************************)
Fifo == INSTANCE FifoQueue WITH
  NoElement <- Garbage,
  Refusals <- IF AllocMayFail THEN InitialCapacity .. MaxCapacity ELSE {MaxCapacity},
  items <- Items,
  call <- [t \in Threads |-> Progress(t)]

ImplementsFifo == Fifo!Spec

=============================================================================
