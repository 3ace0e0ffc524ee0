-------------------------- MODULE CyclicQueueOrder --------------------------
(***************************************************************************)
(* The memory orders of cyclic_queue.c, alongside the steps of CyclicQueue *)
(* (see CyclicBufferOrder for the same about the buffer).                  *)
(*                                                                         *)
(* behind[x] holds the slots whose latest copying, in or out, is not       *)
(* ordered before thread x; for one of the atomic variables, before an     *)
(* acquire operation that reads it.  A lock is released by a store, which  *)
(* starts a new release sequence; size only sees read-modify-writes.       *)
(***************************************************************************)
EXTENDS CyclicQueue

VARIABLE behind

ovars == <<vars, behind>>

Atomics == {"take_idx", "push_idx", "size"}

\* A thread is none of the variables, so that behind can hold both.
ASSUME NamesAssumption == Threads \cap Atomics = {}

(***************************************************************************)
(* What an operation of thread t acquires and releases.  A push adds to    *)
(* size with release and loads it again, when it holds both locks, with    *)
(* acquire; all the operations of a take on size are relaxed.              *)
(***************************************************************************)
Acquires(t) ==
  CASE pc[t] = "push_lock" -> {"push_idx"}
    [] pc[t] \in {"push_lock_take", "take_lock"} -> {"take_idx"}
    [] pc[t] = "push_recheck" -> {"size"}
    [] OTHER -> {}

\* Fault: the lock of the take end is given back with a relaxed store.
ReleasesTakeRelaxed(t) ==
  CASE pc[t] = "push_unlock" -> {"push_idx"}
    [] pc[t] = "push_size" -> {"size"}
    [] OTHER -> {}

Releases(t) ==
  CASE pc[t] = "push_unlock" -> {"push_idx"}
    [] pc[t] \in {"push_unlock_take", "take_unlock"} -> {"take_idx"}
    [] pc[t] = "push_size" -> {"size"}
    [] OTHER -> {}

\* The slots of the region that the step copies into or out of.
Copies(t) ==
  CASE pc[t] = "push_copy" -> {my_push[t]}
    [] pc[t] = "take_copy" -> {my_take[t]}
    [] OTHER -> {}

Grows == capacity' # capacity

Synchronize(t) ==
  behind' = [x \in Threads \cup Atomics |->
    IF x = t THEN
      IF Grows THEN {}
      ELSE {i \in behind[t] : \A v \in Acquires(t) : i \in behind[v]} \ Copies(t)
    ELSE IF x \in Releases(t) THEN
      IF x = "size" THEN behind[x] \cap behind[t] ELSE behind[t]
    ELSE IF Grows THEN 0 .. size - 1
    ELSE behind[x] \cup Copies(t)]

OInit == Init /\ behind = [x \in Threads \cup Atomics |-> {}]

ONext ==
  \E t \in Threads :
    /\ \/ \E e \in Elements : CallPush(t, e)
       \/ CallTake(t)
       \/ cyclic_queue_push(t)
       \/ cyclic_queue_take(t)
    /\ Synchronize(t)

OSpec == OInit /\ [][ONext]_ovars

-----------------------------------------------------------------------------
(***************************************************************************)
(* A push that moves the elements to a new region, and frees the old one,  *)
(* comes after every copy into the old region and out of it.               *)
(***************************************************************************)
GrowSynchronized ==
  \A t \in Threads : pc[t] = "push_recheck" => behind[t] = {}

(***************************************************************************)
(* main of test_cyclic_queue.c aborts when the consumed values do not add  *)
(* up to the produced ones: the element a take copies must have been       *)
(* copied in before.                                                       *)
(***************************************************************************)
ElementSynchronized ==
  \A t \in Threads : pc[t] = "take_copy" => my_take[t] \notin behind[t]

=============================================================================
