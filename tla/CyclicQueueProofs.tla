------------------------- MODULE CyclicQueueProofs --------------------------
(***************************************************************************)
(* Proofs about CyclicQueue, for any number of threads, any elements and   *)
(* any capacities: the locks and the indexes, then the refinement of       *)
(* FifoQueue.                                                              *)
(***************************************************************************)
EXTENDS CyclicQueue, SequenceTheorems, TLAPS

-----------------------------------------------------------------------------
(* The inductive invariant *)

\* A thread has an index in a local variable exactly while it holds the lock.
Locals ==
  \A t \in Threads : /\ HoldsPush(t) <=> my_push[t] # Locked
                     /\ HoldsTake(t) <=> my_take[t] # Locked

\* An index is in one place: shared, or in the local variable of one thread.
Holders ==
  /\ \A t, u \in Threads : my_push[t] # Locked /\ my_push[u] # Locked => t = u
  /\ \A t, u \in Threads : my_take[t] # Locked /\ my_take[u] # Locked => t = u
  /\ push_idx = Locked <=> \E t \in Threads : my_push[t] # Locked
  /\ take_idx = Locked <=> \E t \in Threads : my_take[t] # Locked

\* What a thread has found out about size stays true until it uses it.
Room ==
  \A t \in Threads : /\ pc[t] \in {"push_copy", "push_size"} => size < capacity
                     /\ pc[t] \in {"take_copy", "take_size"} => size > 0

\* The ends of the queue lie size elements apart, wherever the indexes are.
TakeAt(i) == take_idx = i \/ \E t \in Threads : my_take[t] = i
PushAt(j) == push_idx = j \/ \E t \in Threads : my_push[t] = j

Apart ==
  \A i, j \in 0 .. capacity - 1 : TakeAt(i) /\ PushAt(j) => j = SlotAfter(i, size)

QInv == TypeOK /\ Locals /\ Holders /\ Room /\ Apart

-----------------------------------------------------------------------------
(* Indexes *)

\* (idx + 1) % capacity is the slot one further round the region.
LEMMA Next1Is ==
  ASSUME TypeOK, NEW i \in 0 .. capacity - 1
  PROVE  Next1(i) = SlotAfter(i, 1) /\ Next1(i) \in 0 .. capacity - 1
  <1>1. capacity \in Nat \ {0} /\ i \in Nat /\ i + 1 <= capacity
    BY CapacityAssumption DEF TypeOK
  <1>2. CASE i + 1 = capacity
    <2>1. capacity % capacity = 0
      BY <1>1
    <2>2. QED
      BY <1>1, <1>2, <2>1 DEF Next1, SlotAfter
  <1>3. CASE i + 1 < capacity
    <2>1. (i + 1) % capacity = i + 1
      BY <1>1, <1>3
    <2>2. QED
      BY <1>1, <1>3, <2>1 DEF Next1, SlotAfter
  <1>4. QED
    BY <1>1, <1>2, <1>3

\* cyclic_queue_init: no lock is held, both ends are at slot 0.
LEMMA InitQInv == Init => QInv
  <1> SUFFICES ASSUME Init PROVE QInv
    OBVIOUS
  <1> USE CapacityAssumption DEF Init
  <1>1. TypeOK
    BY DEF TypeOK, Locked
  <1>2. Locals
    BY DEF Locals, HoldsPush, HoldsTake
  <1>3. Holders
    BY DEF Holders, Locked
  <1>4. Room
    BY DEF Room
  <1>5. Apart
    BY DEF Apart, TakeAt, PushAt, SlotAfter, Locked
  <1>6. QED
    BY <1>1, <1>2, <1>3, <1>4, <1>5 DEF QInv

\* Steps that change neither an index nor the region nor size.
LEMMA LocalStepKeepsQInv ==
  ASSUME QInv, NEW t \in Threads, NEW from, NEW to, Step(t, from, to), TypeOK',
         UNCHANGED <<capacity, size, take_idx, push_idx, my_take, my_push>>,
         HoldsPush(t)' <=> HoldsPush(t), HoldsTake(t)' <=> HoldsTake(t),
         /\ to \in {"push_copy", "push_size"} => size < capacity
         /\ to \in {"take_copy", "take_size"} => size > 0
  PROVE  QInv'
  <1>1. TypeOK /\ Locals /\ Holders /\ Room /\ Apart
    BY DEF QInv
  <1>2. pc' = [pc EXCEPT ![t] = to]
    BY DEF Step, Goto
  <1>3. Locals'
    <2>1. \A u \in Threads \ {t} : pc'[u] = pc[u]
      BY <1>1, <1>2 DEF TypeOK
    <2>2. QED
      BY <1>1, <2>1 DEF Locals, HoldsPush, HoldsTake
  <1>4. Holders'
    BY <1>1 DEF Holders
  <1>5. Room'
    BY <1>1, <1>2 DEF Room, TypeOK
  <1>6. Apart'
    BY <1>1 DEF Apart, TakeAt, PushAt, SlotAfter
  <1>7. QED
    BY <1>3, <1>4, <1>5, <1>6 DEF QInv

\* __LOCK_IDX
LEMMA LockPushKeepsQInv ==
  ASSUME QInv, NEW t \in Threads, PushLock(t)
  PROVE  QInv'
  <1>1. TypeOK /\ Locals /\ Holders /\ Room /\ Apart
    BY DEF QInv
  <1>2. /\ pc[t] = "push_lock" /\ pc' = [pc EXCEPT ![t] = "push_check"]
        /\ push_idx # Locked /\ push_idx' = Locked
        /\ my_push' = [my_push EXCEPT ![t] = push_idx]
        /\ UNCHANGED <<data, capacity, size, take_idx, my_take, elem, result>>
    BY DEF PushLock, Step, Goto, LockPush
  <1>3. \A u \in Threads : my_push[u] = Locked
    BY <1>1, <1>2 DEF Holders
  <1>4. \A u \in Threads : my_push'[u] = IF u = t THEN push_idx ELSE Locked
    BY <1>1, <1>2, <1>3 DEF TypeOK
  <1>5. \A u \in Threads : pc'[u] = IF u = t THEN "push_check" ELSE pc[u]
    BY <1>1, <1>2 DEF TypeOK
  <1>6. TypeOK'
    BY <1>1, <1>2 DEF TypeOK
  <1>7. Locals'
    BY <1>1, <1>2, <1>3, <1>4, <1>5 DEF Locals, HoldsPush, HoldsTake
  <1>8. Holders'
    BY <1>1, <1>2, <1>4 DEF Holders
  <1>9. Room'
    BY <1>1, <1>2, <1>5 DEF Room
  <1>10. Apart'
    <2>1. \A j \in 0 .. capacity - 1 : PushAt(j)' => PushAt(j)
      BY <1>2, <1>4 DEF PushAt, Locked
    <2>2. QED
      BY <1>1, <1>2, <2>1 DEF Apart, TakeAt, SlotAfter
  <1>11. QED
    BY <1>6, <1>7, <1>8, <1>9, <1>10 DEF QInv

\* __LOCK_IDX of the take end, by a take or by a push that finds the queue full.
LEMMA LockTakeKeepsQInv ==
  ASSUME QInv, NEW t \in Threads, PushLockTake(t) \/ TakeLock(t)
  PROVE  QInv'
  <1>1. TypeOK /\ Locals /\ Holders /\ Room /\ Apart
    BY DEF QInv
  <1> DEFINE to == IF pc[t] = "push_lock_take" THEN "push_recheck" ELSE "take_recheck"
  <1>2. /\ pc[t] \in {"push_lock_take", "take_lock"} /\ pc' = [pc EXCEPT ![t] = to]
        /\ take_idx # Locked /\ take_idx' = Locked
        /\ my_take' = [my_take EXCEPT ![t] = take_idx]
        /\ UNCHANGED <<data, capacity, size, push_idx, my_push, elem, result>>
    BY DEF PushLockTake, TakeLock, Step, Goto, LockTake
  <1>3. \A u \in Threads : my_take[u] = Locked
    BY <1>1, <1>2 DEF Holders
  <1>4. \A u \in Threads : my_take'[u] = IF u = t THEN take_idx ELSE Locked
    BY <1>1, <1>2, <1>3 DEF TypeOK
  <1>5. \A u \in Threads : pc'[u] = IF u = t THEN to ELSE pc[u]
    BY <1>1, <1>2 DEF TypeOK
  <1>6. TypeOK'
    BY <1>1, <1>2 DEF TypeOK
  <1>7. Locals'
    BY <1>1, <1>2, <1>3, <1>4, <1>5 DEF Locals, HoldsPush, HoldsTake
  <1>8. Holders'
    BY <1>1, <1>2, <1>4 DEF Holders
  <1>9. Room'
    BY <1>1, <1>2, <1>5 DEF Room
  <1>10. Apart'
    <2>1. \A i \in 0 .. capacity - 1 : TakeAt(i)' => TakeAt(i)
      BY <1>2, <1>4 DEF TakeAt, Locked
    <2>2. QED
      BY <1>1, <1>2, <2>1 DEF Apart, PushAt, SlotAfter
  <1>11. QED
    BY <1>6, <1>7, <1>8, <1>9, <1>10 DEF QInv

\* __UNLOCK_IDX
LEMMA UnlockPushKeepsQInv ==
  ASSUME QInv, NEW t \in Threads, PushUnlock(t)
  PROVE  QInv'
  <1>1. TypeOK /\ Locals /\ Holders /\ Room /\ Apart
    BY DEF QInv
  <1>2. /\ pc[t] = "push_unlock" /\ pc' = [pc EXCEPT ![t] = "idle"]
        /\ push_idx' = my_push[t]
        /\ my_push' = [my_push EXCEPT ![t] = Locked]
        /\ my_take' = [my_take EXCEPT ![t] = Locked]
        /\ elem' = [elem EXCEPT ![t] = Garbage] /\ result' = [result EXCEPT ![t] = FALSE]
        /\ UNCHANGED <<data, capacity, size, take_idx>>
    BY DEF PushUnlock, Leave, Goto
  <1>3. my_push[t] # Locked /\ my_take[t] = Locked
    BY <1>1, <1>2 DEF Locals, HoldsPush, HoldsTake
  <1>4. /\ my_take' = my_take
        /\ \A u \in Threads : my_push'[u] = Locked
        /\ \A u \in Threads : pc'[u] = IF u = t THEN "idle" ELSE pc[u]
    BY <1>1, <1>2, <1>3 DEF TypeOK, Holders
  <1>5. TypeOK'
    BY <1>1, <1>2 DEF TypeOK
  <1>6. Locals'
    BY <1>1, <1>2, <1>3, <1>4 DEF Locals, Holders, HoldsPush, HoldsTake
  <1>7. Holders'
    BY <1>1, <1>2, <1>3, <1>4 DEF Holders
  <1>8. Room'
    BY <1>1, <1>2, <1>4 DEF Room
  <1>9. Apart'
    <2>1. \A j \in 0 .. capacity - 1 : PushAt(j)' => PushAt(j)
      BY <1>2, <1>4 DEF PushAt, Locked
    <2>2. QED
      BY <1>1, <1>2, <1>4, <2>1 DEF Apart, TakeAt, SlotAfter
  <1>10. QED
    BY <1>5, <1>6, <1>7, <1>8, <1>9 DEF QInv

\* __UNLOCK_IDX of the take end.
LEMMA UnlockTakeKeepsQInv ==
  ASSUME QInv, NEW t \in Threads, PushUnlockTake(t) \/ TakeUnlock(t)
  PROVE  QInv'
  <1>1. TypeOK /\ Locals /\ Holders /\ Room /\ Apart
    BY DEF QInv
  <1> DEFINE to == IF pc[t] = "take_unlock" THEN "idle" ELSE "push_unlock"
  <1>2. /\ pc[t] \in {"push_unlock_take", "take_unlock"} /\ pc' = [pc EXCEPT ![t] = to]
        /\ take_idx' = my_take[t]
        /\ my_take' = [my_take EXCEPT ![t] = Locked]
        /\ UNCHANGED <<data, capacity, size, push_idx>>
    BY DEF PushUnlockTake, TakeUnlock, Leave, Step, Goto
  <1>3. my_take[t] # Locked /\ (pc[t] = "take_unlock" => my_push[t] = Locked)
    BY <1>1, <1>2 DEF Locals, HoldsPush, HoldsTake
  <1>4. my_push' = my_push
    BY <1>1, <1>2, <1>3 DEF PushUnlockTake, TakeUnlock, Leave, Step, TypeOK
  <1>5. /\ \A u \in Threads : my_take'[u] = Locked
        /\ \A u \in Threads : pc'[u] = IF u = t THEN to ELSE pc[u]
    BY <1>1, <1>2, <1>3 DEF TypeOK, Holders
  <1>6. TypeOK'
    <2>1. /\ elem' \in [Threads -> Elements \cup {Garbage}]
          /\ result' \in [Threads -> BOOLEAN]
      BY <1>1 DEF PushUnlockTake, TakeUnlock, Leave, TypeOK
    <2>2. QED
      BY <1>1, <1>2, <1>4, <2>1 DEF TypeOK
  <1>7. Locals'
    BY <1>1, <1>2, <1>3, <1>4, <1>5 DEF Locals, Holders, HoldsPush, HoldsTake
  <1>8. Holders'
    BY <1>1, <1>2, <1>3, <1>4, <1>5 DEF Holders
  <1>9. Room'
    BY <1>1, <1>2, <1>5 DEF Room
  <1>10. Apart'
    <2>1. \A i \in 0 .. capacity - 1 : TakeAt(i)' => TakeAt(i)
      BY <1>2, <1>5 DEF TakeAt, Locked
    <2>2. QED
      BY <1>1, <1>2, <1>4, <2>1 DEF Apart, PushAt, SlotAfter
  <1>11. QED
    BY <1>6, <1>7, <1>8, <1>9, <1>10 DEF QInv

-----------------------------------------------------------------------------
(* Growing, copying, and the changes of size *)

\* A push that does not give up has a larger region to go to.
LEMMA NewCapacityGrows ==
  ASSUME TypeOK, NewCapacity # capacity
  PROVE  NewCapacity \in 1 .. MaxCapacity /\ capacity < NewCapacity
  BY CapacityAssumption DEF TypeOK, NewCapacity, MIN

\* Moving the elements to the start of a new region, with both locks held.
LEMMA PushGrowKeepsQInv ==
  ASSUME QInv, NEW t \in Threads, PushGrow(t)
  PROVE  QInv'
  <1>1. TypeOK /\ Locals /\ Holders /\ Room /\ Apart
    BY DEF QInv
  <1>2. /\ pc[t] = "push_recheck" /\ pc' = [pc EXCEPT ![t] = "push_copy"]
        /\ size = capacity /\ NewCapacity # capacity /\ capacity' = NewCapacity
        /\ my_take' = [my_take EXCEPT ![t] = 0]
        /\ my_push' = [my_push EXCEPT ![t] = size]
        /\ UNCHANGED <<size, take_idx, push_idx, elem, result>>
    BY DEF PushGrow, Step, Goto
  <1>3. my_take[t] # Locked /\ my_push[t] # Locked
    BY <1>1, <1>2 DEF Locals, HoldsPush, HoldsTake
  <1>4. \A u \in Threads :
          /\ my_take'[u] = IF u = t THEN 0 ELSE Locked
          /\ my_push'[u] = IF u = t THEN size ELSE Locked
          /\ pc'[u] = IF u = t THEN "push_copy" ELSE pc[u]
    BY <1>1, <1>2, <1>3 DEF TypeOK, Holders
  <1>5. /\ capacity' \in 1 .. MaxCapacity /\ capacity < capacity'
        /\ capacity \in Nat /\ capacity' \in Nat /\ size \in 0 .. capacity
    BY <1>1, <1>2, NewCapacityGrows, CapacityAssumption DEF TypeOK
  <1>6. TypeOK'
    <2>1. \A i \in 0 .. capacity' - 1 : i < size =>
            SlotAfter(my_take[t], i) \in 0 .. capacity - 1
      <3>1. my_take[t] \in 0 .. capacity - 1
        BY <1>1, <1>3 DEF TypeOK
      <3> DEFINE m == my_take[t]
      <3> HIDE DEF m
      <3>2. m \in 0 .. capacity - 1
        BY <3>1 DEF m
      <3>3. \A i \in 0 .. capacity' - 1 : i < size => SlotAfter(m, i) \in 0 .. capacity - 1
        BY <1>2, <1>5, <3>2 DEF SlotAfter
      <3>4. QED
        BY <3>3 DEF m
    <2>2. data' \in [0 .. capacity' - 1 -> Elements \cup {Garbage}]
      <3> DEFINE d(i) == IF i < size THEN data[SlotAfter(my_take[t], i)] ELSE Garbage
      <3>1. data' = [i \in 0 .. capacity' - 1 |-> d(i)]
        BY <1>2 DEF PushGrow
      <3>2. \A i \in 0 .. capacity' - 1 : d(i) \in Elements \cup {Garbage}
        BY <1>1, <2>1 DEF TypeOK
      <3> HIDE DEF d
      <3>3. QED
        BY <3>1, <3>2
    <2>3. /\ my_take' \in [Threads -> 0 .. capacity' - 1 \cup {Locked}]
          /\ my_push' \in [Threads -> 0 .. capacity' - 1 \cup {Locked}]
      <3> DEFINE c == capacity'
      <3>0. c \in Nat /\ capacity \in Nat /\ capacity < c /\ size \in 0 .. capacity
        BY <1>5
      <3> HIDE DEF c
      <3>1. 0 \in 0 .. c - 1 /\ size \in 0 .. c - 1 /\ 0 .. capacity - 1 \subseteq 0 .. c - 1
        BY <3>0
      <3>2. /\ my_take \in [Threads -> 0 .. capacity' - 1 \cup {Locked}]
            /\ my_push \in [Threads -> 0 .. capacity' - 1 \cup {Locked}]
        BY <1>1, <3>1 DEF TypeOK, c
      <3>3. QED
        BY <1>2, <3>1, <3>2 DEF c
    <2>4. /\ take_idx' \in 0 .. capacity' - 1 \cup {Locked}
          /\ push_idx' \in 0 .. capacity' - 1 \cup {Locked}
          /\ size' \in 0 .. capacity'
      BY <1>1, <1>2, <1>5 DEF TypeOK
    <2>5. /\ pc' \in [Threads ->
                {"idle", "push_lock", "push_check", "push_lock_take", "push_recheck",
                 "push_copy", "push_size", "push_unlock_take", "push_unlock",
                 "take_check", "take_return", "take_lock", "take_recheck", "take_copy",
                 "take_size", "take_unlock"}]
          /\ elem' \in [Threads -> Elements \cup {Garbage}]
          /\ result' \in [Threads -> BOOLEAN]
      BY <1>1, <1>2 DEF TypeOK
    <2>6. QED
      BY <1>5, <2>2, <2>3, <2>4, <2>5 DEF TypeOK
  <1>7. 0 # Locked /\ size # Locked
    BY <1>5 DEF Locked
  <1>8. Locals'
    BY <1>1, <1>2, <1>3, <1>4, <1>7 DEF Locals, Holders, HoldsPush, HoldsTake
  <1>9. Holders'
    BY <1>1, <1>2, <1>3, <1>4, <1>7 DEF Holders
  <1>10. Room'
    <2>1. \A u \in Threads : pc[u] \notin {"take_copy", "take_size"}
      BY <1>1, <1>2, <1>3 DEF Holders, Locals, HoldsTake
    <2>2. QED
      BY <1>1, <1>2, <1>4, <1>5, <2>1 DEF Room
  <1>11. Apart'
    <2> SUFFICES ASSUME NEW i \in 0 .. capacity' - 1, NEW j \in 0 .. capacity' - 1,
                        TakeAt(i)', PushAt(j)'
                 PROVE  j = SlotAfter(i, size)'
      BY DEF Apart
    <2>1. take_idx' = Locked /\ push_idx' = Locked
      BY <1>1, <1>2, <1>3 DEF Holders
    <2>2. i = 0 /\ j = size
      BY <1>4, <1>5, <2>1 DEF TakeAt, PushAt, Locked
    <2>3. QED
      BY <2>2, <1>2, <1>5 DEF SlotAfter
  <1>12. QED
    BY <1>6, <1>8, <1>9, <1>10, <1>11 DEF QInv

\* The fetch_add of a push and the index one further.
LEMMA PushSizeKeepsQInv ==
  ASSUME QInv, NEW t \in Threads, PushSize(t)
  PROVE  QInv'
  <1>1. TypeOK /\ Locals /\ Holders /\ Room /\ Apart
    BY DEF QInv
  <1> DEFINE to == IF my_take[t] # Locked THEN "push_unlock_take" ELSE "push_unlock"
             j == my_push[t]
  <1>2. /\ pc[t] = "push_size" /\ pc' = [pc EXCEPT ![t] = to]
        /\ my_push' = [my_push EXCEPT ![t] = Next1(j)]
        /\ size' = size + 1
        /\ result' = [result EXCEPT ![t] = TRUE]
        /\ UNCHANGED <<data, capacity, take_idx, push_idx, my_take, elem>>
    BY DEF PushSize, Step, Goto
  <1>3. j # Locked /\ j \in 0 .. capacity - 1 /\ push_idx = Locked
    BY <1>1, <1>2 DEF Locals, HoldsPush, Holders, TypeOK
  <1>4. /\ capacity \in Nat /\ size \in 0 .. capacity /\ size < capacity
        /\ Next1(j) = SlotAfter(j, 1) /\ Next1(j) \in 0 .. capacity - 1
    BY <1>1, <1>2, <1>3, Next1Is, CapacityAssumption DEF TypeOK, Room
  <1>5. \A u \in Threads :
          /\ my_push'[u] = IF u = t THEN Next1(j) ELSE Locked
          /\ pc'[u] = IF u = t THEN to ELSE pc[u]
    BY <1>1, <1>2, <1>3 DEF TypeOK, Holders
  <1>6. TypeOK'
    BY <1>1, <1>2, <1>4 DEF TypeOK
  <1>7. Next1(j) # Locked
    BY <1>4 DEF Locked
  <1>8. Locals'
    BY <1>1, <1>2, <1>3, <1>5, <1>7 DEF Locals, Holders, HoldsPush, HoldsTake
  <1>9. Holders'
    BY <1>1, <1>2, <1>3, <1>5, <1>7 DEF Holders
  <1>10. Room'
    <2>1. \A u \in Threads : u # t => pc[u] \notin {"push_copy", "push_size"}
      BY <1>1, <1>3 DEF Holders, Locals, HoldsPush
    <2>2. QED
      BY <1>1, <1>2, <1>4, <1>5, <2>1 DEF Room
  <1>11. Apart'
    <2> SUFFICES ASSUME NEW i \in 0 .. capacity - 1, NEW k \in 0 .. capacity - 1,
                        TakeAt(i)', PushAt(k)'
                 PROVE  k = SlotAfter(i, size)'
      BY <1>2 DEF Apart
    <2>1. TakeAt(i) /\ PushAt(j)
      BY <1>2 DEF TakeAt, PushAt
    <2>2. k = SlotAfter(j, 1)
      BY <1>2, <1>3, <1>4, <1>5 DEF PushAt, Locked
    <2>3. j = SlotAfter(i, size)
      BY <1>1, <1>3, <2>1 DEF Apart
    <2> HIDE DEF j
    <2>4. QED
      BY <2>2, <2>3, <1>2, <1>3, <1>4 DEF SlotAfter
  <1>12. QED
    BY <1>6, <1>8, <1>9, <1>10, <1>11 DEF QInv

\* The fetch_sub of a take and the index one further.
LEMMA TakeSizeKeepsQInv ==
  ASSUME QInv, NEW t \in Threads, TakeSize(t)
  PROVE  QInv'
  <1>1. TypeOK /\ Locals /\ Holders /\ Room /\ Apart
    BY DEF QInv
  <1> DEFINE i == my_take[t]
  <1>2. /\ pc[t] = "take_size" /\ pc' = [pc EXCEPT ![t] = "take_unlock"]
        /\ my_take' = [my_take EXCEPT ![t] = Next1(i)]
        /\ size' = size - 1
        /\ result' = [result EXCEPT ![t] = TRUE]
        /\ UNCHANGED <<data, capacity, take_idx, push_idx, my_push, elem>>
    BY DEF TakeSize, Step, Goto
  <1>3. i # Locked /\ i \in 0 .. capacity - 1 /\ take_idx = Locked
    BY <1>1, <1>2 DEF Locals, HoldsTake, Holders, TypeOK
  <1>4. /\ capacity \in Nat /\ size \in 0 .. capacity /\ size > 0
        /\ Next1(i) = SlotAfter(i, 1) /\ Next1(i) \in 0 .. capacity - 1
    BY <1>1, <1>2, <1>3, Next1Is, CapacityAssumption DEF TypeOK, Room
  <1>5. \A u \in Threads :
          /\ my_take'[u] = IF u = t THEN Next1(i) ELSE Locked
          /\ pc'[u] = IF u = t THEN "take_unlock" ELSE pc[u]
    BY <1>1, <1>2, <1>3 DEF TypeOK, Holders
  <1>6. TypeOK'
    BY <1>1, <1>2, <1>4 DEF TypeOK
  <1>7. Next1(i) # Locked
    BY <1>4 DEF Locked
  <1>8. Locals'
    BY <1>1, <1>2, <1>3, <1>5, <1>7 DEF Locals, Holders, HoldsPush, HoldsTake
  <1>9. Holders'
    BY <1>1, <1>2, <1>3, <1>5, <1>7 DEF Holders
  <1>10. Room'
    <2>1. \A u \in Threads : u # t => pc[u] \notin {"take_copy", "take_size"}
      BY <1>1, <1>3 DEF Holders, Locals, HoldsTake
    <2>2. QED
      BY <1>1, <1>2, <1>4, <1>5, <2>1 DEF Room
  <1>11. Apart'
    <2> SUFFICES ASSUME NEW k \in 0 .. capacity - 1, NEW j \in 0 .. capacity - 1,
                        TakeAt(k)', PushAt(j)'
                 PROVE  j = SlotAfter(k, size)'
      BY <1>2 DEF Apart
    <2>1. TakeAt(i) /\ PushAt(j)
      BY <1>2 DEF TakeAt, PushAt
    <2>2. k = SlotAfter(i, 1)
      BY <1>2, <1>3, <1>4, <1>5 DEF TakeAt, Locked
    <2>3. j = SlotAfter(i, size)
      BY <1>1, <1>3, <2>1 DEF Apart
    <2> HIDE DEF i
    <2>4. QED
      BY <2>2, <2>3, <1>2, <1>3, <1>4 DEF SlotAfter
  <1>12. QED
    BY <1>6, <1>8, <1>9, <1>10, <1>11 DEF QInv

\* The copying of an element into a slot.
LEMMA PushCopyKeepsQInv ==
  ASSUME QInv, NEW t \in Threads, PushCopy(t)
  PROVE  QInv'
  <1>1. TypeOK /\ Locals /\ Holders /\ Room /\ Apart
    BY DEF QInv
  <1>2. /\ pc[t] = "push_copy" /\ pc' = [pc EXCEPT ![t] = "push_size"]
        /\ data' = [data EXCEPT ![my_push[t]] = elem[t]]
        /\ UNCHANGED <<capacity, size, take_idx, push_idx, my_take, my_push, elem, result>>
    BY DEF PushCopy, Step, Goto
  <1>3. TypeOK'
    BY <1>1, <1>2 DEF TypeOK
  <1>4. size < capacity
    BY <1>1, <1>2 DEF Room
  <1>5. HoldsPush(t)' <=> HoldsPush(t)
    BY <1>1, <1>2 DEF HoldsPush, TypeOK
  <1>6. HoldsTake(t)' <=> HoldsTake(t)
    BY <1>1, <1>2 DEF HoldsTake, TypeOK
  <1>7. Step(t, "push_copy", "push_size")
    BY DEF PushCopy
  <1>8. QED
    BY <1>2, <1>3, <1>4, <1>5, <1>6, <1>7, LocalStepKeepsQInv

-----------------------------------------------------------------------------
(* The steps that only read size, and those that set elem or result *)

\* A thread that does not hold a lock calls, or returns.
LEMMA CallKeepsQInv ==
  ASSUME QInv, NEW t \in Threads,
         (\E e \in Elements : CallPush(t, e)) \/ CallTake(t)
  PROVE  QInv'
  <1>1. TypeOK
    BY DEF QInv
  <1> DEFINE to == IF pc'[t] = "push_lock" THEN "push_lock" ELSE "take_check"
  <1>2. /\ Step(t, "idle", to) /\ to \in {"push_lock", "take_check"}
        /\ UNCHANGED <<data, capacity, size, take_idx, push_idx, my_take, my_push, result>>
        /\ elem' \in [Threads -> Elements \cup {Garbage}]
    BY <1>1 DEF CallPush, CallTake, Step, Goto, TypeOK, shared
  <1> HIDE DEF to
  <1>3. TypeOK'
    BY <1>1, <1>2 DEF TypeOK, Step, Goto
  <1>4. (HoldsPush(t)' <=> HoldsPush(t)) /\ (HoldsTake(t)' <=> HoldsTake(t))
    BY <1>1, <1>2 DEF HoldsPush, HoldsTake, Step, Goto, TypeOK
  <1>5. QED
    BY <1>2, <1>3, <1>4, LocalStepKeepsQInv

\* The two looks of a push at size; nobody can raise size before it does.
LEMMA PushCheckKeepsQInv ==
  ASSUME QInv, NEW t \in Threads,
         PushCheck(t) \/ PushRecheckRoom(t) \/ PushRefuse(t)
  PROVE  QInv'
  <1>1. TypeOK /\ Locals
    BY DEF QInv
  <1> DEFINE to == pc'[t]
  <1>2. /\ Step(t, pc[t], to)
        /\ UNCHANGED <<data, capacity, size, take_idx, push_idx, my_take, my_push, elem, result>>
    BY <1>1 DEF PushCheck, PushRecheckRoom, PushRefuse, Step, Goto, TypeOK, shared
  <1>3. \/ pc[t] = "push_check" /\ to \in {"push_lock_take", "push_copy"}
        \/ pc[t] = "push_recheck" /\ to \in {"push_copy", "push_unlock_take"}
    BY <1>1 DEF PushCheck, PushRecheckRoom, PushRefuse, Step, Goto, TypeOK
  <1>4. to = "push_copy" => size < capacity
    <2>1. to = "push_copy" => size # capacity
      BY <1>1 DEF PushCheck, PushRecheckRoom, PushRefuse, Step, Goto, TypeOK
    <2>2. size \in 0 .. capacity /\ capacity \in Nat
      BY <1>1, CapacityAssumption DEF TypeOK
    <2>3. QED
      BY <2>1, <2>2
  <1>5. pc[t] = "push_check" => my_take[t] = Locked
    BY <1>1 DEF Locals, HoldsTake
  <1>6. pc[t] = "push_recheck" => my_take[t] # Locked
    BY <1>1 DEF Locals, HoldsTake
  <1>7. TypeOK'
    BY <1>1, <1>2, <1>3 DEF TypeOK, Step, Goto
  <1>8. HoldsPush(t)' <=> HoldsPush(t)
    BY <1>3 DEF HoldsPush
  <1>9. HoldsTake(t)' <=> HoldsTake(t)
    BY <1>2, <1>3, <1>5, <1>6 DEF HoldsTake
  <1> HIDE DEF to
  <1>10. to \notin {"push_size", "take_copy", "take_size"}
    BY <1>3
  <1>11. QED
    BY <1>2, <1>4, <1>7, <1>8, <1>9, <1>10, LocalStepKeepsQInv

\* The looks of a take at size and its copy; nobody can lower size before it does.
LEMMA TakeCheckKeepsQInv ==
  ASSUME QInv, NEW t \in Threads,
         TakeCheck(t) \/ TakeRecheck(t) \/ TakeCopy(t)
  PROVE  QInv'
  <1>1. TypeOK /\ Locals /\ Room
    BY DEF QInv
  <1> DEFINE to == pc'[t]
  <1>2. /\ Step(t, pc[t], to)
        /\ UNCHANGED <<data, capacity, size, take_idx, push_idx, my_take, my_push, result>>
    BY <1>1 DEF TakeCheck, TakeRecheck, TakeCopy, Step, Goto, TypeOK, shared
  <1>3. \/ pc[t] = "take_check" /\ to \in {"take_return", "take_lock"}
        \/ pc[t] = "take_recheck" /\ to \in {"take_unlock", "take_copy"}
        \/ pc[t] = "take_copy" /\ to = "take_size"
    BY <1>1 DEF TakeCheck, TakeRecheck, TakeCopy, Step, Goto, TypeOK
  <1>4. to \in {"take_copy", "take_size"} => size > 0
    <2>1. to = "take_copy" => size # 0
      BY <1>1 DEF TakeCheck, TakeRecheck, TakeCopy, Step, Goto, TypeOK
    <2>2. to = "take_size" => size > 0
      BY <1>1, <1>3 DEF Room
    <2>3. size \in 0 .. capacity /\ capacity \in Nat
      BY <1>1, CapacityAssumption DEF TypeOK
    <2>4. QED
      BY <2>1, <2>2, <2>3
  <1>5. elem' \in [Threads -> Elements \cup {Garbage}]
    <2>1. CASE TakeCopy(t)
      <3>1. my_take[t] \in 0 .. capacity - 1
        BY <1>1, <2>1 DEF Locals, HoldsTake, TypeOK, TakeCopy, Step
      <3>2. data[my_take[t]] \in Elements \cup {Garbage}
        BY <1>1, <3>1 DEF TypeOK
      <3>3. QED
        BY <1>1, <2>1, <3>2 DEF TypeOK, TakeCopy
    <2>2. CASE TakeCheck(t) \/ TakeRecheck(t)
      BY <1>1, <2>2 DEF TypeOK, TakeCheck, TakeRecheck
    <2>3. QED
      BY <2>1, <2>2
  <1>6. TypeOK'
    BY <1>1, <1>2, <1>3, <1>5 DEF TypeOK, Step, Goto
  <1>7. HoldsPush(t)' <=> HoldsPush(t)
    BY <1>3 DEF HoldsPush
  <1>8. HoldsTake(t)' <=> HoldsTake(t)
    BY <1>3 DEF HoldsTake
  <1> HIDE DEF to
  <1>9. to \notin {"push_copy", "push_size"}
    BY <1>3
  <1>10. QED
    BY <1>2, <1>4, <1>6, <1>7, <1>8, <1>9, LocalStepKeepsQInv

\* The early return of a take holds no lock.
LEMMA TakeReturnKeepsQInv ==
  ASSUME QInv, NEW t \in Threads, TakeReturn(t)
  PROVE  QInv'
  <1>1. TypeOK /\ Locals
    BY DEF QInv
  <1>2. my_take[t] = Locked /\ my_push[t] = Locked
    BY <1>1 DEF Locals, HoldsPush, HoldsTake, TakeReturn
  <1>3. /\ Step(t, "take_return", "idle")
        /\ UNCHANGED <<data, capacity, size, take_idx, push_idx, my_take, my_push>>
    BY <1>1, <1>2 DEF TakeReturn, Leave, Step, TypeOK, shared
  <1>4. TypeOK'
    BY <1>1, <1>3 DEF TypeOK, TakeReturn, Leave, Goto
  <1>5. (HoldsPush(t)' <=> HoldsPush(t)) /\ (HoldsTake(t)' <=> HoldsTake(t))
    BY <1>1, <1>3 DEF HoldsPush, HoldsTake, Step, Goto, TypeOK
  <1>6. QED
    BY <1>3, <1>4, <1>5, LocalStepKeepsQInv

\* One case per action of Next.
LEMMA NextKeepsQInv ==
  ASSUME QInv, [Next]_vars
  PROVE  QInv'
  <1>1. CASE UNCHANGED vars
    BY <1>1 DEF QInv, TypeOK, Locals, Holders, Room, Apart, TakeAt, PushAt, SlotAfter,
                HoldsPush, HoldsTake, vars, shared, local
  <1>2. ASSUME NEW t \in Threads,
               \/ (\E e \in Elements : CallPush(t, e)) \/ CallTake(t)
               \/ cyclic_queue_push(t) \/ cyclic_queue_take(t)
        PROVE  QInv'
    BY <1>2, CallKeepsQInv, LockPushKeepsQInv, LockTakeKeepsQInv, UnlockPushKeepsQInv,
       UnlockTakeKeepsQInv, PushGrowKeepsQInv, PushCopyKeepsQInv, PushSizeKeepsQInv,
       TakeSizeKeepsQInv, PushCheckKeepsQInv, TakeCheckKeepsQInv, TakeReturnKeepsQInv
       DEF cyclic_queue_push, cyclic_queue_take
  <1>3. QED
    BY <1>1, <1>2 DEF Next

-----------------------------------------------------------------------------
\* The inductive invariant of cyclic_queue_push and cyclic_queue_take.
THEOREM QueueInvariance == Spec => []QInv
  <1>1. Init => QInv
    BY InitQInv
  <1>2. QInv /\ [Next]_vars => QInv'
    BY NextKeepsQInv
  <1>3. QED
    BY <1>1, <1>2, PTL DEF Spec

\* Every variable keeps its type: the size stays within the capacity, the
\* capacity within max_capacity, and an index that is not UINT32_MAX within
\* the region, whatever the threads that push, take and grow it.
THEOREM QueueTypeCorrect == Spec => []TypeOK
  <1>1. QInv => TypeOK
    BY DEF QInv
  <1>2. QED
    BY <1>1, QueueInvariance, PTL

\* An index in a local variable means the lock is held, and there is one index.
LEMMA LocksFromQInv ==
  ASSUME QInv
  PROVE  LocksExclusive
  <1>1. TypeOK /\ Locals /\ Holders
    BY DEF QInv
  <1>2. \A t \in Threads : /\ HoldsPush(t) <=> my_push[t] # Locked
                           /\ HoldsTake(t) <=> my_take[t] # Locked
    BY <1>1 DEF Locals
  <1>3. QED
    BY <1>1, <1>2 DEF Holders, LocksExclusive

\* __LOCK_IDX and __UNLOCK_IDX: each end of the queue has at most one holder,
\* and its index reads UINT32_MAX exactly while there is one.
THEOREM LocksAreExclusive == Spec => []LocksExclusive
  <1>1. QED
    BY LocksFromQInv, QueueInvariance, PTL

\* The ends lie size apart, and size is neither 0 nor the capacity in both copies.
LEMMA CopiesFromQInv ==
  ASSUME QInv
  PROVE  CopiesDisjoint
  <1>1. TypeOK /\ Locals /\ Holders /\ Room /\ Apart
    BY DEF QInv
  <1> SUFFICES ASSUME NEW t \in Threads, NEW u \in Threads
               PROVE  /\ pc[t] = "push_copy" /\ pc[u] = "take_copy" => my_push[t] # my_take[u]
                      /\ pc[t] = "push_recheck" => pc[u] # "take_copy"
    BY DEF CopiesDisjoint
  <1>2. ASSUME pc[t] = "push_copy", pc[u] = "take_copy"
        PROVE  my_push[t] # my_take[u]
    <2> DEFINE i == my_take[u]
               j == my_push[t]
    <2>1. i # Locked /\ j # Locked
      BY <1>1, <1>2 DEF Locals, HoldsPush, HoldsTake
    <2>2. i \in 0 .. capacity - 1 /\ j \in 0 .. capacity - 1
      BY <1>1, <2>1 DEF TypeOK
    <2>3. TakeAt(i) /\ PushAt(j)
      BY <2>1 DEF TakeAt, PushAt
    <2>4. j = SlotAfter(i, size)
      BY <1>1, <2>2, <2>3 DEF Apart
    <2>5. size > 0 /\ size < capacity /\ size \in Nat /\ capacity \in Nat
      BY <1>1, <1>2, CapacityAssumption DEF Room, TypeOK
    <2> HIDE DEF i, j
    <2>6. i # j
      BY <2>2, <2>4, <2>5 DEF SlotAfter
    <2>7. QED
      BY <2>6 DEF i, j
  <1>3. ASSUME pc[t] = "push_recheck", pc[u] = "take_copy"
        PROVE  FALSE
    <2>1. my_take[t] # Locked /\ my_take[u] # Locked
      BY <1>1, <1>3 DEF Locals, HoldsTake
    <2>2. t = u
      BY <1>1, <2>1 DEF Holders
    <2>3. QED
      BY <2>2, <1>3
  <1>4. QED
    BY <1>2, <1>3

\* A push and a take that copy at the same time copy different slots, and a
\* push that decides to move the region finds no take copying out of it.
THEOREM QueueCopiesDisjoint == Spec => []CopiesDisjoint
  <1>1. QED
    BY CopiesFromQInv, QueueInvariance, PTL

-----------------------------------------------------------------------------
(* The elements in the queue *)

\* What SlotAfter does: different ways round from a slot end at different slots.
LEMMA SlotsDiffer ==
  ASSUME TypeOK, NEW i \in 0 .. capacity - 1
  PROVE  /\ \A n \in 0 .. capacity : SlotAfter(i, n) \in 0 .. capacity - 1
         /\ \A m, n \in 0 .. capacity - 1 : SlotAfter(i, m) = SlotAfter(i, n) => m = n
         /\ \A n \in 0 .. capacity - 1 : SlotAfter(SlotAfter(i, 1), n) = SlotAfter(i, n + 1)
  BY CapacityAssumption DEF TypeOK, SlotAfter

\* Head0 is the index of the take end, wherever that index is.
HeadRight ==
  /\ Head0 \in 0 .. capacity - 1
  /\ \A i \in 0 .. capacity - 1 : TakeAt(i) <=> i = Head0

\* One thread at most has locked the take end, and Head0 finds it.
LEMMA HeadFromQInv == QInv => HeadRight
  <1> SUFFICES ASSUME QInv PROVE HeadRight
    OBVIOUS
  <1>1. TypeOK /\ Locals /\ Holders
    BY DEF QInv
  <1>2. CASE take_idx # Locked
    <2>1. Head0 = take_idx /\ take_idx \in 0 .. capacity - 1
      BY <1>1, <1>2 DEF Head0, TypeOK
    <2>2. \A t \in Threads : my_take[t] = Locked
      BY <1>1, <1>2 DEF Holders
    <2>3. \A i \in 0 .. capacity - 1 : i # Locked
      BY <1>1, CapacityAssumption DEF TypeOK, Locked
    <2>4. QED
      BY <2>1, <2>2, <2>3 DEF HeadRight, TakeAt
  <1>3. CASE take_idx = Locked
    <2>1. PICK t \in Threads : my_take[t] # Locked
      BY <1>1, <1>3 DEF Holders
    <2>2. \A u \in Threads : HoldsTake(u) <=> u = t
      BY <1>1, <2>1 DEF Locals, Holders
    <2>3. Head0 = my_take[t] /\ my_take[t] \in 0 .. capacity - 1
      <3>1. (CHOOSE u \in Threads : HoldsTake(u)) = t
        BY <2>2
      <3>2. QED
        BY <1>1, <1>3, <2>1, <3>1 DEF Head0, TypeOK
    <2>4. \A i \in 0 .. capacity - 1 : i # Locked
      BY <1>1, CapacityAssumption DEF TypeOK, Locked
    <2>5. \A u \in Threads : my_take[u] = IF u = t THEN my_take[t] ELSE Locked
      BY <1>1, <2>1 DEF Holders
    <2>6. QED
      BY <1>3, <2>3, <2>4, <2>5 DEF HeadRight, TakeAt
  <1>4. QED
    BY <1>2, <1>3

\* The same after a step.
LEMMA HeadFromQInvNext == QInv' => HeadRight'
  BY HeadFromQInv, PTL

\* The queue is a sequence of size slots.
LEMMA ItemsType ==
  ASSUME QInv
  PROVE  /\ Items \in Seq(Elements \cup {Garbage}) /\ Len(Items) = size
         /\ size \in Nat /\ size <= capacity /\ capacity \in Nat \ {0}
         /\ \A k \in 1 .. size : /\ SlotAfter(Head0, k - 1) \in 0 .. capacity - 1
                                 /\ Items[k] = data[SlotAfter(Head0, k - 1)]
  <1>1. TypeOK /\ HeadRight
    BY HeadFromQInv DEF QInv
  <1>2. size \in Nat /\ size <= capacity /\ capacity \in Nat \ {0}
    BY <1>1, CapacityAssumption DEF TypeOK
  <1>3. \A k \in 1 .. size : SlotAfter(Head0, k - 1) \in 0 .. capacity - 1
    BY <1>1, <1>2, SlotsDiffer DEF HeadRight
  <1>4. \A k \in 1 .. size : data[SlotAfter(Head0, k - 1)] \in Elements \cup {Garbage}
    BY <1>1, <1>3 DEF TypeOK
  <1>5. Items \in [1 .. size -> Elements \cup {Garbage}]
    BY <1>4 DEF Items
  <1>6. Items \in Seq(Elements \cup {Garbage}) /\ Len(Items) = size
    BY <1>2, <1>5
  <1>7. QED
    BY <1>2, <1>3, <1>6 DEF Items

\* A step that leaves the slots and the ends where they are.
LEMMA ItemsKept ==
  ASSUME QInv, QInv', UNCHANGED <<data, capacity, size>>,
         \A i \in 0 .. capacity - 1 : TakeAt(i) => TakeAt(i)'
  PROVE  Items' = Items
  <1>1. HeadRight /\ HeadRight'
    BY HeadFromQInv, HeadFromQInvNext
  <1>2. Head0' = Head0
    BY <1>1 DEF HeadRight
  <1>3. QED
    BY <1>2 DEF Items, SlotAfter

\* Locking an end, unlocking it and all that a thread does on its own.
LEMMA QuietStepKeepsItems ==
  ASSUME QInv, QInv', NEW t \in Threads,
         \/ (\E e \in Elements : CallPush(t, e)) \/ CallTake(t)
         \/ PushLock(t) \/ PushCheck(t) \/ PushLockTake(t) \/ PushRecheckRoom(t) \/ PushRefuse(t)
         \/ PushUnlockTake(t) \/ PushUnlock(t)
         \/ TakeCheck(t) \/ TakeReturn(t) \/ TakeLock(t) \/ TakeRecheck(t) \/ TakeCopy(t)
         \/ TakeUnlock(t)
  PROVE  Items' = Items /\ UNCHANGED <<data, capacity, size>>
  <1>1. TypeOK /\ Locals /\ Holders
    BY DEF QInv
  <1>2. UNCHANGED <<data, capacity, size>>
    BY DEF CallPush, CallTake, PushLock, LockPush, PushCheck, PushLockTake, LockTake,
           PushRecheckRoom, PushRefuse, PushUnlockTake, PushUnlock, TakeCheck, TakeReturn,
           TakeLock, TakeRecheck, TakeCopy, TakeUnlock, shared
  <1>3. \A i \in 0 .. capacity - 1 : i # Locked
    BY <1>1, CapacityAssumption DEF TypeOK, Locked
  <1> SUFFICES ASSUME NEW i \in 0 .. capacity - 1, TakeAt(i) PROVE TakeAt(i)'
    BY <1>2, ItemsKept
  <1>4. CASE PushLockTake(t) \/ TakeLock(t)
    <2>1. take_idx # Locked /\ my_take' = [my_take EXCEPT ![t] = take_idx]
      BY <1>4 DEF PushLockTake, TakeLock, LockTake
    <2>2. \A u \in Threads : my_take[u] = Locked
      BY <1>1, <2>1 DEF Holders
    <2>3. QED
      BY <1>1, <1>3, <2>1, <2>2 DEF TakeAt, TypeOK
  <1>5. CASE PushUnlockTake(t) \/ TakeUnlock(t)
    <2>1. take_idx' = my_take[t] /\ pc[t] \in {"push_unlock_take", "take_unlock"}
      BY <1>5 DEF PushUnlockTake, TakeUnlock, Step
    <2>2. my_take[t] # Locked
      BY <1>1, <2>1 DEF Locals, HoldsTake
    <2>3. take_idx = Locked /\ \A u \in Threads : my_take[u] # Locked => u = t
      BY <1>1, <2>2 DEF Holders
    <2>4. QED
      BY <1>3, <2>1, <2>3 DEF TakeAt
  <1>6. CASE PushUnlock(t) \/ TakeReturn(t)
    <2>1. pc[t] \in {"push_unlock", "take_return"} /\ take_idx' = take_idx
          /\ my_take' = [my_take EXCEPT ![t] = Locked]
      BY <1>6 DEF PushUnlock, TakeReturn, Leave, shared
    <2>2. my_take[t] = Locked
      BY <1>1, <2>1 DEF Locals, HoldsTake
    <2>3. my_take' = my_take
      BY <1>1, <2>1, <2>2 DEF TypeOK
    <2>4. QED
      BY <2>1, <2>3 DEF TakeAt
  <1>7. CASE \/ (\E e \in Elements : CallPush(t, e)) \/ CallTake(t)
             \/ PushLock(t) \/ PushCheck(t) \/ PushRecheckRoom(t) \/ PushRefuse(t)
             \/ TakeCheck(t) \/ TakeRecheck(t) \/ TakeCopy(t)
    <2>1. UNCHANGED <<take_idx, my_take>>
      BY <1>7 DEF CallPush, CallTake, PushLock, LockPush, PushCheck, PushRecheckRoom,
                  PushRefuse, TakeCheck, TakeRecheck, TakeCopy, shared
    <2>2. QED
      BY <2>1 DEF TakeAt
  <1>8. QED
    BY <1>4, <1>5, <1>6, <1>7

\* The slot a push fills lies behind the last element.
LEMMA PushCopyKeepsItems ==
  ASSUME QInv, QInv', NEW t \in Threads, PushCopy(t)
  PROVE  Items' = Items /\ data'[my_push[t]] = elem[t]
  <1>1. TypeOK /\ Locals /\ Room /\ Apart /\ HeadRight /\ HeadRight'
    BY HeadFromQInv, HeadFromQInvNext DEF QInv
  <1>2. /\ pc[t] = "push_copy" /\ data' = [data EXCEPT ![my_push[t]] = elem[t]]
        /\ UNCHANGED <<capacity, size, take_idx, push_idx, my_take, my_push, elem, result>>
    BY DEF PushCopy, Step
  <1>3. my_push[t] # Locked /\ my_push[t] \in 0 .. capacity - 1
    BY <1>1, <1>2 DEF Locals, HoldsPush, TypeOK
  <1>4. my_push[t] = SlotAfter(Head0, size)
    BY <1>1, <1>3 DEF Apart, HeadRight, PushAt
  <1>5. size \in Nat /\ size < capacity /\ capacity \in Nat
    BY <1>1, <1>2, ItemsType DEF Room
  <1>6. \A k \in 1 .. size : SlotAfter(Head0, k - 1) # my_push[t]
    <2>1. \A k \in 1 .. size : k - 1 \in 0 .. capacity - 1 /\ k - 1 # size
      BY <1>5
    <2>2. size \in 0 .. capacity - 1
      BY <1>5
    <2>3. QED
      BY <1>1, <1>4, <2>1, <2>2, SlotsDiffer DEF HeadRight
  <1>7. \A k \in 1 .. size : SlotAfter(Head0, k - 1) \in 0 .. capacity - 1
    BY ItemsType
  <1>8. \A k \in 1 .. size : data'[SlotAfter(Head0, k - 1)] = data[SlotAfter(Head0, k - 1)]
    BY <1>1, <1>2, <1>6, <1>7 DEF TypeOK
  <1>9. Head0' = Head0
    BY <1>1, <1>2 DEF HeadRight, TakeAt
  <1>10. Items' = Items
    BY <1>2, <1>8, <1>9 DEF Items, SlotAfter
  <1>11. QED
    BY <1>1, <1>2, <1>3, <1>10 DEF TypeOK

\* Growing moves the elements, and the take end with them.
LEMMA PushGrowKeepsItems ==
  ASSUME QInv, QInv', NEW t \in Threads, PushGrow(t)
  PROVE  Items' = Items
  <1>1. TypeOK /\ Locals /\ HeadRight /\ HeadRight'
    BY HeadFromQInv, HeadFromQInvNext DEF QInv
  <1>2. /\ pc[t] = "push_recheck"
        /\ size = capacity /\ NewCapacity # capacity /\ capacity' = NewCapacity
        /\ my_take' = [my_take EXCEPT ![t] = 0] /\ size' = size
        /\ data' = [i \in 0 .. NewCapacity - 1 |->
                     IF i < size THEN data[SlotAfter(my_take[t], i)] ELSE Garbage]
    BY DEF PushGrow, Step
  <1>3. my_take[t] # Locked /\ my_take[t] \in 0 .. capacity - 1
    BY <1>1, <1>2 DEF Locals, HoldsTake, TypeOK
  <1>4. Head0 = my_take[t]
    BY <1>1, <1>3 DEF HeadRight, TakeAt
  <1>5. NewCapacity \in Nat /\ capacity \in Nat /\ size \in Nat /\ capacity < NewCapacity
    BY <1>1, <1>2, NewCapacityGrows, ItemsType, CapacityAssumption
  <1>6. Head0' = 0
    <2>1. TakeAt(0)'
      BY <1>1, <1>2 DEF TakeAt, TypeOK
    <2>2. 0 \in 0 .. capacity' - 1
      BY <1>2, <1>5
    <2>3. QED
      BY <1>1, <2>1, <2>2 DEF HeadRight
  <1>7. \A k \in 1 .. size : SlotAfter(Head0, k - 1)' = k - 1
    BY <1>2, <1>5, <1>6 DEF SlotAfter
  <1>8. \A k \in 1 .. size : data'[k - 1] = data[SlotAfter(Head0, k - 1)]
    <2>1. \A k \in 1 .. size : k - 1 \in 0 .. NewCapacity - 1 /\ k - 1 < size
      BY <1>2, <1>5
    <2>2. QED
      BY <1>2, <1>4, <2>1
  <1>9. QED
    BY <1>2, <1>7, <1>8 DEF Items

\* The fetch_add of a push: one more element at the end.
LEMMA PushSizeAppends ==
  ASSUME QInv, QInv', NEW t \in Threads, PushSize(t), data[my_push[t]] = elem[t]
  PROVE  Items' = Append(Items, elem[t])
  <1>1. TypeOK /\ Locals /\ Room /\ Apart /\ HeadRight /\ HeadRight'
    BY HeadFromQInv, HeadFromQInvNext DEF QInv
  <1>2. /\ pc[t] = "push_size" /\ size' = size + 1
        /\ UNCHANGED <<data, capacity, take_idx, push_idx, my_take, elem>>
    BY DEF PushSize, Step
  <1>3. my_push[t] # Locked /\ my_push[t] \in 0 .. capacity - 1
    BY <1>1, <1>2 DEF Locals, HoldsPush, TypeOK
  <1>4. my_push[t] = SlotAfter(Head0, size)
    BY <1>1, <1>3 DEF Apart, HeadRight, PushAt
  <1>5. Head0' = Head0
    BY <1>1, <1>2 DEF HeadRight, TakeAt
  <1>6. elem[t] \in Elements \cup {Garbage}
    BY <1>1 DEF TypeOK
  <1> DEFINE S == Elements \cup {Garbage}
             A == Append(Items, elem[t])
  <1>7. /\ Items \in Seq(S) /\ Len(Items) = size /\ size \in Nat
        /\ \A k \in 1 .. size : Items[k] = data[SlotAfter(Head0, k - 1)]
    BY ItemsType
  <1>8. A \in Seq(S) /\ Len(A) = size + 1
        /\ \A k \in 1 .. size : A[k] = Items[k]
    BY <1>6, <1>7
  <1>8a. A[size + 1] = elem[t]
    BY <1>6, <1>7
  <1>9. Items' = [k \in 1 .. size + 1 |-> data[SlotAfter(Head0, k - 1)]]
    BY <1>2, <1>5 DEF Items, SlotAfter
  <1> DEFINE I == [k \in 1 .. size + 1 |-> data[SlotAfter(Head0, k - 1)]]
  <1>10. \A k \in 1 .. size + 1 : A[k] = I[k]
    <2>1. I[size + 1] = elem[t]
      <3>1. I[size + 1] = data[SlotAfter(Head0, size + 1 - 1)]
        BY <1>7
      <3>2. size + 1 - 1 = size
        BY <1>7
      <3>3. QED
        BY <1>4, <3>1, <3>2
    <2>2. \A k \in 1 .. size : I[k] = Items[k]
      BY <1>7
    <2>3. \A k \in 1 .. size + 1 : k \in 1 .. size \/ k = size + 1
      BY <1>7
    <2>4. QED
      BY <1>8, <1>8a, <2>1, <2>2, <2>3
  <1>11. A = [k \in 1 .. size + 1 |-> A[k]]
    BY <1>7, <1>8
  <1> HIDE DEF A
  <1>12. QED
    BY <1>9, <1>10, <1>11 DEF A

\* The fetch_sub of a take: the first element goes.
LEMMA TakeSizeRemoves ==
  ASSUME QInv, QInv', NEW t \in Threads, TakeSize(t), elem[t] = data[my_take[t]]
  PROVE  Items # <<>> /\ Items' = Tail(Items) /\ Head(Items) = elem[t]
  <1>1. TypeOK /\ Locals /\ Room /\ HeadRight /\ HeadRight'
    BY HeadFromQInv, HeadFromQInvNext DEF QInv
  <1>2. /\ pc[t] = "take_size" /\ size' = size - 1
        /\ my_take' = [my_take EXCEPT ![t] = Next1(@)]
        /\ UNCHANGED <<data, capacity, take_idx, push_idx, my_push, elem>>
    BY DEF TakeSize, Step
  <1>3. my_take[t] # Locked /\ my_take[t] \in 0 .. capacity - 1
    BY <1>1, <1>2 DEF Locals, HoldsTake, TypeOK
  <1>4. Head0 = my_take[t]
    BY <1>1, <1>3 DEF HeadRight, TakeAt
  <1>5. Head0' = SlotAfter(Head0, 1)
    <2>1. Next1(my_take[t]) = SlotAfter(Head0, 1) /\ Next1(my_take[t]) \in 0 .. capacity - 1
      BY <1>1, <1>3, <1>4, Next1Is
    <2> PICK n \in 0 .. capacity - 1 : n = Next1(my_take[t])
      BY <2>1
    <2>2. TakeAt(n)'
      BY <1>1, <1>2 DEF TakeAt, TypeOK
    <2>3. QED
      BY <1>1, <1>2, <2>1, <2>2 DEF HeadRight
  <1>6. /\ Items \in Seq(Elements \cup {Garbage}) /\ Len(Items) = size
        /\ size \in Nat /\ size > 0 /\ size <= capacity /\ capacity \in Nat
        /\ \A k \in 1 .. size : Items[k] = data[SlotAfter(Head0, k - 1)]
    BY <1>1, <1>2, ItemsType DEF Room
  <1>7. Items # <<>>
    BY <1>6
  <1>8. Head(Items) = elem[t]
    <2>1. Head(Items) = Items[1] /\ 1 \in 1 .. size
      BY <1>6
    <2>2. Items[1] = data[SlotAfter(Head0, 1 - 1)]
      BY <1>6, <2>1
    <2>3. SlotAfter(Head0, 1 - 1) = Head0
      BY <1>3, <1>4, <1>6 DEF SlotAfter
    <2>4. QED
      BY <1>4, <2>1, <2>2, <2>3
  <1>9. Items' = [k \in 1 .. size - 1 |-> data[SlotAfter(SlotAfter(Head0, 1), k - 1)]]
    BY <1>2, <1>5 DEF Items, SlotAfter
  <1>10. \A k \in 1 .. size - 1 : SlotAfter(SlotAfter(Head0, 1), k - 1) = SlotAfter(Head0, k)
    <2>1. \A k \in 1 .. size - 1 : k - 1 \in 0 .. capacity - 1 /\ (k - 1) + 1 = k
      BY <1>6
    <2>2. QED
      BY <1>1, <2>1, SlotsDiffer DEF HeadRight
  <1>11. \A k \in 1 .. size - 1 : Items[k + 1] = data[SlotAfter(Head0, k)]
    <2>1. \A k \in 1 .. size - 1 : k + 1 \in 1 .. size /\ (k + 1) - 1 = k
      BY <1>6
    <2>2. QED
      BY <1>6, <2>1
  <1>12. Items' = [k \in 1 .. size - 1 |-> Items[k + 1]]
    BY <1>9, <1>10, <1>11
  <1>13. Tail(Items) = [k \in 1 .. size - 1 |-> Items[k + 1]]
    <2>1. /\ Tail(Items) \in Seq(Elements \cup {Garbage}) /\ Len(Tail(Items)) = size - 1
          /\ \A k \in 1 .. size - 1 : Tail(Items)[k] = Items[k + 1]
      BY <1>6, <1>7, HeadTailProperties
    <2>2. Tail(Items) \in [1 .. size - 1 -> Elements \cup {Garbage}]
      BY <2>1, LenProperties
    <2>3. QED
      BY <2>1, <2>2
  <1>14. QED
    BY <1>7, <1>8, <1>12, <1>13

-----------------------------------------------------------------------------
(* What the calls carry *)

\* The steps before a call has come to its outcome.
Undecided ==
  {"idle", "push_lock", "push_check", "push_lock_take", "push_recheck", "push_copy",
   "push_size", "take_check", "take_return", "take_lock", "take_recheck", "take_copy",
   "take_size"}

\* Once an element is copied, in or out, the slot and the thread agree on it.
Carries(t) ==
  /\ pc[t] \in Undecided => ~ result[t]
  /\ pc[t] = "push_size" => data[my_push[t]] = elem[t]
  /\ pc[t] = "take_size" => elem[t] = data[my_take[t]]

FifoInv ==
  /\ QInv
  /\ InitialCapacity <= capacity
  /\ \A t \in Threads : Carries(t)

\* The actions of Next, for one thread.
ThreadStep(t) ==
  \/ (\E e \in Elements : CallPush(t, e)) \/ CallTake(t)
  \/ cyclic_queue_push(t) \/ cyclic_queue_take(t)

\* No thread touches the local variables of another.
LEMMA OthersLocals ==
  ASSUME TypeOK, NEW t \in Threads, ThreadStep(t), NEW u \in Threads \ {t}
  PROVE  /\ pc'[u] = pc[u] /\ my_take'[u] = my_take[u] /\ my_push'[u] = my_push[u]
         /\ elem'[u] = elem[u] /\ result'[u] = result[u]
  <1> USE DEF Step, Goto, shared, TypeOK
  <1>1. CASE (\E e \in Elements : CallPush(t, e)) \/ CallTake(t)
    BY <1>1 DEF CallPush, CallTake
  <1>2. CASE \/ PushLock(t) \/ PushCheck(t) \/ PushLockTake(t) \/ PushRecheckRoom(t)
             \/ PushRefuse(t)
    BY <1>2 DEF PushLock, LockPush, PushCheck, PushLockTake, LockTake, PushRecheckRoom, PushRefuse
  <1>3. CASE PushGrow(t) \/ PushCopy(t) \/ PushSize(t) \/ PushUnlockTake(t) \/ PushUnlock(t)
    BY <1>3 DEF PushGrow, PushCopy, PushSize, PushUnlockTake, PushUnlock, Leave
  <1>4. CASE cyclic_queue_take(t)
    BY <1>4 DEF cyclic_queue_take, TakeCheck, TakeReturn, TakeLock, LockTake, TakeRecheck,
                TakeCopy, TakeSize, TakeUnlock, Leave
  <1>5. QED
    BY <1>1, <1>2, <1>3, <1>4 DEF ThreadStep, cyclic_queue_push

\* A slot is written by the thread that holds the push end, and only when it is free.
LEMMA OthersCarry ==
  ASSUME FifoInv, QInv', NEW t \in Threads, ThreadStep(t), NEW u \in Threads \ {t}
  PROVE  Carries(u)'
  <1>1. TypeOK /\ Locals /\ Holders /\ Room /\ Apart /\ Carries(u)
    BY DEF FifoInv, QInv
  <1>2. /\ pc'[u] = pc[u] /\ my_take'[u] = my_take[u] /\ my_push'[u] = my_push[u]
        /\ elem'[u] = elem[u] /\ result'[u] = result[u]
    BY <1>1, OthersLocals
  <1>3. CASE PushCopy(t)
    <2>1. /\ pc[t] = "push_copy" /\ data' = [data EXCEPT ![my_push[t]] = elem[t]]
      BY <1>3 DEF PushCopy, Step
    <2>2. my_push[t] # Locked /\ my_push[t] \in 0 .. capacity - 1 /\ size < capacity
      BY <1>1, <2>1 DEF Locals, HoldsPush, TypeOK, Room
    <2>3. pc[u] # "push_size"
      BY <1>1, <2>2 DEF Holders, Locals, HoldsPush
    <2>4. ASSUME pc[u] = "take_size" PROVE my_take[u] # my_push[t]
      <3>1. my_take[u] # Locked /\ my_take[u] \in 0 .. capacity - 1 /\ size > 0
        BY <1>1, <2>4 DEF Locals, HoldsTake, TypeOK, Room
      <3>2. my_push[t] = SlotAfter(my_take[u], size)
        BY <1>1, <2>2, <3>1 DEF Apart, TakeAt, PushAt
      <3> DEFINE i == my_take[u]
      <3>3. i \in 0 .. capacity - 1 /\ capacity \in Nat /\ size \in Nat
        BY <1>1, <3>1, CapacityAssumption DEF TypeOK
      <3> HIDE DEF i
      <3>4. SlotAfter(i, size) # i
        BY <2>2, <3>1, <3>3 DEF SlotAfter
      <3>5. QED
        BY <3>2, <3>4 DEF i
    <2>5. QED
      BY <1>1, <1>2, <2>1, <2>2, <2>3, <2>4 DEF Carries, TypeOK
  <1>4. CASE PushGrow(t)
    <2>1. my_push[t] # Locked /\ my_take[t] # Locked
      BY <1>1, <1>4 DEF PushGrow, Step, Locals, HoldsPush, HoldsTake
    <2>2. pc[u] # "push_size" /\ pc[u] # "take_size"
      BY <1>1, <2>1 DEF Holders, Locals, HoldsPush, HoldsTake
    <2>3. QED
      BY <1>1, <1>2, <2>2 DEF Carries
  <1>5. CASE ~ PushCopy(t) /\ ~ PushGrow(t)
    <2>1. data' = data
      <3>1. CASE (\E e \in Elements : CallPush(t, e)) \/ CallTake(t)
        BY <3>1 DEF CallPush, CallTake, shared
      <3>2. CASE cyclic_queue_push(t)
        BY <1>5, <3>2 DEF cyclic_queue_push, PushLock, LockPush, PushCheck, PushLockTake,
           LockTake, PushRecheckRoom, PushRefuse, PushSize, PushUnlockTake, PushUnlock, shared
      <3>3. CASE cyclic_queue_take(t)
        BY <3>3 DEF cyclic_queue_take, TakeCheck, TakeReturn, TakeLock, LockTake,
           TakeRecheck, TakeCopy, TakeSize, TakeUnlock, shared
      <3>4. QED
        BY <3>1, <3>2, <3>3 DEF ThreadStep
    <2>2. QED
      BY <1>1, <1>2, <2>1 DEF Carries
  <1>6. QED
    BY <1>3, <1>4, <1>5

\* The thread itself copies before it says so in size, and decides nothing before.
LEMMA ItselfCarries ==
  ASSUME FifoInv, QInv', NEW t \in Threads, ThreadStep(t)
  PROVE  Carries(t)'
  <1>1. TypeOK /\ Locals /\ Carries(t)
    BY DEF FifoInv, QInv
  <1>2. CASE PushCopy(t)
    <2>1. pc[t] = "push_copy" /\ pc'[t] = "push_size" /\ result'[t] = result[t]
          /\ my_push'[t] = my_push[t] /\ elem'[t] = elem[t]
          /\ data' = [data EXCEPT ![my_push[t]] = elem[t]]
      BY <1>1, <1>2 DEF PushCopy, Step, Goto, TypeOK
    <2>2. my_push[t] \in 0 .. capacity - 1
      BY <1>1, <2>1 DEF Locals, HoldsPush, TypeOK
    <2>3. QED
      BY <1>1, <2>1, <2>2 DEF Carries, Undecided, TypeOK
  <1>3. CASE TakeCopy(t)
    BY <1>1, <1>3 DEF TakeCopy, Step, Goto, TypeOK, Carries, Undecided, shared
  <1>4. CASE PushSize(t) \/ TakeSize(t) \/ PushUnlockTake(t)
    <2>1. pc'[t] \notin Undecided
      BY <1>1, <1>4 DEF PushSize, TakeSize, PushUnlockTake, Step, Goto, TypeOK, Undecided
    <2>2. QED
      BY <2>1 DEF Carries, Undecided
  <1>5. CASE PushUnlock(t) \/ TakeReturn(t) \/ TakeUnlock(t)
    BY <1>1, <1>5 DEF PushUnlock, TakeReturn, TakeUnlock, Leave, Goto, TypeOK, Carries, Undecided
  <1>6. CASE \/ (\E e \in Elements : CallPush(t, e)) \/ CallTake(t)
             \/ PushLock(t) \/ PushCheck(t) \/ PushLockTake(t) \/ PushRecheckRoom(t)
             \/ PushRefuse(t) \/ PushGrow(t)
             \/ TakeCheck(t) \/ TakeLock(t) \/ TakeRecheck(t)
    <2>1. pc[t] \in Undecided /\ result'[t] = result[t] /\ pc'[t] \notin {"push_size", "take_size"}
      <3>1. CASE (\E e \in Elements : CallPush(t, e)) \/ CallTake(t)
        BY <1>1, <3>1 DEF CallPush, CallTake, Step, Goto, TypeOK, Undecided
      <3>2. CASE PushLock(t) \/ PushCheck(t) \/ PushLockTake(t)
        BY <1>1, <3>2 DEF PushLock, LockPush, PushCheck, PushLockTake, LockTake, Step, Goto,
                          TypeOK, Undecided
      <3>3. CASE PushRecheckRoom(t) \/ PushRefuse(t) \/ PushGrow(t)
        BY <1>1, <3>3 DEF PushRecheckRoom, PushRefuse, PushGrow, Step, Goto, TypeOK, Undecided
      <3>4. CASE TakeCheck(t) \/ TakeLock(t) \/ TakeRecheck(t)
        BY <1>1, <3>4 DEF TakeCheck, TakeLock, LockTake, TakeRecheck, Step, Goto, TypeOK, Undecided
      <3>5. QED
        BY <1>6, <3>1, <3>2, <3>3, <3>4
    <2>2. QED
      BY <1>1, <2>1 DEF Carries
  <1>7. QED
    BY <1>2, <1>3, <1>4, <1>5, <1>6 DEF ThreadStep, cyclic_queue_push, cyclic_queue_take

\* capacity only grows.
LEMMA CapacityOnlyGrows ==
  ASSUME QInv, NEW t \in Threads, ThreadStep(t)
  PROVE  capacity <= capacity'
  <1>1. TypeOK /\ capacity \in Nat
    BY CapacityAssumption DEF QInv, TypeOK
  <1>2. CASE PushGrow(t)
    BY <1>1, <1>2, NewCapacityGrows, CapacityAssumption DEF PushGrow
  <1>3. CASE ~ PushGrow(t)
    <2>1. capacity' = capacity
      <3>1. CASE (\E e \in Elements : CallPush(t, e)) \/ CallTake(t)
        BY <3>1 DEF CallPush, CallTake, shared
      <3>2. CASE cyclic_queue_push(t)
        BY <1>3, <3>2 DEF cyclic_queue_push, PushLock, LockPush, PushCheck, PushLockTake,
           LockTake, PushRecheckRoom, PushRefuse, PushCopy, PushSize, PushUnlockTake,
           PushUnlock, shared
      <3>3. CASE cyclic_queue_take(t)
        BY <3>3 DEF cyclic_queue_take, TakeCheck, TakeReturn, TakeLock, LockTake,
           TakeRecheck, TakeCopy, TakeSize, TakeUnlock, shared
      <3>4. QED
        BY <3>1, <3>2, <3>3 DEF ThreadStep
    <2>2. QED
      BY <1>1, <2>1
  <1>4. QED
    BY <1>2, <1>3

\* After cyclic_queue_init no call carries anything.
LEMMA InitFifoInv == Init => FifoInv
  <1> SUFFICES ASSUME Init PROVE FifoInv
    OBVIOUS
  <1>1. InitialCapacity <= capacity
    BY CapacityAssumption DEF Init
  <1>2. \A t \in Threads : Carries(t)
    BY DEF Init, Carries
  <1>3. QED
    BY <1>1, <1>2, InitQInv DEF FifoInv

\* The thread that takes the step, and all the others.
LEMMA NextKeepsFifoInv == FifoInv /\ [Next]_vars => FifoInv'
  <1> SUFFICES ASSUME FifoInv, [Next]_vars PROVE FifoInv'
    OBVIOUS
  <1>1. QInv'
    BY NextKeepsQInv DEF FifoInv
  <1>2. CASE UNCHANGED vars
    BY <1>1, <1>2 DEF FifoInv, Carries, vars, shared, local
  <1>3. ASSUME NEW t \in Threads, ThreadStep(t) PROVE FifoInv'
    <2>1. \A u \in Threads : Carries(u)'
      BY <1>1, <1>3, OthersCarry, ItselfCarries
    <2>2. (InitialCapacity <= capacity)'
      <3>1. capacity \in Nat /\ capacity' \in Nat
        BY <1>1, CapacityAssumption DEF FifoInv, QInv, TypeOK
      <3>2. QED
        BY <1>3, <3>1, CapacityOnlyGrows, CapacityAssumption DEF FifoInv
    <2>3. QED
      BY <1>1, <2>1, <2>2 DEF FifoInv
  <1>4. QED
    BY <1>2, <1>3 DEF Next, ThreadStep

-----------------------------------------------------------------------------
(* The queue is linearisable *)

Calls == [t \in Threads |-> Progress(t)]

\* The outcomes of the calls, one thread at a time.
LEMMA CallBecomes ==
  ASSUME TypeOK, NEW t \in Threads, ThreadStep(t), NEW c, Progress(t)' = c
  PROVE  Calls' = [Calls EXCEPT ![t] = c]
  <1>1. \A u \in Threads \ {t} : Progress(u)' = Progress(u)
    <2>1. ASSUME NEW u \in Threads \ {t} PROVE Progress(u)' = Progress(u)
      <3>1. pc'[u] = pc[u] /\ elem'[u] = elem[u] /\ result'[u] = result[u]
        BY OthersLocals
      <3>2. QED
        BY <3>1 DEF Progress
    <2>2. QED
      BY <2>1
  <1>2. QED
    BY <1>1 DEF Calls

\* A step that changes neither the queue nor what a call has come to.
LEMMA Stutters ==
  ASSUME TypeOK, NEW t \in Threads, ThreadStep(t), Progress(t)' = Progress(t), Items' = Items
  PROVE  UNCHANGED Fifo!fvars
  <1>1. Calls' = Calls
    BY CallBecomes DEF Calls
  <1>2. QED
    BY <1>1 DEF Fifo!fvars, Calls

\* A call, a return, an outcome that leaves the queue alone, or none.
LEMMA QuietStepIsFifoStep ==
  ASSUME FifoInv, QInv', NEW t \in Threads, ThreadStep(t),
         \/ (\E e \in Elements : CallPush(t, e)) \/ CallTake(t)
         \/ PushLock(t) \/ PushCheck(t) \/ PushLockTake(t) \/ PushRecheckRoom(t) \/ PushRefuse(t)
         \/ PushUnlockTake(t) \/ PushUnlock(t)
         \/ TakeCheck(t) \/ TakeReturn(t) \/ TakeLock(t) \/ TakeRecheck(t) \/ TakeCopy(t)
         \/ TakeUnlock(t)
  PROVE  [Fifo!Next]_(Fifo!fvars)
  <1>1. TypeOK /\ Carries(t)
    BY DEF FifoInv, QInv
  <1>2. Items' = Items
    BY QuietStepKeepsItems DEF FifoInv
  <1>3. Calls[t] = Progress(t)
    BY DEF Calls
  <1> USE DEF Step, Goto, shared
  <1>4. ASSUME NEW e \in Elements, CallPush(t, e) PROVE Fifo!Next
    <2>1. Progress(t) = Outcome("none", Garbage) /\ Progress(t)' = Outcome("push", e)
      BY <1>1, <1>4 DEF CallPush, TypeOK, Progress
    <2>2. Fifo!CallPush(t, e)
      BY <1>1, <1>2, <1>3, <2>1, CallBecomes
         DEF Fifo!CallPush, Fifo!Becomes, Fifo!NoCall, Fifo!Call, Outcome, Calls
    <2>3. QED
      BY <2>2 DEF Fifo!Next
  <1>5. CASE CallTake(t)
    <2>1. Progress(t) = Outcome("none", Garbage) /\ Progress(t)' = Outcome("take", Garbage)
      BY <1>1, <1>5 DEF CallTake, TypeOK, Progress
    <2>2. Fifo!CallTake(t)
      BY <1>1, <1>2, <1>3, <2>1, CallBecomes
         DEF Fifo!CallTake, Fifo!Becomes, Fifo!NoCall, Fifo!Call, Outcome, Calls
    <2>3. QED
      BY <2>2 DEF Fifo!Next
  <1>6. CASE PushUnlock(t) \/ TakeReturn(t) \/ TakeUnlock(t)
    <2>1. Progress(t).what \in {"pushed", "refused", "took", "empty"}
      BY <1>6 DEF PushUnlock, TakeReturn, TakeUnlock, Progress, Outcome
    <2>2. Progress(t)' = Outcome("none", Garbage)
      BY <1>1, <1>6 DEF PushUnlock, TakeReturn, TakeUnlock, Leave, Progress, TypeOK
    <2>3. Fifo!Return(t)
      BY <1>1, <1>2, <1>3, <2>1, <2>2, CallBecomes
         DEF Fifo!Return, Fifo!Becomes, Fifo!NoCall, Fifo!Call, Outcome, Calls
    <2>4. QED
      BY <2>3 DEF Fifo!Next
  <1>7. CASE PushRefuse(t)
    <2>1. Progress(t).what = "push" /\ Progress(t)' = Outcome("refused", Garbage)
      BY <1>1, <1>7 DEF PushRefuse, TypeOK, Progress, Outcome, Carries, Undecided
    <2>2. Len(Items) = capacity /\ capacity \in Nat /\ capacity \in InitialCapacity .. MaxCapacity
      BY <1>7, <1>1, ItemsType, CapacityAssumption DEF FifoInv, PushRefuse, TypeOK
    <2>3. AllocMayFail \/ capacity = MaxCapacity
      BY <1>7, <2>2, CapacityAssumption DEF PushRefuse, NewCapacity, MIN
    <2>4. Fifo!Refuse(t)
      <3>1. Len(Items) \in IF AllocMayFail THEN InitialCapacity .. MaxCapacity ELSE {MaxCapacity}
        BY <2>2, <2>3
      <3>2. Calls' = [Calls EXCEPT ![t] = Outcome("refused", Garbage)]
        BY <1>1, <2>1, CallBecomes
      <3>3. Calls[t].what = "push"
        BY <1>3, <2>1
      <3>4. QED
        BY <1>2, <3>1, <3>2, <3>3 DEF Fifo!Refuse, Fifo!Becomes, Fifo!Call, Outcome, Calls
    <2>5. QED
      BY <2>4 DEF Fifo!Next
  <1>8. CASE (TakeCheck(t) \/ TakeRecheck(t)) /\ size = 0
    <2>1. Progress(t).what = "take" /\ Progress(t)' = Outcome("empty", Garbage)
      BY <1>1, <1>8 DEF TakeCheck, TakeRecheck, TypeOK, Progress, Outcome, Carries, Undecided
    <2>2. Items = <<>>
      BY <1>8, ItemsType DEF FifoInv
    <2>3. Fifo!Empty(t)
      BY <1>1, <1>2, <1>3, <2>1, <2>2, CallBecomes
         DEF Fifo!Empty, Fifo!Becomes, Fifo!Call, Outcome, Calls
    <2>4. QED
      BY <2>3 DEF Fifo!Next
  <1>9. CASE \/ PushLock(t) \/ PushCheck(t) \/ PushLockTake(t) \/ PushRecheckRoom(t)
             \/ PushUnlockTake(t)
    <2>1. Progress(t)' = Progress(t)
      BY <1>1, <1>9 DEF PushLock, LockPush, PushCheck, PushLockTake, LockTake,
         PushRecheckRoom, PushUnlockTake, TypeOK, Progress
    <2>2. QED
      BY <1>1, <1>2, <2>1, Stutters
  <1>10. CASE \/ (TakeCheck(t) \/ TakeRecheck(t)) /\ size # 0
              \/ TakeLock(t) \/ TakeCopy(t)
    <2>1. Progress(t)' = Progress(t)
      BY <1>1, <1>10 DEF TakeCheck, TakeRecheck, TakeLock, LockTake, TakeCopy, TypeOK, Progress
    <2>2. QED
      BY <1>1, <1>2, <2>1, Stutters
  <1>11. QED
    BY <1>4, <1>5, <1>6, <1>7, <1>8, <1>9, <1>10

\* The fetch_add and the fetch_sub are where a push and a take take effect.
LEMMA SizeStepIsFifoStep ==
  ASSUME FifoInv, QInv', NEW t \in Threads, ThreadStep(t), PushSize(t) \/ TakeSize(t)
  PROVE  Fifo!Next
  <1>1. TypeOK /\ Carries(t) /\ QInv
    BY DEF FifoInv, QInv
  <1>2. Calls[t] = Progress(t)
    BY DEF Calls
  <1>3. CASE PushSize(t)
    <2>1. Progress(t) = Outcome("push", elem[t]) /\ Progress(t)' = Outcome("pushed", Garbage)
      BY <1>1, <1>3 DEF PushSize, Step, Goto, TypeOK, Progress
    <2>2. Items' = Append(Items, elem[t])
      BY <1>1, <1>3, PushSizeAppends DEF Carries, PushSize, Step
    <2>3. Fifo!Push(t)
      BY <1>1, <1>2, <2>1, <2>2, CallBecomes
         DEF Fifo!Push, Fifo!Becomes, Fifo!Call, Outcome, Calls
    <2>4. QED
      BY <2>3 DEF Fifo!Next
  <1>4. CASE TakeSize(t)
    <2>1. Progress(t) = Outcome("take", Garbage) /\ Progress(t)' = Outcome("took", elem[t])
      BY <1>1, <1>4 DEF TakeSize, Step, Goto, TypeOK, Progress
    <2>2. Items # <<>> /\ Items' = Tail(Items) /\ Head(Items) = elem[t]
      BY <1>1, <1>4, TakeSizeRemoves DEF Carries, TakeSize, Step
    <2>3. Fifo!Take(t)
      BY <1>1, <1>2, <2>1, <2>2, CallBecomes
         DEF Fifo!Take, Fifo!Becomes, Fifo!Call, Outcome, Calls
    <2>4. QED
      BY <2>3 DEF Fifo!Next
  <1>5. QED
    BY <1>3, <1>4

\* Copying an element and moving the region are invisible.
LEMMA CopyIsStutter ==
  ASSUME FifoInv, QInv', NEW t \in Threads, ThreadStep(t), PushCopy(t) \/ PushGrow(t)
  PROVE  UNCHANGED Fifo!fvars
  <1>1. TypeOK /\ QInv
    BY DEF FifoInv, QInv
  <1>2. Items' = Items
    BY <1>1, PushCopyKeepsItems, PushGrowKeepsItems
  <1>3. Progress(t)' = Progress(t)
    BY <1>1 DEF PushCopy, PushGrow, Step, Goto, TypeOK, Progress
  <1>4. QED
    BY <1>1, <1>2, <1>3, Stutters

\* Every step of the queue is one of FifoQueue, or a stutter.
LEMMA StepIsFifoStep ==
  ASSUME FifoInv, [Next]_vars
  PROVE  [Fifo!Next]_(Fifo!fvars)
  <1>1. QInv'
    BY NextKeepsQInv DEF FifoInv
  <1>2. CASE UNCHANGED vars
    BY <1>2 DEF vars, shared, local, Fifo!fvars, Items, SlotAfter, Head0, HoldsTake, Progress
  <1>3. ASSUME NEW t \in Threads, ThreadStep(t) PROVE [Fifo!Next]_(Fifo!fvars)
    <2>1. CASE PushCopy(t) \/ PushGrow(t)
      BY <1>1, <1>3, <2>1, CopyIsStutter
    <2>2. CASE PushSize(t) \/ TakeSize(t)
      BY <1>1, <1>3, <2>2, SizeStepIsFifoStep
    <2>3. QED
      BY <1>1, <1>3, <2>1, <2>2, QuietStepIsFifoStep
         DEF ThreadStep, cyclic_queue_push, cyclic_queue_take
  <1>4. QED
    BY <1>2, <1>3 DEF Next, ThreadStep

\* A fresh queue is an empty FifoQueue.
LEMMA InitIsFifoInit == Init => Fifo!Init
  <1> SUFFICES ASSUME Init PROVE Fifo!Init
    OBVIOUS
  <1>1. Items = <<>>
    BY InitQInv, ItemsType DEF Init
  <1>2. \A t \in Threads : Progress(t) = Outcome("none", Garbage)
    BY DEF Init, Progress
  <1>3. QED
    BY <1>1, <1>2 DEF Fifo!Init, Fifo!NoCall, Fifo!Call, Outcome

(***************************************************************************)
(* Between its copy and its change of size, a push or take carries what is *)
(* in the slot it has copied to or from.                                   *)
(***************************************************************************)
THEOREM FifoInvariance == Spec => []FifoInv
  BY InitFifoInv, NextKeepsFifoInv, PTL DEF Spec

(***************************************************************************)
(* For any number of threads and any capacities, the cyclic queue is a     *)
(* first-in first-out queue on which each push and each take happens at    *)
(* one instant: nothing is lost, doubled or overtaken, whichever thread    *)
(* holds which lock, and growing the region does not show.                 *)
(***************************************************************************)
THEOREM QueueIsFifo == Spec => ImplementsFifo
  <1>1. FifoInv /\ [Next]_vars => [Fifo!Next]_(Fifo!fvars)
    BY StepIsFifoStep
  <1>2. QED
    BY <1>1, InitIsFifoInit, FifoInvariance, PTL DEF Spec, ImplementsFifo, Fifo!Spec

=============================================================================
