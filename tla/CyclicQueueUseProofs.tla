------------------------ MODULE CyclicQueueUseProofs ------------------------
(***************************************************************************)
(* Proofs about what surrounds the steps of cyclic_queue.c, for any number *)
(* of threads and any capacities: the memory orders of its atomics         *)
(* (CyclicQueueOrder), the life of a queue from one init to the next       *)
(* (QueueLifecycle), and the producers and consumers of its test program   *)
(* (QueueWorkload).  They rest on the invariants of CyclicQueueProofs; the *)
(* assumptions of each of the three modules are about its own constants,   *)
(* and those of the others can always be given values that satisfy theirs. *)
(***************************************************************************)
EXTENDS CyclicQueueOrder, QueueLifecycle, QueueWorkload, CyclicQueueProofs,
        FiniteSetTheorems

-----------------------------------------------------------------------------
(***************************************************************************)
(* The invariant.  Each index is in one place: shared, or a local variable *)
(* of the thread that has locked it.  Whoever copied a slot held one of    *)
(* the two indexes, and passed what it did on with that index; so nothing  *)
(* can be behind both the place of the push index and that of the take     *)
(* index.  A push about to grow the region is both of these places.        *)
(***************************************************************************)
PushPlaces ==
  {u \in Threads : my_push[u] # Locked} \cup {x \in {"push_idx"} : push_idx # Locked}

TakePlaces ==
  {u \in Threads : my_take[u] # Locked} \cup {x \in {"take_idx"} : take_idx # Locked}

ViewsApart == \A x \in PushPlaces, y \in TakePlaces : behind[x] \cap behind[y] = {}

\* A step forgets nothing about an end of the queue.
PushFollows == \A x \in PushPlaces' : \E y \in PushPlaces : behind'[x] \subseteq behind[y]
TakeFollows == \A x \in TakePlaces' : \E y \in TakePlaces : behind'[x] \subseteq behind[y]

\* Nothing is behind two places that follow places with nothing in common.
LEMMA FollowingKeepsViews ==
  ASSUME ViewsApart, PushFollows, TakeFollows
  PROVE  ViewsApart'
  BY DEF ViewsApart, PushFollows, TakeFollows

\* The place of a locked index is the thread that has locked it.
LEMMA HolderIsPlace ==
  ASSUME QInv, NEW t \in Threads
  PROVE  /\ my_push[t] # Locked => PushPlaces = {t}
         /\ my_take[t] # Locked => TakePlaces = {t}
  BY DEF QInv, Holders, PushPlaces, TakePlaces

\* Nothing has been copied yet.
LEMMA InitViews == OInit => ViewsApart
  BY DEF OInit, Init, ViewsApart, PushPlaces, TakePlaces, Atomics

-----------------------------------------------------------------------------
(* What a step does to behind *)

\* What a step that neither copies nor grows makes of behind.
LEMMA PlainStep ==
  ASSUME NEW t \in Threads, Synchronize(t), ~Grows, Copies(t) = {}
  PROVE  /\ behind'[t] \subseteq behind[t]
         /\ \A v \in Acquires(t) : behind'[t] \subseteq behind[v]
         /\ \A x \in (Threads \cup {"push_idx", "take_idx"}) \ {t} :
              behind'[x] = IF x \in Releases(t) THEN behind[t] ELSE behind[x]
  BY NamesAssumption DEF Synchronize, Atomics

\* Reading size, or writing a local variable, leaves the indexes where they are.
LEMMA LocalStepKeepsViews ==
  ASSUME QInv, ViewsApart, NEW t \in Threads, Synchronize(t), ~Grows, Copies(t) = {},
         Releases(t) \subseteq {"size"},
         UNCHANGED <<push_idx, take_idx>>,
         \A u \in Threads : /\ my_push'[u] # Locked => my_push[u] # Locked
                            /\ my_take'[u] # Locked => my_take[u] # Locked
  PROVE  ViewsApart'
  <1>1. \A x \in Threads \cup {"push_idx", "take_idx"} : behind'[x] \subseteq behind[x]
    BY PlainStep, NamesAssumption DEF Atomics
  <1>2. PushFollows /\ TakeFollows
    BY <1>1 DEF PushFollows, TakeFollows, PushPlaces, TakePlaces
  <1>3. QED
    BY <1>2, FollowingKeepsViews

\* The CAS of __LOCK_IDX brings the index, and what was released with it.
LEMMA LockKeepsViews ==
  ASSUME QInv, ViewsApart, NEW t \in Threads, Synchronize(t),
         PushLock(t) \/ PushLockTake(t) \/ TakeLock(t)
  PROVE  ViewsApart'
  <1>1. ~Grows /\ Copies(t) = {} /\ Releases(t) = {}
    BY DEF PushLock, PushLockTake, TakeLock, Step, LockPush, LockTake, Grows, Copies, Releases
  <1>2. \A x \in Threads \cup {"push_idx", "take_idx"} : behind'[x] \subseteq behind[x]
    BY <1>1, PlainStep, NamesAssumption DEF Atomics
  <1>3. CASE PushLock(t)
    <2>1. behind'[t] \subseteq behind["push_idx"]
      BY <1>1, <1>3, PlainStep DEF PushLock, Step, Acquires
    <2>2. "push_idx" \in PushPlaces
      BY <1>3 DEF PushLock, LockPush, PushPlaces
    <2>3. /\ PushPlaces' \subseteq PushPlaces \cup {t}
          /\ TakePlaces' = TakePlaces
      BY <1>3 DEF QInv, TypeOK, PushLock, LockPush, PushPlaces, TakePlaces
    <2>4. PushPlaces \cup TakePlaces \subseteq Threads \cup {"push_idx", "take_idx"}
      BY DEF PushPlaces, TakePlaces
    <2>5. QED
      BY <1>2, <2>1, <2>2, <2>3, <2>4, FollowingKeepsViews DEF PushFollows, TakeFollows
  <1>4. CASE PushLockTake(t) \/ TakeLock(t)
    <2>1. behind'[t] \subseteq behind["take_idx"]
      BY <1>1, <1>4, PlainStep DEF PushLockTake, TakeLock, Step, Acquires
    <2>2. "take_idx" \in TakePlaces
      BY <1>4 DEF PushLockTake, TakeLock, LockTake, TakePlaces
    <2>3. /\ TakePlaces' \subseteq TakePlaces \cup {t}
          /\ PushPlaces' = PushPlaces
      BY <1>4 DEF QInv, TypeOK, PushLockTake, TakeLock, LockTake, PushPlaces, TakePlaces
    <2>4. PushPlaces \cup TakePlaces \subseteq Threads \cup {"push_idx", "take_idx"}
      BY DEF PushPlaces, TakePlaces
    <2>5. QED
      BY <1>2, <2>1, <2>2, <2>3, <2>4, FollowingKeepsViews DEF PushFollows, TakeFollows
  <1>5. QED
    BY <1>3, <1>4

\* __UNLOCK_IDX hands the index back with all its holder knows.
LEMMA UnlockKeepsViews ==
  ASSUME QInv, ViewsApart, NEW t \in Threads, Synchronize(t),
         PushUnlock(t) \/ PushUnlockTake(t) \/ TakeUnlock(t)
  PROVE  ViewsApart'
  <1> USE DEF Step, Goto, Leave
  <1>1. ~Grows /\ Copies(t) = {}
    BY DEF PushUnlock, PushUnlockTake, TakeUnlock, Grows, Copies
  <1>2. behind'[t] \subseteq behind[t] /\ t \notin {"push_idx", "take_idx"}
    BY <1>1, PlainStep, NamesAssumption DEF Atomics
  <1>3. CASE PushUnlock(t)
    <2>1. Releases(t) = {"push_idx"} /\ HoldsPush(t)
      BY <1>3 DEF PushUnlock, Releases, HoldsPush
    <2>2. t \in PushPlaces
      BY <2>1 DEF QInv, Locals, PushPlaces
    <2>3. /\ behind'["push_idx"] = behind[t]
          /\ \A x \in (Threads \cup {"take_idx"}) \ {t} : behind'[x] = behind[x]
      BY <1>1, <1>2, <2>1, PlainStep, NamesAssumption DEF Atomics
    <2>4. /\ PushPlaces' \subseteq PushPlaces \cup {"push_idx"}
          /\ TakePlaces' \subseteq TakePlaces
      BY <1>3 DEF QInv, TypeOK, PushUnlock, PushPlaces, TakePlaces
    <2>5. PushPlaces \subseteq Threads \cup {"push_idx"} /\ TakePlaces \subseteq Threads \cup {"take_idx"}
      BY DEF PushPlaces, TakePlaces
    <2>6. QED
      BY <1>2, <2>2, <2>3, <2>4, <2>5, FollowingKeepsViews DEF PushFollows, TakeFollows
  <1>4. CASE PushUnlockTake(t) \/ TakeUnlock(t)
    <2>1. Releases(t) = {"take_idx"} /\ HoldsTake(t)
      BY <1>4 DEF PushUnlockTake, TakeUnlock, Releases, HoldsTake
    <2>2. t \in TakePlaces
      BY <2>1 DEF QInv, Locals, TakePlaces
    <2>3. /\ behind'["take_idx"] = behind[t]
          /\ \A x \in (Threads \cup {"push_idx"}) \ {t} : behind'[x] = behind[x]
      BY <1>1, <1>2, <2>1, PlainStep, NamesAssumption DEF Atomics
    <2>4. /\ TakePlaces' \subseteq TakePlaces \cup {"take_idx"}
          /\ PushPlaces' \subseteq PushPlaces
      BY <1>4 DEF QInv, TypeOK, PushUnlockTake, TakeUnlock, PushPlaces, TakePlaces
    <2>5. PushPlaces \subseteq Threads \cup {"push_idx"} /\ TakePlaces \subseteq Threads \cup {"take_idx"}
      BY DEF PushPlaces, TakePlaces
    <2>6. QED
      BY <1>2, <2>2, <2>3, <2>4, <2>5, FollowingKeepsViews DEF PushFollows, TakeFollows
  <1>5. QED
    BY <1>3, <1>4

\* A copy into or out of a slot is known at the end of the queue it is done at.
LEMMA CopyKeepsViews ==
  ASSUME QInv, ViewsApart, NEW t \in Threads, Synchronize(t), PushCopy(t) \/ TakeCopy(t)
  PROVE  ViewsApart'
  <1>1. ~Grows /\ Acquires(t) = {} /\ Releases(t) = {}
    BY DEF PushCopy, TakeCopy, shared, Step, Grows, Acquires, Releases
  <1>2. /\ behind'[t] = behind[t] \ Copies(t)
        /\ \A x \in (Threads \cup {"push_idx", "take_idx"}) \ {t} :
             behind'[x] = behind[x] \cup Copies(t)
    BY <1>1, NamesAssumption DEF Synchronize, Atomics
  <1>3. PushPlaces' = PushPlaces /\ TakePlaces' = TakePlaces
    BY DEF PushCopy, TakeCopy, shared, PushPlaces, TakePlaces
  <1>4. PushPlaces \cup TakePlaces \subseteq Threads \cup {"push_idx", "take_idx"}
    BY DEF PushPlaces, TakePlaces
  <1>5. \A x \in PushPlaces \cup TakePlaces : behind'[x] \subseteq behind[x] \cup Copies(t)
    BY <1>2, <1>4
  <1>6. CASE PushCopy(t)
    <2>1. PushPlaces = {t}
      BY <1>6, HolderIsPlace DEF PushCopy, Step, QInv, Locals, HoldsPush
    <2>2. QED
      BY <1>2, <1>3, <1>5, <2>1 DEF ViewsApart
  <1>7. CASE TakeCopy(t)
    <2>1. TakePlaces = {t}
      BY <1>7, HolderIsPlace DEF TakeCopy, Step, QInv, Locals, HoldsTake
    <2>2. QED
      BY <1>2, <1>3, <1>5, <2>1 DEF ViewsApart
  <1>8. QED
    BY <1>6, <1>7

\* A push that grows the region holds both indexes and has moved every element.
LEMMA GrowKeepsViews ==
  ASSUME QInv, ViewsApart, NEW t \in Threads, Synchronize(t), PushGrow(t)
  PROVE  ViewsApart'
  <1>1. behind'[t] = {}
    BY DEF Synchronize, PushGrow, Grows
  <1>2. HoldsPush(t) /\ HoldsTake(t)
    BY DEF PushGrow, Step, HoldsPush, HoldsTake
  <1>3. PushPlaces = {t}
    BY <1>2, HolderIsPlace DEF QInv, Locals
  <1>4. PushPlaces' \subseteq {t}
    BY <1>3 DEF QInv, TypeOK, PushGrow, PushPlaces
  <1>5. QED
    BY <1>1, <1>4 DEF ViewsApart

\* Every other step touches only the thread's own variables and size.
LEMMA OtherKeepsViews ==
  ASSUME QInv, ViewsApart, NEW t \in Threads, Synchronize(t),
         \/ \E e \in Elements : CallPush(t, e)
         \/ CallTake(t) \/ TakeCheck(t) \/ TakeReturn(t) \/ TakeRecheck(t) \/ TakeSize(t)
         \/ PushCheck(t) \/ PushRecheckRoom(t) \/ PushRefuse(t) \/ PushSize(t)
  PROVE  ViewsApart'
  <1> USE DEF CallPush, CallTake, TakeCheck, TakeReturn, TakeRecheck, TakeSize, PushCheck,
              PushRecheckRoom, PushRefuse, PushSize, Step, Goto
  <1>1. ~Grows /\ UNCHANGED <<push_idx, take_idx>>
    BY DEF shared, Grows
  <1>2. Copies(t) = {} /\ Releases(t) \subseteq {"size"}
    BY DEF Copies, Releases
  <1>3. \A u \in Threads : /\ my_push'[u] # Locked => my_push[u] # Locked
                           /\ my_take'[u] # Locked => my_take[u] # Locked
    <2>1. CASE PushSize(t) \/ TakeSize(t)
      BY <2>1 DEF QInv, TypeOK, Locals, HoldsPush, HoldsTake
    <2>2. CASE TakeReturn(t)
      BY <2>2 DEF QInv, TypeOK, Leave
    <2>3. QED
      BY <2>1, <2>2
  <1>4. QED
    BY <1>1, <1>2, <1>3, LocalStepKeepsViews

\* One case per kind of step.
LEMMA NextKeepsViews == QInv /\ ViewsApart /\ [ONext]_ovars => ViewsApart'
  <1>1. ASSUME QInv, ViewsApart, ONext PROVE ViewsApart'
    <2>1. PICK t \in Threads :
            /\ \/ \E e \in Elements : CallPush(t, e)
               \/ CallTake(t) \/ cyclic_queue_push(t) \/ cyclic_queue_take(t)
            /\ Synchronize(t)
      BY <1>1 DEF ONext
    <2>2. QED
      BY <1>1, <2>1, LockKeepsViews, UnlockKeepsViews, CopyKeepsViews, GrowKeepsViews,
         OtherKeepsViews DEF cyclic_queue_push, cyclic_queue_take
  <1>2. ASSUME ViewsApart, UNCHANGED ovars PROVE ViewsApart'
    BY <1>2 DEF ovars, vars, shared, local, ViewsApart, PushPlaces, TakePlaces
  <1>3. QED
    BY <1>1, <1>2

-----------------------------------------------------------------------------
(* Theorems *)

(***************************************************************************)
(* A push that has both locks and is about to look at size and to replace  *)
(* the region comes after every copy into the region and out of it: the    *)
(* free of the old region can tear nothing away, for any number of         *)
(* threads.  The relaxed operations of a take on size do not matter,       *)
(* because the lock of the take end orders what they do not.               *)
(***************************************************************************)
THEOREM GrowIsSynchronized == OSpec => []GrowSynchronized
  <1>1. OInit => QInv /\ ViewsApart
    BY InitQInv, InitViews DEF OInit
  <1>2. QInv /\ ViewsApart /\ [ONext]_ovars => (QInv /\ ViewsApart)'
    <2>1. ONext => Next
      BY DEF ONext, Next
    <2>2. QED
      BY <2>1, NextKeepsQInv, NextKeepsViews DEF ovars
  <1>3. ASSUME QInv, ViewsApart PROVE GrowSynchronized
    <2>1. SUFFICES ASSUME NEW t \in Threads, pc[t] = "push_recheck" PROVE behind[t] = {}
      BY DEF GrowSynchronized
    <2>2. HoldsPush(t) /\ HoldsTake(t)
      BY <2>1 DEF HoldsPush, HoldsTake
    <2>3. t \in PushPlaces /\ t \in TakePlaces
      BY <1>3, <2>2 DEF QInv, Locals, PushPlaces, TakePlaces
    <2>4. QED
      BY <1>3, <2>3 DEF ViewsApart
  <1>4. QED
    BY <1>1, <1>2, <1>3, PTL DEF OSpec

-----------------------------------------------------------------------------
(* The life of a queue *)

\* Where the threads get to in a queue of capacity 0, which is full and empty at once.
TurnedAway ==
  {"idle", "push_lock", "push_check", "push_lock_take", "push_recheck",
   "push_unlock_take", "push_unlock", "take_check", "take_return"}

Blank == capacity = 0 /\ size = 0 /\ pc \in [Threads -> TurnedAway]

LifeInv ==
  /\ data_ptr \in Regions \cup {NULL}
  /\ allocated = [r \in Regions |-> IF r = data_ptr THEN capacity ELSE 0]
  /\ IF data_ptr = NULL THEN Blank ELSE QInv
  /\ ~ initialized => data_ptr = NULL /\ NobodyThere

\* A struct with a region and nobody inside, after a successful cyclic_queue_init.
LEMMA FreshQInv ==
  ASSUME NobodyThere', NEW slots \in Nat \ {0}, slots <= MaxCapacity, capacity' = slots,
         data' = [i \in 0 .. slots - 1 |-> Garbage],
         size' = 0, take_idx' = 0, push_idx' = 0
  PROVE  QInv'
  <1> USE CapacityAssumption DEF NobodyThere
  <1>1. TypeOK'
    <2>1. slots \in 1 .. MaxCapacity
      OBVIOUS
    <2>2. 0 \in 0 .. slots - 1
      OBVIOUS
    <2>3. data' \in [0 .. slots - 1 -> Elements \cup {Garbage}]
      OBVIOUS
    <2>4. size' \in 0 .. slots
      OBVIOUS
    <2>5. /\ my_take' \in [Threads -> {Locked}] /\ my_push' \in [Threads -> {Locked}]
          /\ pc' \in [Threads -> {"idle"}] /\ elem' \in [Threads -> {Garbage}]
          /\ result' \in [Threads -> {FALSE}]
      OBVIOUS
    <2>6. QED
      BY <2>1, <2>2, <2>3, <2>4, <2>5 DEF TypeOK
  <1>2. Locals'
    BY DEF Locals, HoldsPush, HoldsTake
  <1>3. Holders'
    BY DEF Holders, Locked
  <1>4. Room'
    BY DEF Room
  <1>5. Apart'
    <2>1. \A i \in 0 .. slots - 1 : i # Locked
      BY DEF Locked
    <2>2. \A i \in 0 .. slots - 1 : (TakeAt(i)' <=> i = 0) /\ (PushAt(i)' <=> i = 0)
      BY <2>1 DEF TakeAt, PushAt
    <2>3. SlotAfter(0, size)' = 0
      <3>1. ~ (0 + 0 >= slots) /\ 0 + 0 = 0
        OBVIOUS
      <3>2. QED
        BY <3>1 DEF SlotAfter
    <2>4. QED
      BY <2>2, <2>3 DEF Apart
  <1>6. QED
    BY <1>1, <1>2, <1>3, <1>4, <1>5 DEF QInv

\* Before cyclic_queue_init.
LEMMA InitLifeInv == LInit => LifeInv
  <1> SUFFICES ASSUME LInit PROVE LifeInv
    OBVIOUS
  <1>1. allocated = [r \in Regions |-> IF r = data_ptr THEN capacity ELSE 0]
    BY DEF LInit
  <1>2. Blank
    BY DEF LInit, NobodyThere, Blank, TurnedAway
  <1>3. QED
    BY <1>1, <1>2 DEF LInit, LifeInv

\* The checks of cyclic_queue_push and cyclic_queue_take turn everyone away.
LEMMA BlankStaysBlank ==
  ASSUME Blank, Next PROVE Blank' /\ capacity' = capacity
  <1> PICK t \in Threads : \/ \E e \in Elements : CallPush(t, e)
                           \/ CallTake(t)
                           \/ cyclic_queue_push(t)
                           \/ cyclic_queue_take(t)
    BY DEF Next
  <1>1. NewCapacity = capacity
    BY CapacityAssumption DEF Blank, NewCapacity, MIN
  <1>2. /\ capacity = 0 /\ size = 0 /\ pc \in [Threads -> TurnedAway]
    BY DEF Blank
  <1>3. CASE (\E e \in Elements : CallPush(t, e)) \/ CallTake(t)
    BY <1>2, <1>3 DEF CallPush, CallTake, Step, Goto, shared, Blank, TurnedAway
  <1>4. CASE cyclic_queue_push(t)
    <2>1. ~ PushGrow(t) /\ ~ PushRecheckRoom(t)
      BY <1>1, <1>2 DEF PushGrow, PushRecheckRoom
    <2>2. ~ PushCopy(t) /\ ~ PushSize(t)
      BY <1>2 DEF PushCopy, PushSize, Step, TurnedAway
    <2>3. QED
      BY <1>2, <1>4, <2>1, <2>2 DEF cyclic_queue_push, PushLock, LockPush, PushCheck, PushLockTake,
        LockTake, PushRefuse, PushUnlockTake, PushUnlock, Leave, Step, Goto, shared, Blank,
        TurnedAway
  <1>5. CASE cyclic_queue_take(t)
    <2>1. TakeCheck(t) \/ TakeReturn(t)
      BY <1>2, <1>5 DEF cyclic_queue_take, TakeLock, TakeRecheck, TakeCopy, TakeSize, TakeUnlock,
                        Step, TurnedAway
    <2>2. QED
      BY <1>2, <2>1 DEF TakeCheck, TakeReturn, Leave, Step, Goto, shared, Blank, TurnedAway
  <1>6. QED
    BY <1>3, <1>4, <1>5

\* cyclic_queue_init, whether it fails or not.
LEMMA InitKeepsLifeInv == ASSUME LifeInv, cyclic_queue_init PROVE LifeInv'
  <1>1. /\ data_ptr = NULL /\ NobodyThere /\ Blank
        /\ allocated = [r \in Regions |-> 0]
        /\ initialized' = TRUE
    BY DEF LifeInv, cyclic_queue_init, InitFails, InitSucceeds, Blank
  <1>2. CASE InitFails
    <2>1. data_ptr' = NULL /\ capacity' = 0 /\ size' = 0 /\ pc' = pc /\ allocated' = allocated
      BY <1>2 DEF InitFails, Zeroed, NothingIn, local
    <2>2. QED
      BY <1>1, <2>1 DEF LifeInv, Blank
  <1>3. CASE InitSucceeds
    <2>1. PICK asked \in Asked, r \in Regions :
            /\ MAX(asked, InitialCapacity) <= MaxCapacity
            /\ NothingIn(r, MAX(asked, InitialCapacity))
            /\ allocated' = [allocated EXCEPT ![r] = capacity']
      BY <1>3 DEF InitSucceeds
    <2>2. PICK slots \in Nat \ {0} : slots = MAX(asked, InitialCapacity)
      BY CapacityAssumption, LifecycleAssumption DEF MAX
    <2>3. NobodyThere'
      BY <1>1, <2>1 DEF NothingIn, NobodyThere, local
    <2>4. /\ data_ptr' = r /\ r # NULL /\ capacity' = slots /\ slots <= MaxCapacity
          /\ data' = [i \in 0 .. slots - 1 |-> Garbage]
          /\ size' = 0 /\ take_idx' = 0 /\ push_idx' = 0
      BY <2>1, <2>2, LifecycleAssumption DEF NothingIn
    <2>5. QInv'
      BY <2>3, <2>4, FreshQInv
    <2>6. allocated' = [s \in Regions |-> IF s = data_ptr' THEN capacity' ELSE 0]
      BY <1>1, <2>1, <2>4
    <2>7. QED
      BY <1>1, <2>4, <2>5, <2>6 DEF LifeInv
  <1>4. QED
    BY <1>2, <1>3 DEF cyclic_queue_init

\* Freeing the region there is leaves none.
LEMMA FreedAll == ASSUME LifeInv PROVE Freed = [r \in Regions |-> 0]
  <1>1. CASE data_ptr = NULL
    <2>1. \A r \in Regions : r # data_ptr
      BY <1>1, LifecycleAssumption
    <2>2. QED
      BY <1>1, <2>1 DEF LifeInv, Freed
  <1>2. CASE data_ptr # NULL
    BY <1>2 DEF LifeInv, Freed
  <1>3. QED
    BY <1>1, <1>2

\* A push or a take, which may move the queue to another region.
LEMMA UseKeepsLifeInv == ASSUME LifeInv, Use PROVE LifeInv'
  <1>1. Next /\ initialized /\ initialized' = initialized
        /\ IF capacity' # capacity THEN Move ELSE UNCHANGED <<data_ptr, allocated>>
    BY DEF Use
  <1>2. CASE data_ptr = NULL
    <2>1. Blank' /\ capacity' = capacity
      BY <1>1, <1>2, BlankStaysBlank DEF LifeInv
    <2>2. QED
      BY <1>1, <1>2, <2>1 DEF LifeInv
  <1>3. CASE data_ptr # NULL
    <2>1. QInv'
      BY <1>1, <1>3, NextKeepsQInv DEF LifeInv
    <2>2. CASE capacity' = capacity
      BY <1>1, <1>3, <2>1, <2>2 DEF LifeInv
    <2>3. CASE capacity' # capacity
      <3>1. PICK r \in Regions : data_ptr' = r /\ allocated' = [Freed EXCEPT ![r] = capacity']
        BY <1>1, <2>3 DEF Move
      <3>2. allocated' = [s \in Regions |-> IF s = data_ptr' THEN capacity' ELSE 0]
        BY <3>1, FreedAll
      <3>3. r # NULL
        BY LifecycleAssumption
      <3>4. QED
        BY <1>1, <2>1, <3>1, <3>2, <3>3 DEF LifeInv
    <2>4. QED
      BY <2>2, <2>3
  <1>4. QED
    BY <1>2, <1>3

\* cyclic_queue_destroy frees the region there is.
LEMMA DestroyKeepsLifeInv == ASSUME LifeInv, cyclic_queue_destroy PROVE LifeInv'
  <1>1. /\ NobodyThere /\ initialized' = FALSE /\ allocated' = [r \in Regions |-> 0]
        /\ data_ptr' = NULL /\ capacity' = 0 /\ size' = 0 /\ UNCHANGED local
    BY FreedAll DEF cyclic_queue_destroy, Zeroed, NothingIn
  <1>2. NobodyThere' /\ Blank'
    BY <1>1 DEF NobodyThere, Blank, TurnedAway, local
  <1>3. allocated' = [r \in Regions |-> IF r = data_ptr' THEN capacity' ELSE 0]
    BY <1>1
  <1>4. QED
    BY <1>1, <1>2, <1>3 DEF LifeInv

\* All that can happen to a queue.
LEMMA NextKeepsLifeInv == LifeInv /\ [LNext]_lvars => LifeInv'
  <1> SUFFICES ASSUME LifeInv, [LNext]_lvars PROVE LifeInv'
    OBVIOUS
  <1>1. CASE UNCHANGED lvars
    <2>1. QInv => QInv'
      BY <1>1, NextKeepsQInv DEF lvars
    <2>2. Blank' <=> Blank
      BY <1>1 DEF lvars, vars, shared, local, Blank
    <2>3. NobodyThere' <=> NobodyThere
      BY <1>1 DEF lvars, vars, local, NobodyThere
    <2>4. capacity' = capacity
      BY <1>1 DEF lvars, vars, shared
    <2>5. QED
      BY <1>1, <2>1, <2>2, <2>3, <2>4 DEF LifeInv, lvars
  <1>2. CASE LNext
    BY <1>2, InitKeepsLifeInv, UseKeepsLifeInv, DestroyKeepsLifeInv DEF LNext
  <1>3. QED
    BY <1>1, <1>2

\* What the invariant says of the regions and of the slots that are touched.
LEMMA LifeInvSays == LifeInv => OneRegion /\ UnusableQueueIsLeftAlone
  <1> SUFFICES ASSUME LifeInv PROVE OneRegion /\ UnusableQueueIsLeftAlone
    OBVIOUS
  <1>1. CASE data_ptr = NULL
    <2>1. \A t \in Threads : pc[t] \in TurnedAway
      BY <1>1 DEF LifeInv, Blank
    <2>2. QED
      BY <1>1, <2>1 DEF LifeInv, Blank, TurnedAway, OneRegion, UnusableQueueIsLeftAlone
  <1>2. CASE data_ptr # NULL
    <2>1. \A t \in Threads : /\ pc[t] = "push_copy" => my_push[t] \in 0 .. capacity - 1
                             /\ pc[t] = "take_copy" => my_take[t] \in 0 .. capacity - 1
      BY <1>2 DEF LifeInv, QInv, TypeOK, Locals, HoldsPush, HoldsTake
    <2>2. QED
      BY <1>2, <2>1 DEF LifeInv, OneRegion, UnusableQueueIsLeftAlone
  <1>3. QED
    BY <1>1, <1>2

(***************************************************************************)
(* Over all inits, failed or not, growths and destroys the struct either   *)
(* has one region and satisfies the invariant of CyclicQueue, or is one of *)
(* capacity 0 that turns everyone away.                                    *)
(***************************************************************************)
THEOREM QueueLifeInvariant == LSpec => []LifeInv
  BY InitLifeInv, NextKeepsLifeInv, PTL DEF LSpec

(***************************************************************************)
(* No region leaks, is freed twice or used once freed, and every memcpy of *)
(* cyclic_queue_push and cyclic_queue_take is within the region there is.  *)
(***************************************************************************)
THEOREM QueueOwnsOneRegion == LSpec => []OneRegion
  BY QueueLifeInvariant, LifeInvSays, PTL

(***************************************************************************)
(* No push or take gets to the memcpy, or to the modulo by the capacity,   *)
(* of a queue whose cyclic_queue_init failed.                              *)
(***************************************************************************)
THEOREM UnusableQueueTurnsAway == LSpec => []UnusableQueueIsLeftAlone
  BY QueueLifeInvariant, LifeInvSays, PTL

-----------------------------------------------------------------------------
(* The workload: where each value is *)

Pushes == {"push_lock", "push_check", "push_lock_take", "push_recheck", "push_copy",
           "push_size", "push_unlock_take", "push_unlock"}
Takes == {"take_check", "take_return", "take_lock", "take_recheck", "take_copy",
          "take_size", "take_unlock"}

Values == 0 .. Total - 1

\* Producers push the value they have claimed, consumers take with empty hands.
Driven ==
  /\ cached \in [Producers -> Values \cup {None}]
  /\ hand \in [Consumers -> Elements \cup {None, Garbage}]
  /\ consumed \in [Consumers -> SUBSET (Elements \cup {Garbage})]
  /\ vindex \in Nat
  /\ \A p \in Producers : /\ pc[p] \in Pushes \cup {"idle"}
                          /\ pc[p] \in Pushes \cap Undecided => elem[p] = cached[p]
  /\ \A c \in Consumers : /\ pc[c] \in Takes \cup {"idle"}
                          /\ pc[c] # "idle" => hand[c] = None

\* What puts value v with producer p, and with consumer c.
Mine(p, v) == cached[p] = v /\ ~ (pc[p] # "idle" /\ result[p])
Held(c, v) == hand[c] = v \/ (pc[c] = "take_unlock" /\ result[c] /\ elem[c] = v)

One(S) == \E x : S = {x}

Nowhere(v) ==
  WithProducer(v) = {} /\ InQueue(v) = {} /\ WithConsumer(v) = {} /\ ConsumedBy(v) = {}

InOne(v) ==
  \/ One(WithProducer(v)) /\ InQueue(v) = {} /\ WithConsumer(v) = {} /\ ConsumedBy(v) = {}
  \/ WithProducer(v) = {} /\ One(InQueue(v)) /\ WithConsumer(v) = {} /\ ConsumedBy(v) = {}
  \/ WithProducer(v) = {} /\ InQueue(v) = {} /\ One(WithConsumer(v)) /\ ConsumedBy(v) = {}
  \/ WithProducer(v) = {} /\ InQueue(v) = {} /\ WithConsumer(v) = {} /\ One(ConsumedBy(v))

Accounted(v) == IF v < vindex THEN InOne(v) ELSE Nowhere(v)

WInv == FifoInv /\ Driven /\ \A v \in Values : Accounted(v)

\* A value stays where it is.
LEMMA StaysPut ==
  ASSUME NEW v \in Values, Accounted(v),
         WithProducer(v)' = WithProducer(v), InQueue(v)' = InQueue(v),
         WithConsumer(v)' = WithConsumer(v), ConsumedBy(v)' = ConsumedBy(v),
         v < vindex' <=> v < vindex
  PROVE  Accounted(v)'
  BY DEF Accounted, InOne, Nowhere

\* The values are numbers, and None is none of them.
LEMMA NoneIsNoValue == ASSUME NEW v \in Values PROVE v # None /\ v \in Nat /\ v < Total /\ v \in Elements
  BY WorkloadAssumption DEF Values, None

\* A value is in the queue where Items says so.
LEMMA InQueueKept == ASSUME NEW v, Items' = Items, size' = size PROVE InQueue(v)' = InQueue(v)
  BY DEF InQueue

\* Nothing is claimed yet.
LEMMA InitWInv == WInit => WInv
  <1> SUFFICES ASSUME WInit PROVE WInv
    OBVIOUS
  <1>1. FifoInv
    BY InitFifoInv DEF WInit
  <1>2. Driven
    BY WorkloadAssumption DEF WInit, Init, Driven, Pushes
  <1>3. \A v \in Values : Accounted(v)
    <2>1. ASSUME NEW v \in Values PROVE Accounted(v)
      <3>1. v # None /\ ~ (v < vindex)
        BY NoneIsNoValue DEF WInit
      <3>2. \A c \in Consumers : pc[c] = "idle"
        BY WorkloadAssumption DEF WInit, Init
      <3>3. WithProducer(v) = {} /\ ConsumedBy(v) = {}
        BY <3>1 DEF WInit, WithProducer, ConsumedBy
      <3>4. WithConsumer(v) = {}
        BY <3>1, <3>2 DEF WInit, WithConsumer
      <3>5. InQueue(v) = {}
        BY DEF WInit, Init, InQueue
      <3>6. QED
        BY <3>1, <3>3, <3>4, <3>5 DEF Accounted, Nowhere
    <2>2. QED
      BY <2>1
  <1>4. QED
    BY <1>1, <1>2, <1>3 DEF WInv

\* The steps of the workload are steps of the queue, or leave it alone.
LEMMA WorkloadStepsQueue ==
  ASSUME WNext, Driven
  PROVE  \/ UNCHANGED vars
         \/ \E t \in Threads : ThreadStep(t)
  <1>1. Producers \subseteq Threads /\ Consumers \subseteq Threads
    BY WorkloadAssumption
  <1>2. ASSUME NEW p \in Producers, TryPush(p) PROVE ThreadStep(p)
    <2>1. cached[p] \in Elements
      BY <1>2, NoneIsNoValue DEF TryPush, Driven
    <2>2. QED
      BY <1>2, <2>1 DEF TryPush, ThreadStep
  <1>3. ASSUME NEW p \in Producers, run_producer(p) PROVE UNCHANGED vars \/ ThreadStep(p)
    BY <1>2, <1>3 DEF run_producer, Claim, Pushing, ThreadStep
  <1>4. ASSUME NEW c \in Consumers, run_consumer(c) PROVE UNCHANGED vars \/ ThreadStep(c)
    BY <1>4 DEF run_consumer, TryTake, Taking, Account, Leaves, ThreadStep
  <1>5. QED
    BY <1>1, <1>3, <1>4 DEF WNext, wvars

\* So they keep the invariant of the queue.
LEMMA WorkloadKeepsFifoInv == ASSUME WInv, [WNext]_wvars PROVE FifoInv'
  <1>1. UNCHANGED vars \/ \E t \in Threads : ThreadStep(t)
    BY WorkloadStepsQueue DEF WInv, wvars
  <1>2. [Next]_vars
    BY <1>1 DEF Next, ThreadStep
  <1>3. QED
    BY <1>2, NextKeepsFifoInv DEF WInv

\* A step of thread t moves no value of another thread.
LEMMA OthersPlaces ==
  ASSUME TypeOK, NEW t \in Threads, ThreadStep(t), NEW v \in Values,
         \A q \in Producers \ {t} : cached'[q] = cached[q],
         \A c \in Consumers \ {t} : hand'[c] = hand[c]
  PROVE  /\ \A q \in Producers \ {t} : Mine(q, v)' <=> Mine(q, v)
         /\ \A c \in Consumers \ {t} : Held(c, v)' <=> Held(c, v)
  <1>1. ASSUME NEW q \in Producers \ {t} PROVE Mine(q, v)' <=> Mine(q, v)
    <2>1. q \in Threads \ {t}
      BY WorkloadAssumption
    <2>2. pc'[q] = pc[q] /\ result'[q] = result[q]
      BY <2>1, OthersLocals
    <2>3. QED
      BY <2>2 DEF Mine
  <1>2. ASSUME NEW c \in Consumers \ {t} PROVE Held(c, v)' <=> Held(c, v)
    <2>1. c \in Threads \ {t}
      BY WorkloadAssumption
    <2>2. pc'[c] = pc[c] /\ result'[c] = result[c] /\ elem'[c] = elem[c]
      BY <2>1, OthersLocals
    <2>3. QED
      BY <2>2 DEF Held
  <1>3. QED
    BY <1>1, <1>2

\* The same for what Driven says of the others.
LEMMA OthersDriven ==
  ASSUME TypeOK, Driven, NEW t \in Threads, ThreadStep(t),
         cached' \in [Producers -> Values \cup {None}],
         hand' \in [Consumers -> Elements \cup {None, Garbage}],
         UNCHANGED <<consumed, vindex>>,
         \A q \in Producers \ {t} : cached'[q] = cached[q],
         \A c \in Consumers \ {t} : hand'[c] = hand[c],
         t \in Producers => /\ pc'[t] \in Pushes \cup {"idle"}
                            /\ pc'[t] \in Pushes \cap Undecided => elem'[t] = cached'[t],
         t \in Consumers => /\ pc'[t] \in Takes \cup {"idle"}
                            /\ pc'[t] # "idle" => hand'[t] = None
  PROVE  Driven'
  <1>1. \A u \in Threads \ {t} : pc'[u] = pc[u] /\ elem'[u] = elem[u]
    BY OthersLocals
  <1>2. Producers \subseteq Threads /\ Consumers \subseteq Threads
    BY WorkloadAssumption
  <1>3. ASSUME NEW p \in Producers
        PROVE  /\ pc'[p] \in Pushes \cup {"idle"}
               /\ pc'[p] \in Pushes \cap Undecided => elem'[p] = cached'[p]
    <2>1. CASE p = t
      BY <2>1
    <2>2. CASE p # t
      <3>1. p \in Threads \ {t} /\ p \in Producers \ {t}
        BY <1>2, <2>2
      <3>2. QED
        BY <1>1, <3>1 DEF Driven
    <2>3. QED
      BY <2>1, <2>2
  <1>4. ASSUME NEW c \in Consumers
        PROVE  /\ pc'[c] \in Takes \cup {"idle"}
               /\ pc'[c] # "idle" => hand'[c] = None
    <2>1. CASE c = t
      BY <2>1
    <2>2. CASE c # t
      <3>1. c \in Threads \ {t} /\ c \in Consumers \ {t}
        BY <1>2, <2>2
      <3>2. QED
        BY <1>1, <3>1 DEF Driven
    <2>3. QED
      BY <2>1, <2>2
  <1>5. QED
    BY <1>3, <1>4 DEF Driven

\* Claiming the next index brings a value to the producer.
LEMMA ClaimKeepsWInv == ASSUME WInv, NEW p \in Producers, Claim(p) PROVE WInv'
  <1>1. /\ FifoInv /\ Driven /\ \A v \in Values : Accounted(v)
        /\ UNCHANGED <<vars, hand, consumed, consumed_count>>
        /\ pc[p] = "idle" /\ cached[p] = None /\ vindex' = vindex + 1 /\ vindex \in Nat
    BY DEF WInv, Driven, Claim, Running
  <1>2. UNCHANGED <<data, capacity, size, take_idx, push_idx, pc, my_take, my_push, elem, result>>
    BY <1>1 DEF vars, shared, local
  <1>3. FifoInv'
    BY WorkloadKeepsFifoInv DEF WNext, run_producer
  <1>4. /\ vindex < Total => vindex \in Values /\ cached' = [cached EXCEPT ![p] = vindex]
        /\ ~ (vindex < Total) => cached' = cached
    BY <1>1, WorkloadAssumption DEF Claim, Values
  <1>5. Driven'
    BY <1>1, <1>2, <1>4 DEF Driven, Pushes, Undecided
  <1>6. Items' = Items
    BY <1>2 DEF Items, SlotAfter, Head0, HoldsTake
  <1>7. ASSUME NEW v \in Values PROVE Accounted(v)'
    <2>1. v \in Nat /\ v < Total /\ v # None
      BY NoneIsNoValue
    <2>2. InQueue(v)' = InQueue(v)
      BY <1>2, <1>6, InQueueKept
    <2>3. WithConsumer(v)' = WithConsumer(v) /\ ConsumedBy(v)' = ConsumedBy(v)
      BY <1>1, <1>2 DEF WithConsumer, ConsumedBy
    <2>4. CASE v # vindex \/ ~ (vindex < Total)
      <3>1. WithProducer(v)' = WithProducer(v)
        BY <1>1, <1>2, <1>4, <2>1, <2>4 DEF WithProducer, Driven
      <3>2. v < vindex' <=> v < vindex
        BY <1>1, <2>1, <2>4, WorkloadAssumption
      <3>3. QED
        BY <1>1, <2>2, <2>3, <3>1, <3>2, StaysPut
    <2>5. CASE v = vindex /\ vindex < Total
      <3>1. Nowhere(v)
        BY <1>1, <2>1, <2>5 DEF Accounted
      <3>2. WithProducer(v)' = {p}
        <4>1. \A q \in Producers : ~ Mine(q, v)
          BY <3>1 DEF Nowhere, WithProducer, Mine
        <4>2. \A q \in Producers : Mine(q, v)' <=> q = p
          BY <1>1, <1>2, <1>4, <2>5, <4>1 DEF Mine, Driven
        <4>3. QED
          BY <4>2 DEF WithProducer, Mine
      <3>3. InOne(v)'
        BY <2>2, <2>3, <3>1, <3>2 DEF InOne, Nowhere, One
      <3>4. v < vindex'
        BY <1>1, <2>5
      <3>5. QED
        BY <3>3, <3>4 DEF Accounted
    <2>6. QED
      BY <2>4, <2>5
  <1>8. QED
    BY <1>3, <1>5, <1>7 DEF WInv

\* A step of thread t that changes neither the queue nor what t has.
LEMMA QuietKeepsWInv ==
  ASSUME WInv, FifoInv', Driven', NEW t \in Threads, ThreadStep(t),
         Items' = Items, size' = size, UNCHANGED <<consumed, vindex>>,
         \A q \in Producers \ {t} : cached'[q] = cached[q],
         \A c \in Consumers \ {t} : hand'[c] = hand[c],
         \A v \in Values : /\ t \in Producers => (Mine(t, v)' <=> Mine(t, v))
                           /\ t \in Consumers => (Held(t, v)' <=> Held(t, v))
  PROVE  WInv'
  <1>1. TypeOK /\ Driven /\ \A v \in Values : Accounted(v)
    BY DEF WInv, FifoInv, QInv
  <1>2. ASSUME NEW v \in Values PROVE Accounted(v)'
    <2>0. /\ \A q \in Producers \ {t} : Mine(q, v)' <=> Mine(q, v)
          /\ \A c \in Consumers \ {t} : Held(c, v)' <=> Held(c, v)
      BY <1>1, OthersPlaces
    <2>1. /\ \A q \in Producers : Mine(q, v)' <=> Mine(q, v)
          /\ \A c \in Consumers : Held(c, v)' <=> Held(c, v)
      BY <2>0
    <2>2. WithProducer(v)' = WithProducer(v) /\ WithConsumer(v)' = WithConsumer(v)
      BY <2>1 DEF WithProducer, WithConsumer, Mine, Held
    <2>3. InQueue(v)' = InQueue(v) /\ ConsumedBy(v)' = ConsumedBy(v)
      BY InQueueKept DEF ConsumedBy
    <2>4. QED
      BY <1>1, <2>2, <2>3, StaysPut
  <1>3. QED
    BY <1>2 DEF WInv

\* Calling cyclic_queue_push does not move the value.
LEMMA TryPushKeepsWInv == ASSUME WInv, NEW p \in Producers, TryPush(p) PROVE WInv'
  <1>1. /\ FifoInv /\ QInv /\ TypeOK /\ Driven /\ p \in Threads /\ p \notin Consumers
        /\ UNCHANGED <<vindex, cached, hand, consumed>> /\ CallPush(p, cached[p])
        /\ cached[p] # None
    BY WorkloadAssumption DEF WInv, FifoInv, QInv, TryPush, driver
  <1>2. cached[p] \in Elements /\ \E e \in Elements : CallPush(p, e)
    BY <1>1, NoneIsNoValue DEF Driven
  <1>3. ThreadStep(p)
    BY <1>2 DEF ThreadStep
  <1>4. FifoInv' /\ QInv'
    BY <1>1, WorkloadKeepsFifoInv DEF WNext, run_producer, FifoInv
  <1>5. Items' = Items /\ size' = size
    BY <1>1, <1>2, <1>4, QuietStepKeepsItems
  <1>6. /\ pc[p] = "idle" /\ pc'[p] = "push_lock" /\ elem'[p] = cached[p]
        /\ result'[p] = result[p] /\ ~ result[p]
    BY <1>1 DEF CallPush, Step, Goto, TypeOK, FifoInv, Carries, Undecided
  <1>7. Driven'
    <2>1. pc'[p] \in Pushes /\ elem'[p] = cached'[p]
      BY <1>1, <1>6 DEF Pushes
    <2>2. /\ cached' \in [Producers -> Values \cup {None}]
          /\ hand' \in [Consumers -> Elements \cup {None, Garbage}]
      BY <1>1 DEF Driven
    <2>3. QED
      BY <1>1, <1>3, <2>1, <2>2, OthersDriven
  <1>8. \A v \in Values : Mine(p, v)' <=> Mine(p, v)
    BY <1>1, <1>6 DEF Mine
  <1>9. QED
    BY <1>1, <1>3, <1>4, <1>5, <1>7, <1>8, QuietKeepsWInv

\* Calling cyclic_queue_take moves none.
LEMMA TryTakeKeepsWInv == ASSUME WInv, NEW c \in Consumers, TryTake(c) PROVE WInv'
  <1>1. /\ FifoInv /\ QInv /\ TypeOK /\ Driven /\ c \in Threads /\ c \notin Producers
        /\ UNCHANGED <<vindex, cached, hand, consumed>> /\ CallTake(c)
        /\ hand[c] = None
    BY WorkloadAssumption DEF WInv, FifoInv, QInv, TryTake, driver
  <1>3. ThreadStep(c)
    BY <1>1 DEF ThreadStep
  <1>4. FifoInv' /\ QInv'
    BY <1>1, WorkloadKeepsFifoInv DEF WNext, run_consumer, FifoInv
  <1>5. Items' = Items /\ size' = size
    BY <1>1, <1>4, QuietStepKeepsItems
  <1>6. pc[c] = "idle" /\ pc'[c] = "take_check"
    BY <1>1 DEF CallTake, Step, Goto, TypeOK
  <1>7. Driven'
    <2>1. pc'[c] \in Takes /\ hand'[c] = None
      BY <1>1, <1>6 DEF Takes
    <2>2. /\ cached' \in [Producers -> Values \cup {None}]
          /\ hand' \in [Consumers -> Elements \cup {None, Garbage}]
      BY <1>1 DEF Driven
    <2>3. QED
      BY <1>1, <1>3, <2>1, <2>2, OthersDriven
  <1>8. \A v \in Values : Held(c, v)' <=> Held(c, v)
    BY <1>1, <1>6 DEF Held
  <1>9. QED
    BY <1>1, <1>3, <1>4, <1>5, <1>7, <1>8, QuietKeepsWInv

\* The steps of a push that change no element.
LEMMA PushingKeepsWInv ==
  ASSUME WInv, NEW p \in Producers, Pushing(p), ~ PushSize(p) PROVE WInv'
  <1>1. /\ FifoInv /\ QInv /\ TypeOK /\ Driven /\ p \in Threads /\ p \notin Consumers
        /\ UNCHANGED <<vindex, hand, consumed>> /\ cyclic_queue_push(p) /\ ThreadStep(p)
        /\ cached' = [cached EXCEPT ![p] = IF pc'[p] = "idle" /\ result[p] THEN None ELSE @]
        /\ cached \in [Producers -> Values \cup {None}]
        /\ pc[p] \in Pushes \cup {"idle"}
        /\ pc[p] \in Pushes \cap Undecided => elem[p] = cached[p]
    BY WorkloadAssumption DEF WInv, FifoInv, QInv, Pushing, Driven, ThreadStep
  <1>2. FifoInv' /\ QInv'
    BY <1>1, WorkloadKeepsFifoInv DEF WNext, run_producer, FifoInv
  <1>3. /\ \A q \in Producers \ {p} : cached'[q] = cached[q]
        /\ cached' \in [Producers -> Values \cup {None}]
        /\ hand' \in [Consumers -> Elements \cup {None, Garbage}]
    BY <1>1 DEF Driven
  <1>4. Items' = Items /\ size' = size
    <2>1. CASE PushCopy(p)
      BY <1>1, <1>2, <2>1, PushCopyKeepsItems DEF PushCopy
    <2>2. CASE PushGrow(p)
      BY <1>1, <1>2, <2>2, PushGrowKeepsItems DEF PushGrow
    <2>3. CASE ~ PushCopy(p) /\ ~ PushGrow(p)
      BY <1>1, <1>2, <2>3, QuietStepKeepsItems DEF cyclic_queue_push
    <2>4. QED
      BY <2>1, <2>2, <2>3
  <1>5. CASE PushUnlock(p)
    <2>1. pc[p] = "push_unlock" /\ pc'[p] = "idle" /\ result'[p] = FALSE
      BY <1>1, <1>5 DEF PushUnlock, Leave, Goto, TypeOK
    <2>2. cached'[p] = IF result[p] THEN None ELSE cached[p]
      BY <1>1, <2>1
    <2>3. Driven'
      BY <1>1, <1>3, <2>1, OthersDriven DEF Pushes
    <2>4. \A v \in Values : Mine(p, v)' <=> Mine(p, v)
      BY <2>1, <2>2, NoneIsNoValue DEF Mine
    <2>5. QED
      BY <1>1, <1>2, <1>3, <1>4, <2>3, <2>4, QuietKeepsWInv
  <1>6. CASE ~ PushUnlock(p)
    <2>1. /\ pc[p] \in Pushes /\ pc'[p] \in Pushes /\ result' = result /\ elem' = elem
          /\ pc'[p] \in Undecided => pc[p] \in Undecided
      BY <1>1, <1>6 DEF cyclic_queue_push, PushLock, LockPush, PushCheck, PushLockTake, LockTake,
           PushRecheckRoom, PushRefuse, PushGrow, PushCopy, PushUnlockTake, Step, Goto,
           shared, TypeOK, Pushes, Undecided
    <2>2. pc[p] # "idle" /\ pc'[p] # "idle"
      BY <2>1 DEF Pushes
    <2>3. cached'[p] = cached[p]
      BY <1>1, <2>2
    <2>4. Driven'
      BY <1>1, <1>3, <2>1, <2>3, OthersDriven
    <2>5. \A v \in Values : Mine(p, v)' <=> Mine(p, v)
      BY <2>1, <2>2, <2>3 DEF Mine
    <2>6. QED
      BY <1>1, <1>2, <1>3, <1>4, <2>4, <2>5, QuietKeepsWInv
  <1>7. QED
    BY <1>5, <1>6

\* The fetch_add moves the value of the producer to the end of the queue.
LEMMA AppendedKeepsWInv ==
  ASSUME WInv, NEW p \in Producers, Pushing(p), PushSize(p) PROVE WInv'
  <1>1. /\ FifoInv /\ QInv /\ TypeOK /\ Driven /\ p \in Threads /\ p \notin Consumers
        /\ UNCHANGED <<vindex, hand, consumed>> /\ ThreadStep(p)
        /\ cached' = [cached EXCEPT ![p] = IF pc'[p] = "idle" /\ result[p] THEN None ELSE @]
        /\ cached \in [Producers -> Values \cup {None}]
        /\ pc[p] \in Pushes \cap Undecided => elem[p] = cached[p]
        /\ Carries(p) /\ \A v \in Values : Accounted(v)
    BY WorkloadAssumption DEF WInv, FifoInv, QInv, Pushing, Driven, ThreadStep, cyclic_queue_push
  <1>2. FifoInv' /\ QInv'
    BY <1>1, WorkloadKeepsFifoInv DEF WNext, run_producer, FifoInv
  <1>3. /\ pc[p] = "push_size" /\ pc'[p] \in {"push_unlock_take", "push_unlock"}
        /\ result'[p] /\ size' = size + 1
    BY <1>1 DEF PushSize, Step, Goto, TypeOK
  <1>4. ~ result[p] /\ elem[p] = cached[p] /\ data[my_push[p]] = elem[p]
    BY <1>1, <1>3 DEF Carries, Pushes, Undecided
  <1>5. cached' = cached
    BY <1>1, <1>3
  <1>6. Driven'
    <2>1. pc'[p] \in Pushes /\ pc'[p] \notin Undecided
      BY <1>3 DEF Pushes, Undecided
    <2>2. hand' \in [Consumers -> Elements \cup {None, Garbage}]
      BY <1>1 DEF Driven
    <2>3. QED
      BY <1>1, <1>5, <2>1, <2>2, OthersDriven
  <1>7. Items' = Append(Items, elem[p])
    BY <1>1, <1>2, <1>4, PushSizeAppends
  <1>8. /\ Items \in Seq(Elements \cup {Garbage}) /\ Len(Items) = size /\ size \in Nat
        /\ elem[p] \in Elements \cup {Garbage}
    BY <1>1, ItemsType DEF TypeOK
  <1>9. /\ \A i \in 1 .. size : Items'[i] = Items[i]
        /\ Items'[size + 1] = elem[p]
    BY <1>7, <1>8
  <1>10. \A i : i \in 1 .. size' <=> i \in 1 .. size \/ i = size + 1
    BY <1>3, <1>8
  <1>10a. size + 1 \notin 1 .. size
    BY <1>8
  <1>11. ASSUME NEW v \in Values PROVE Accounted(v)'
    <2>1. /\ \A q \in Producers \ {p} : Mine(q, v)' <=> Mine(q, v)
          /\ \A c \in Consumers : Held(c, v)' <=> Held(c, v)
      BY <1>1, <1>5, OthersPlaces
    <2>2. WithConsumer(v)' = WithConsumer(v) /\ ConsumedBy(v)' = ConsumedBy(v)
      BY <1>1, <2>1 DEF WithConsumer, ConsumedBy, Held
    <2>3. ~ Mine(p, v)'
      BY <1>3 DEF Mine
    <2>4. Mine(p, v) <=> v = cached[p]
      BY <1>4 DEF Mine
    <2>5. CASE v # cached[p]
      <3>1. WithProducer(v)' = WithProducer(v)
        BY <2>1, <2>3, <2>4, <2>5 DEF WithProducer, Mine
      <3>2. InQueue(v)' = InQueue(v)
        BY <1>4, <1>9, <1>10, <2>5 DEF InQueue
      <3>3. QED
        BY <1>1, <2>2, <3>1, <3>2, StaysPut
    <2>6. CASE v = cached[p]
      <3>1. p \in WithProducer(v)
        BY <2>4, <2>6 DEF WithProducer, Mine
      <3>2. v < vindex /\ InOne(v)
        BY <1>1, <3>1 DEF Accounted, Nowhere
      <3>3. /\ WithProducer(v) = {p}
            /\ InQueue(v) = {} /\ WithConsumer(v) = {} /\ ConsumedBy(v) = {}
        BY <3>1, <3>2 DEF InOne, One
      <3>4. WithProducer(v)' = {}
        BY <2>1, <2>3, <3>3 DEF WithProducer, Mine
      <3>5. InQueue(v)' = {size + 1}
        <4>1. \A i \in 1 .. size : Items[i] # v
          BY <3>3 DEF InQueue
        <4>2. QED
          BY <1>4, <1>9, <1>10, <2>6, <4>1 DEF InQueue
      <3>6. InOne(v)'
        BY <2>2, <3>3, <3>4, <3>5 DEF InOne, One
      <3>7. QED
        BY <1>1, <3>2, <3>6 DEF Accounted
    <2>7. QED
      BY <2>5, <2>6
  <1>12. QED
    BY <1>2, <1>6, <1>11 DEF WInv

\* The steps of a take that change no element.
LEMMA TakingKeepsWInv ==
  ASSUME WInv, NEW c \in Consumers, Taking(c), ~ TakeSize(c) PROVE WInv'
  <1>1. /\ FifoInv /\ QInv /\ TypeOK /\ Driven /\ c \in Threads /\ c \notin Producers
        /\ UNCHANGED <<vindex, cached, consumed>> /\ cyclic_queue_take(c) /\ ThreadStep(c)
        /\ hand' = [hand EXCEPT ![c] = IF pc'[c] = "idle" /\ result[c] THEN elem[c] ELSE @]
        /\ hand \in [Consumers -> Elements \cup {None, Garbage}]
        /\ elem[c] \in Elements \cup {Garbage}
        /\ pc[c] # "idle" => hand[c] = None
        /\ Carries(c)
    BY WorkloadAssumption DEF WInv, FifoInv, QInv, Taking, Driven, ThreadStep, TypeOK
  <1>2. FifoInv' /\ QInv'
    BY <1>1, WorkloadKeepsFifoInv DEF WNext, run_consumer, FifoInv
  <1>3. /\ \A d \in Consumers \ {c} : hand'[d] = hand[d]
        /\ hand' \in [Consumers -> Elements \cup {None, Garbage}]
        /\ cached' \in [Producers -> Values \cup {None}]
    BY <1>1 DEF Driven
  <1>4. Items' = Items /\ size' = size
    BY <1>1, <1>2, QuietStepKeepsItems DEF cyclic_queue_take
  <1>5. CASE TakeUnlock(c) \/ TakeReturn(c)
    <2>1. pc[c] \in {"take_unlock", "take_return"} /\ pc'[c] = "idle"
      BY <1>1, <1>5 DEF TakeUnlock, TakeReturn, Leave, Goto, TypeOK
    <2>2. pc[c] = "take_return" => ~ result[c]
      BY <1>1 DEF Carries, Undecided
    <2>3. hand[c] = None /\ hand'[c] = IF result[c] THEN elem[c] ELSE hand[c]
      BY <1>1, <2>1
    <2>4. Driven'
      BY <1>1, <1>3, <2>1, OthersDriven DEF Takes
    <2>5. \A v \in Values : Held(c, v)' <=> Held(c, v)
      BY <2>1, <2>2, <2>3, NoneIsNoValue DEF Held
    <2>6. QED
      BY <1>1, <1>2, <1>3, <1>4, <2>4, <2>5, QuietKeepsWInv
  <1>6. CASE ~ (TakeUnlock(c) \/ TakeReturn(c))
    <2>1. /\ pc[c] \in Takes \ {"take_unlock"} /\ pc'[c] \in Takes /\ result' = result
          /\ pc[c] \in Undecided
      BY <1>1, <1>6 DEF cyclic_queue_take, TakeCheck, TakeLock, LockTake, TakeRecheck, TakeCopy,
           Step, Goto, shared, TypeOK, Takes, Undecided
    <2>2. pc[c] # "idle" /\ pc'[c] # "idle" /\ ~ result[c] /\ ~ result'[c]
      BY <1>1, <2>1 DEF Takes, Carries
    <2>3. hand'[c] = None /\ hand[c] = None
      BY <1>1, <2>2
    <2>4. Driven'
      BY <1>1, <1>3, <2>1, <2>3, OthersDriven
    <2>5. \A v \in Values : Held(c, v)' <=> Held(c, v)
      BY <2>2, <2>3 DEF Held
    <2>6. QED
      BY <1>1, <1>2, <1>3, <1>4, <2>4, <2>5, QuietKeepsWInv
  <1>7. QED
    BY <1>5, <1>6

\* The fetch_sub moves the first value of the queue to the consumer.
LEMMA RemovedKeepsWInv ==
  ASSUME WInv, NEW c \in Consumers, Taking(c), TakeSize(c) PROVE WInv'
  <1>1. /\ FifoInv /\ QInv /\ TypeOK /\ Driven /\ c \in Threads /\ c \notin Producers
        /\ UNCHANGED <<vindex, cached, consumed>> /\ ThreadStep(c)
        /\ hand' = [hand EXCEPT ![c] = IF pc'[c] = "idle" /\ result[c] THEN elem[c] ELSE @]
        /\ hand \in [Consumers -> Elements \cup {None, Garbage}]
        /\ pc[c] # "idle" => hand[c] = None
        /\ Carries(c) /\ \A v \in Values : Accounted(v)
    BY WorkloadAssumption DEF WInv, FifoInv, QInv, Taking, Driven, ThreadStep, cyclic_queue_take
  <1>2. FifoInv' /\ QInv'
    BY <1>1, WorkloadKeepsFifoInv DEF WNext, run_consumer, FifoInv
  <1>3. /\ pc[c] = "take_size" /\ pc'[c] = "take_unlock"
        /\ result'[c] /\ elem'[c] = elem[c] /\ size' = size - 1
    BY <1>1 DEF TakeSize, Step, Goto, TypeOK
  <1>4. ~ result[c] /\ hand[c] = None /\ elem[c] = data[my_take[c]]
    BY <1>1, <1>3 DEF Carries, Undecided
  <1>5. hand' = hand
    BY <1>1, <1>3
  <1>6. Driven'
    <2>1. pc'[c] \in Takes
      BY <1>3 DEF Takes
    <2>2. cached' \in [Producers -> Values \cup {None}]
      BY <1>1 DEF Driven
    <2>3. QED
      BY <1>1, <1>4, <1>5, <2>1, <2>2, OthersDriven
  <1>7. Items # <<>> /\ Items' = Tail(Items) /\ Head(Items) = elem[c]
    BY <1>1, <1>2, <1>4, TakeSizeRemoves
  <1>8. Items \in Seq(Elements \cup {Garbage}) /\ Len(Items) = size /\ size \in Nat
    BY <1>1, ItemsType
  <1>9. /\ size > 0 /\ Items[1] = elem[c]
        /\ \A i \in 1 .. size - 1 : Items'[i] = Items[i + 1]
    <2>1. size > 0 /\ Items[1] = elem[c]
      BY <1>7, <1>8
    <2>2. \A i \in 1 .. Len(Items) - 1 : Tail(Items)[i] = Items[i + 1]
      BY <1>7, <1>8, HeadTailProperties
    <2>3. QED
      BY <1>7, <1>8, <2>1, <2>2
  <1>10. ASSUME NEW v \in Values PROVE Accounted(v)'
    <2>1. /\ \A q \in Producers : Mine(q, v)' <=> Mine(q, v)
          /\ \A d \in Consumers \ {c} : Held(d, v)' <=> Held(d, v)
      BY <1>1, <1>5, OthersPlaces
    <2>2. WithProducer(v)' = WithProducer(v) /\ ConsumedBy(v)' = ConsumedBy(v)
      BY <1>1, <2>1 DEF WithProducer, ConsumedBy, Mine
    <2>3. ~ Held(c, v)
      BY <1>3, <1>4, NoneIsNoValue DEF Held
    <2>4. Held(c, v)' <=> v = elem[c]
      BY <1>3, <1>4, <1>5, NoneIsNoValue DEF Held
    <2>5. InQueue(v)' = {i \in 1 .. size - 1 : Items[i + 1] = v}
      BY <1>3, <1>9 DEF InQueue
    <2>6. CASE v # elem[c]
      <3>1. WithConsumer(v)' = WithConsumer(v)
        BY <2>1, <2>3, <2>4, <2>6 DEF WithConsumer, Held
      <3>2. InQueue(v) = {} => InQueue(v)' = {}
        <4>1. \A i \in 1 .. size - 1 : i + 1 \in 1 .. size
          BY <1>8
        <4>2. QED
          BY <2>5, <4>1 DEF InQueue
      <3>3. One(InQueue(v)) => One(InQueue(v)')
        <4>1. SUFFICES ASSUME NEW n, InQueue(v) = {n} PROVE InQueue(v)' = {n - 1}
          BY DEF One
        <4>2. n \in 1 .. size /\ Items[n] = v /\ \A i \in 1 .. size : Items[i] = v => i = n
          BY <4>1 DEF InQueue
        <4>3. n # 1
          BY <1>9, <2>6, <4>2
        <4>4. n - 1 \in 1 .. size - 1 /\ (n - 1) + 1 = n
          BY <1>8, <4>2, <4>3
        <4>5. \A i \in 1 .. size - 1 : i + 1 = n => i = n - 1
          BY <1>8, <4>2
        <4>6. \A i \in 1 .. size - 1 : i + 1 \in 1 .. size
          BY <1>8
        <4>7. QED
          BY <2>5, <4>2, <4>4, <4>5, <4>6
      <3>4. QED
        BY <1>1, <2>2, <3>1, <3>2, <3>3 DEF Accounted, InOne, Nowhere, One
    <2>7. CASE v = elem[c]
      <3>1. 1 \in InQueue(v)
        BY <1>8, <1>9, <2>7 DEF InQueue
      <3>2. v < vindex /\ InOne(v)
        BY <1>1, <3>1 DEF Accounted, Nowhere
      <3>3. /\ InQueue(v) = {1}
            /\ WithProducer(v) = {} /\ WithConsumer(v) = {} /\ ConsumedBy(v) = {}
        BY <3>1, <3>2 DEF InOne, One
      <3>4. WithConsumer(v)' = {c}
        BY <2>1, <2>4, <2>7, <3>3 DEF WithConsumer, Held
      <3>5. InQueue(v)' = {}
        <4>1. \A i \in 1 .. size : Items[i] = v => i = 1
          BY <3>3 DEF InQueue
        <4>2. \A i \in 1 .. size - 1 : i + 1 \in 1 .. size /\ i + 1 # 1
          BY <1>8
        <4>3. QED
          BY <2>5, <4>1, <4>2
      <3>6. InOne(v)'
        BY <2>2, <3>3, <3>4, <3>5 DEF InOne, One
      <3>7. QED
        BY <1>1, <3>2, <3>6 DEF Accounted
    <2>8. QED
      BY <2>6, <2>7
  <1>11. QED
    BY <1>2, <1>6, <1>10 DEF WInv

\* The consumer accounts for the value in its hands.
LEMMA AccountKeepsWInv == ASSUME WInv, NEW c \in Consumers, Account(c) PROVE WInv'
  <1>1. /\ FifoInv /\ Driven /\ \A v \in Values : Accounted(v)
        /\ UNCHANGED <<vars, vindex, cached>>
        /\ pc[c] = "idle" /\ hand[c] # None
        /\ consumed' = [consumed EXCEPT ![c] = @ \cup {hand[c]}]
        /\ hand' = [hand EXCEPT ![c] = None]
        /\ consumed \in [Consumers -> SUBSET (Elements \cup {Garbage})]
        /\ hand \in [Consumers -> Elements \cup {None, Garbage}]
    BY DEF WInv, Driven, Account, Running
  <1>2. UNCHANGED <<data, capacity, size, take_idx, push_idx, pc, my_take, my_push, elem, result>>
    BY <1>1 DEF vars, shared, local
  <1>3. FifoInv'
    BY WorkloadKeepsFifoInv DEF WNext, run_consumer
  <1>4. Driven'
    <2>1. consumed' \in [Consumers -> SUBSET (Elements \cup {Garbage})]
      BY <1>1
    <2>2. /\ hand' \in [Consumers -> Elements \cup {None, Garbage}]
          /\ \A d \in Consumers : hand[d] = None => hand'[d] = None
      BY <1>1
    <2>3. QED
      BY <1>1, <1>2, <2>1, <2>2 DEF Driven
  <1>5. Items' = Items
    BY <1>2 DEF Items, SlotAfter, Head0, HoldsTake
  <1>6. ASSUME NEW v \in Values PROVE Accounted(v)'
    <2>1. /\ WithProducer(v)' = WithProducer(v) /\ InQueue(v)' = InQueue(v)
      BY <1>1, <1>2, <1>5, InQueueKept DEF WithProducer
    <2>2. \A d \in Consumers \ {c} : /\ Held(d, v)' <=> Held(d, v)
                                     /\ consumed'[d] = consumed[d]
      BY <1>1, <1>2 DEF Held
    <2>3. Held(c, v) <=> v = hand[c]
      BY <1>1 DEF Held
    <2>4. ~ Held(c, v)'
      BY <1>1, <1>2, NoneIsNoValue DEF Held
    <2>5. v \in consumed'[c] <=> v \in consumed[c] \/ v = hand[c]
      BY <1>1
    <2>6. CASE v # hand[c]
      <3>1. WithConsumer(v)' = WithConsumer(v) /\ ConsumedBy(v)' = ConsumedBy(v)
        BY <2>2, <2>3, <2>4, <2>5, <2>6 DEF WithConsumer, ConsumedBy, Held
      <3>2. QED
        BY <1>1, <2>1, <3>1, StaysPut
    <2>7. CASE v = hand[c]
      <3>1. c \in WithConsumer(v)
        BY <2>3, <2>7 DEF WithConsumer, Held
      <3>2. v < vindex /\ InOne(v)
        BY <1>1, <3>1 DEF Accounted, Nowhere
      <3>3. /\ WithConsumer(v) = {c}
            /\ WithProducer(v) = {} /\ InQueue(v) = {} /\ ConsumedBy(v) = {}
        BY <3>1, <3>2 DEF InOne, One
      <3>4. WithConsumer(v)' = {}
        BY <2>2, <2>4, <3>3 DEF WithConsumer, Held
      <3>5. ConsumedBy(v)' = {c}
        BY <2>2, <2>5, <2>7, <3>3 DEF ConsumedBy
      <3>6. InOne(v)'
        BY <2>1, <3>3, <3>4, <3>5 DEF InOne, One
      <3>7. QED
        BY <1>1, <3>2, <3>6 DEF Accounted
    <2>8. QED
      BY <2>6, <2>7
  <1>7. QED
    BY <1>3, <1>4, <1>6 DEF WInv

\* A thread that returns, and a step of no thread.
LEMMA IdleKeepsWInv ==
  ASSUME WInv, [WNext]_wvars, UNCHANGED <<vars, vindex, cached, hand, consumed>> PROVE WInv'
  <1>1. UNCHANGED <<data, capacity, size, take_idx, push_idx, pc, my_take, my_push, elem, result>>
    BY DEF vars, shared, local
  <1>2. FifoInv'
    BY WorkloadKeepsFifoInv
  <1>3. Driven'
    BY <1>1 DEF WInv, Driven
  <1>4. Items' = Items
    BY <1>1 DEF Items, SlotAfter, Head0, HoldsTake
  <1>5. ASSUME NEW v \in Values PROVE Accounted(v)'
    <2>1. InQueue(v)' = InQueue(v)
      BY <1>1, <1>4, InQueueKept
    <2>2. /\ WithProducer(v)' = WithProducer(v) /\ WithConsumer(v)' = WithConsumer(v)
          /\ ConsumedBy(v)' = ConsumedBy(v)
      BY <1>1 DEF WithProducer, WithConsumer, ConsumedBy
    <2>3. QED
      BY <2>1, <2>2, StaysPut DEF WInv
  <1>6. QED
    BY <1>2, <1>3, <1>5 DEF WInv

\* One case per action of the workload.
LEMMA NextKeepsWInv == ASSUME WInv, [WNext]_wvars PROVE WInv'
  <1>1. ASSUME NEW p \in Producers, run_producer(p) PROVE WInv'
    BY <1>1, ClaimKeepsWInv, TryPushKeepsWInv, PushingKeepsWInv, AppendedKeepsWInv
       DEF run_producer
  <1>2. ASSUME NEW c \in Consumers, run_consumer(c) PROVE WInv'
    <2>1. CASE TryTake(c) \/ Taking(c) \/ Account(c)
      BY <2>1, TryTakeKeepsWInv, TakingKeepsWInv, RemovedKeepsWInv, AccountKeepsWInv
    <2>2. CASE Leaves(c)
      BY <2>2, <1>2, IdleKeepsWInv DEF Leaves, WNext
    <2>3. QED
      BY <1>2, <2>1, <2>2 DEF run_consumer
  <1>3. CASE UNCHANGED wvars
    BY <1>3, IdleKeepsWInv DEF wvars, driver
  <1>4. QED
    BY <1>1, <1>2, <1>3 DEF WNext

\* Places are counted by their number.
LEMMA CountOne == ASSUME NEW S, One(S) PROVE Cardinality(S) = 1
  BY FS_Singleton DEF One

\* A value in one place counts once, a value nowhere not at all.
LEMMA WInvCounts == WInv => EachValueInOnePlace
  <1> SUFFICES ASSUME WInv, NEW v \in 0 .. Total - 1
      PROVE  Cardinality(WithProducer(v)) + Cardinality(InQueue(v))
               + Cardinality(WithConsumer(v)) + Cardinality(ConsumedBy(v))
             = IF v < vindex THEN 1 ELSE 0
    BY DEF EachValueInOnePlace
  <1>1. Accounted(v)
    BY DEF WInv, Values
  <1>2. Cardinality({}) = 0
    BY FS_EmptySet
  <1>3. CASE v < vindex
    <2>1. InOne(v)
      BY <1>1, <1>3 DEF Accounted
    <2> DEFINE P == Cardinality(WithProducer(v))   Q == Cardinality(InQueue(v))
               C == Cardinality(WithConsumer(v))   D == Cardinality(ConsumedBy(v))
    <2>2. \/ P = 1 /\ Q = 0 /\ C = 0 /\ D = 0
          \/ P = 0 /\ Q = 1 /\ C = 0 /\ D = 0
          \/ P = 0 /\ Q = 0 /\ C = 1 /\ D = 0
          \/ P = 0 /\ Q = 0 /\ C = 0 /\ D = 1
      BY <1>2, <2>1, CountOne DEF InOne
    <2> HIDE DEF P, Q, C, D
    <2>3. P + Q + C + D = 1
      BY <2>2
    <2>4. QED
      BY <1>3, <2>3 DEF P, Q, C, D
  <1>4. CASE ~ (v < vindex)
    BY <1>1, <1>2, <1>4 DEF Accounted, Nowhere
  <1>5. QED
    BY <1>3, <1>4

(***************************************************************************)
(* Every value a producer has claimed is in exactly one place, for any     *)
(* number of producers, consumers and values and any capacity: what the    *)
(* test program adds up at its end holds at every moment.                  *)
(***************************************************************************)
THEOREM ValuesAccountedFor == WSpec => []EachValueInOnePlace
  <1>1. WInit => WInv
    BY InitWInv
  <1>2. WInv /\ [WNext]_wvars => WInv'
    BY NextKeepsWInv
  <1>3. QED
    BY <1>1, <1>2, WInvCounts, PTL DEF WSpec

=============================================================================
