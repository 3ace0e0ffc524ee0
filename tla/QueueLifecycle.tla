--------------------------- MODULE QueueLifecycle ---------------------------
(***************************************************************************)
(* The life of a queue of src/cyclic_queue.c: cyclic_queue_init, which may *)
(* fail, the pushes and takes of CyclicQueue, with the regions of memory   *)
(* they allocate and free, and cyclic_queue_destroy, after which the same  *)
(* struct may be initialised again.                                        *)
(*                                                                         *)
(* The threads use the queue whatever cyclic_queue_init has returned, as   *)
(* those of test_cyclic_queue.c do; nobody uses it before, nor after       *)
(* cyclic_queue_destroy.                                                   *)
(***************************************************************************)
EXTENDS CyclicQueue

CONSTANTS
  Asked,     \* the capacities asked for; InitialCapacity is the least there is
  Regions,   \* the regions malloc may return
  NULL

ASSUME LifecycleAssumption == Asked \subseteq Nat /\ NULL \notin Regions

VARIABLES
  initialized,  \* cyclic_queue_init has been called, and not yet _destroy
  data_ptr,
  allocated     \* the number of elements for which each region was malloc'ed

lvars == <<vars, initialized, data_ptr, allocated>>

MAX(x, y) == IF x < y THEN y ELSE x

\* if (queue->data_ptr) { free(queue->data_ptr); }
Freed == IF data_ptr = NULL THEN allocated ELSE [allocated EXCEPT ![data_ptr] = 0]

NothingIn(ptr, slots) ==
  /\ data_ptr' = ptr
  /\ capacity' = slots
  /\ data' = [i \in 0 .. slots - 1 |-> Garbage]
  /\ size' = 0 /\ take_idx' = 0 /\ push_idx' = 0
  /\ UNCHANGED local

\* memset(queue, 0, sizeof(cyclic_queue_t))
Zeroed == NothingIn(NULL, 0)

NobodyThere ==
  /\ pc = [t \in Threads |-> "idle"]
  /\ my_take = [t \in Threads |-> Locked]
  /\ my_push = [t \in Threads |-> Locked]
  /\ elem = [t \in Threads |-> Garbage]
  /\ result = [t \in Threads |-> FALSE]

LInit ==
  /\ data = <<>> /\ capacity = 0 /\ size = 0 /\ take_idx = 0 /\ push_idx = 0
  /\ NobodyThere
  /\ initialized = FALSE
  /\ data_ptr = NULL
  /\ allocated = [r \in Regions |-> 0]

-----------------------------------------------------------------------------
\* Fault: the capacity is set before malloc fails.
InitFailsLate ==
  /\ ~ initialized /\ initialized' = TRUE
  /\ NothingIn(NULL, InitialCapacity)
  /\ UNCHANGED allocated

(***************************************************************************)
(* The capacity or the elements asked for are too large, or malloc fails:  *)
(* the struct stays as memset left it.                                     *)
(***************************************************************************)
InitFails ==
  /\ ~ initialized /\ initialized' = TRUE
  /\ Zeroed
  /\ UNCHANGED allocated

InitSucceeds ==
  /\ ~ initialized /\ initialized' = TRUE
  /\ \E asked \in Asked, r \in Regions :
       /\ MAX(asked, InitialCapacity) <= MaxCapacity
       /\ allocated[r] = 0
       /\ NothingIn(r, MAX(asked, InitialCapacity))
       /\ allocated' = [allocated EXCEPT ![r] = capacity']

cyclic_queue_init == InitFails \/ InitSucceeds

cyclic_queue_destroy ==
  /\ initialized /\ NobodyThere
  /\ initialized' = FALSE
  /\ allocated' = Freed
  /\ Zeroed

-----------------------------------------------------------------------------
\* Fault: the elements are moved, the old region is kept.
MoveKeepsOld ==
  \E r \in Regions :
    /\ allocated[r] = 0
    /\ data_ptr' = r
    /\ allocated' = [allocated EXCEPT ![r] = capacity']

\* A push that grows: malloc a region, move the elements, free the old one.
Move ==
  \E r \in Regions :
    /\ allocated[r] = 0
    /\ data_ptr' = r
    /\ allocated' = [Freed EXCEPT ![r] = capacity']

Use ==
  /\ initialized
  /\ Next
  /\ IF capacity' # capacity THEN Move ELSE UNCHANGED <<data_ptr, allocated>>
  /\ UNCHANGED initialized

LNext == cyclic_queue_init \/ Use \/ cyclic_queue_destroy

LSpec == LInit /\ [][LNext]_lvars

-----------------------------------------------------------------------------
(***************************************************************************)
(* Over any sequence of inits, growths, failures and destroys the struct   *)
(* owns exactly one region, or none, and capacity is what that region was  *)
(* malloc'ed for: nothing leaks, is freed twice or used once freed, and    *)
(* the index of a slot never lies outside.                                 *)
(***************************************************************************)
OneRegion ==
  /\ allocated = [r \in Regions |-> IF r = data_ptr THEN capacity ELSE 0]
  /\ data_ptr = NULL => capacity = 0
  /\ \A t \in Threads :
       /\ pc[t] = "push_copy" => my_push[t] \in 0 .. capacity - 1
       /\ pc[t] = "take_copy" => my_take[t] \in 0 .. capacity - 1

(***************************************************************************)
(* A queue without memory: the checks that find a full queue or an empty   *)
(* one turn every push and take away before they reach a memcpy, or the    *)
(* modulo by a capacity of zero.                                           *)
(***************************************************************************)
UnusableQueueIsLeftAlone ==
  data_ptr = NULL =>
    \A t \in Threads : pc[t] \notin {"push_copy", "push_size", "take_copy", "take_size"}

=============================================================================
