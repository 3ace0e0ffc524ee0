---------------------------- MODULE QueueWorkload ---------------------------
(***************************************************************************)
(* The threads of src/test_cyclic_queue.c around the cyclic queue.         *)
(* Producers claim the values one by one from a shared counter and push    *)
(* each until the push succeeds; consumers take until, by their shared     *)
(* count, every value has been consumed.                                   *)
(***************************************************************************)
EXTENDS CyclicQueue, FiniteSets

CONSTANTS
  Producers, Consumers,
  Total           \* __TEST_VALUES_COUNT; the values are 0 .. Total - 1

ASSUME WorkloadAssumption ==
  /\ Threads = Producers \cup Consumers
  /\ Producers \cap Consumers = {}
  /\ Total \in Nat
  /\ 0 .. Total - 1 \subseteq Elements

None == -1

VARIABLES
  vindex,          \* the next value to claim
  cached,          \* vidx of each producer while its flag cached is set
  hand,            \* next_val of each consumer, until it is accounted for
  consumed,        \* the values in each consumer's result
  consumed_count,
  done             \* the threads whose function has returned

driver == <<vindex, cached, hand, consumed, consumed_count, done>>
wvars == <<vars, driver>>

WInit ==
  /\ Init
  /\ vindex = 0
  /\ cached = [p \in Producers |-> None]
  /\ hand = [c \in Consumers |-> None]
  /\ consumed = [c \in Consumers |-> {}]
  /\ consumed_count = 0
  /\ done = {}

Running(t) == t \notin done /\ pc[t] = "idle"

\* get next index to read from values; past the end, the producer leaves
Claim(p) ==
  /\ Running(p) /\ cached[p] = None
  /\ vindex' = vindex + 1
  /\ IF vindex < Total
     THEN cached' = [cached EXCEPT ![p] = vindex] /\ UNCHANGED done
     ELSE done' = done \cup {p} /\ UNCHANGED cached
  /\ UNCHANGED <<vars, hand, consumed, consumed_count>>

\* try to push an element at cached index
TryPush(p) ==
  /\ Running(p) /\ cached[p] # None
  /\ CallPush(p, cached[p])
  /\ UNCHANGED driver

\* Fault: the producer forgets the value though the push was refused.
PushingOnce(p) ==
  /\ cyclic_queue_push(p)
  /\ cached' = [cached EXCEPT ![p] = IF pc'[p] = "idle" THEN None ELSE @]
  /\ UNCHANGED <<vindex, hand, consumed, consumed_count, done>>

\* inside the push; when it returns true, reset the cached index
Pushing(p) ==
  /\ cyclic_queue_push(p)
  /\ cached' = [cached EXCEPT ![p] = IF pc'[p] = "idle" /\ result[p] THEN None ELSE @]
  /\ UNCHANGED <<vindex, hand, consumed, consumed_count, done>>

run_producer(p) == Claim(p) \/ TryPush(p) \/ Pushing(p)

TryTake(c) ==
  /\ Running(c) /\ hand[c] = None
  /\ consumed_count < Total
  /\ CallTake(c)
  /\ UNCHANGED driver

Taking(c) ==
  /\ cyclic_queue_take(c)
  /\ hand' = [hand EXCEPT ![c] = IF pc'[c] = "idle" /\ result[c] THEN elem[c] ELSE @]
  /\ UNCHANGED <<vindex, cached, consumed, consumed_count, done>>

\* add the value to the result, then to the shared count
Account(c) ==
  /\ Running(c) /\ hand[c] # None
  /\ consumed' = [consumed EXCEPT ![c] = @ \cup {hand[c]}]
  /\ consumed_count' = consumed_count + 1
  /\ hand' = [hand EXCEPT ![c] = None]
  /\ UNCHANGED <<vars, vindex, cached, done>>

Leaves(c) ==
  /\ Running(c) /\ hand[c] = None
  /\ consumed_count >= Total
  /\ done' = done \cup {c}
  /\ UNCHANGED <<vars, vindex, cached, hand, consumed, consumed_count>>

run_consumer(c) == TryTake(c) \/ Taking(c) \/ Account(c) \/ Leaves(c)

AllDone == done = Threads

WNext ==
  \/ \E p \in Producers : run_producer(p)
  \/ \E c \in Consumers : run_consumer(c)
  \/ AllDone /\ UNCHANGED wvars

(***************************************************************************)
(* A thread spinning in __LOCK_IDX is enabled only while the lock is free, *)
(* and the CAS of another thread may win every time.  Strong fairness says *)
(* that this does not go on for ever: a refused producer sleeps before it  *)
(* tries again, and so leaves the locks free.                              *)
(***************************************************************************)
WFairness ==
  /\ \A p \in Producers : SF_wvars(run_producer(p))
  /\ \A c \in Consumers : SF_wvars(run_consumer(c))

WSpec == WInit /\ [][WNext]_wvars /\ WFairness

-----------------------------------------------------------------------------
\* Where value v is: with a producer, in the queue, with a consumer, consumed.
WithProducer(v) ==
  {p \in Producers : cached[p] = v /\ ~ (pc[p] # "idle" /\ result[p])}
InQueue(v) == {i \in 1 .. size : Items[i] = v}
WithConsumer(v) ==
  {c \in Consumers : hand[c] = v \/ (pc[c] = "take_unlock" /\ result[c] /\ elem[c] = v)}
ConsumedBy(v) == {c \in Consumers : v \in consumed[c]}

(***************************************************************************)
(* The test adds up what was produced and what was consumed and aborts     *)
(* when they differ.  At every moment each claimed value is in exactly one *)
(* place, so that none is lost, doubled or replaced by another, whatever   *)
(* pushes are refused and however often the queue grows.                   *)
(***************************************************************************)
EachValueInOnePlace ==
  \A v \in 0 .. Total - 1 :
    Cardinality(WithProducer(v)) + Cardinality(InQueue(v))
      + Cardinality(WithConsumer(v)) + Cardinality(ConsumedBy(v))
    = IF v < vindex THEN 1 ELSE 0

(***************************************************************************)
(* main joins all the threads: every producer and every consumer returns.  *)
(***************************************************************************)
AllThreadsReturn == <>AllDone

=============================================================================
