------------------------------ MODULE FifoQueue -----------------------------
(***************************************************************************)
(* What the cyclic queue promises to any number of threads: a first-in     *)
(* first-out queue on which every push and every take happens at one       *)
(* instant between its call and its return.  A take fails only when the    *)
(* queue is empty at that instant, a push only when it holds as many       *)
(* elements as one of the sizes in Refusals.                               *)
(***************************************************************************)
EXTENDS Naturals, Sequences

CONSTANTS
  Threads,
  Elements,
  Refusals,    \* the lengths at which a push may be refused
  NoElement

VARIABLES
  items,       \* the queue
  call         \* the call in progress of each thread, or its outcome

fvars == <<items, call>>

Call(what, e) == [what |-> what, elem |-> e]
NoCall == Call("none", NoElement)

Init ==
  /\ items = <<>>
  /\ call = [t \in Threads |-> NoCall]

Becomes(t, c) == call' = [call EXCEPT ![t] = c]

CallPush(t, e) == call[t] = NoCall /\ Becomes(t, Call("push", e)) /\ UNCHANGED items

CallTake(t) ==
  call[t] = NoCall /\ Becomes(t, Call("take", NoElement)) /\ UNCHANGED items

Push(t) ==
  /\ call[t].what = "push"
  /\ items' = Append(items, call[t].elem)
  /\ Becomes(t, Call("pushed", NoElement))

Refuse(t) ==
  /\ call[t].what = "push"
  /\ Len(items) \in Refusals
  /\ Becomes(t, Call("refused", NoElement))
  /\ UNCHANGED items

Take(t) ==
  /\ call[t].what = "take"
  /\ items # <<>>
  /\ items' = Tail(items)
  /\ Becomes(t, Call("took", Head(items)))

Empty(t) ==
  /\ call[t].what = "take"
  /\ items = <<>>
  /\ Becomes(t, Call("empty", NoElement))
  /\ UNCHANGED items

Return(t) ==
  /\ call[t].what \in {"pushed", "refused", "took", "empty"}
  /\ Becomes(t, NoCall)
  /\ UNCHANGED items

Next ==
  \E t \in Threads :
    \/ \E e \in Elements : CallPush(t, e)
    \/ CallTake(t)
    \/ Push(t) \/ Refuse(t)
    \/ Take(t) \/ Empty(t)
    \/ Return(t)

Spec == Init /\ [][Next]_fvars

=============================================================================
