------------------------- MODULE CyclicBufferOrder --------------------------
(***************************************************************************)
(* The memory orders of cyclic_buffer.c.  CyclicBuffer takes its steps one *)
(* after the other; the C code only gets the ordering between the bytes    *)
(* and the counters that its memory_order arguments ask for.  This module  *)
(* follows "happens before" alongside the steps of CyclicBuffer: how much  *)
(* of each role's copying is ordered before what a role does next.         *)
(*                                                                         *)
(* An acquire load of a counter learns what was released on it.  The       *)
(* fetch_sub of the counter's owner is a read-modify-write, which          *)
(* continues the release sequence, so that nothing released is forgotten;  *)
(* the store at the end of recode_none is not, and breaks it.  The roles   *)
(* of one thread need none of that: they are in program order.             *)
(***************************************************************************)
EXTENDS CyclicBuffer

Threads == {ThreadOf[r] : r \in Roles}

VARIABLES
  seen,      \* seen[t][s]: bytes of role s whose copying happens before thread t
  released   \* released[r][s]: what an acquire load of available[r] learns

ovars == <<vars, seen, released>>

\* The order of the load at the start of each function ...
LoadOrder ==
  [writer  |-> "relaxed",
   recoder |-> IF Recoding = "xor" THEN "acquire" ELSE "relaxed",
   reader  |-> "acquire"]

\* Fault: the writer hands its bytes on without releasing them.
AddOrderRelaxed == [writer |-> "relaxed", recoder |-> "release", reader |-> "relaxed"]

\* ... and of the fetch_add on the counter downstream.
AddOrder ==
  [writer  |-> "release",
   recoder |-> IF Recoding = "xor" THEN "release" ELSE "relaxed",
   reader  |-> "relaxed"]

Nothing == [s \in Roles |-> 0]
Join(f, g) == [s \in Roles |-> IF f[s] < g[s] THEN g[s] ELSE f[s]]

Moves(r, from, to) == pc[r] = from /\ pc'[r] = to

\* What a step of r orders before all that its thread does from then on.
Learnt(r) ==
  CASE Moves(r, "idle", "copy") /\ LoadOrder[r] = "acquire" -> released[r]
    [] Moves(r, "copy", "add") -> [Nothing EXCEPT ![r] = b_idx[r] + size[r]]
    [] OTHER -> Nothing

\* The release sequences of the counters after a step of r.
ReleasedBy(r) ==
  CASE Moves(r, "add", "sub") /\ AddOrder[r] = "release" ->
         [released EXCEPT ![Downstream(r)] = Join(@, seen[ThreadOf[r]])]
    [] Moves(r, "sub", "idle") /\ r = "recoder" /\ Recoding = "none" ->
         [released EXCEPT ![r] = Nothing]
    [] OTHER -> released

OInit ==
  /\ Init
  /\ seen = [t \in Threads |-> Nothing]
  /\ released = [r \in Roles |-> Nothing]

OStep(r) ==
  /\ pc'[r] # pc[r]
  /\ seen' = [seen EXCEPT ![ThreadOf[r]] = Join(@, Learnt(r))]
  /\ released' = ReleasedBy(r)

OStill == pc' = pc /\ UNCHANGED <<seen, released>>

ONext == Next /\ (OStill \/ \E r \in Roles : OStep(r))

OSpec == OInit /\ [][ONext]_ovars

FairOSpec == OSpec /\ Fairness

-----------------------------------------------------------------------------
\* The stream position up to which r is about to touch bytes.
Reaching(r) == b_idx[r] + size[r]

\* The bytes of role s whose copying happens before what r does next.
Sees(r, s) == seen[ThreadOf[r]][s]

(***************************************************************************)
(* Bytes handed downstream are synchronised: before the recoder or the     *)
(* reader touches a byte, the copying of that byte by every role upstream  *)
(* has happened, whatever the processor or the compiler reorders.          *)
(***************************************************************************)
HandOverSynchronized ==
  /\ pc["recoder"] = "copy" => Sees("recoder", "writer") >= Reaching("recoder")
  /\ pc["reader"] = "copy" =>
       /\ Sees("reader", "recoder") >= Reaching("reader")
       /\ Sees("reader", "writer") >= Reaching("reader")

(***************************************************************************)
(* "get writeable size (synchronized)" says the comment on the load of     *)
(* available_to_write: before the writer stores over a byte, the reader's  *)
(* copying of what lay there has happened.                                 *)
(***************************************************************************)
RoomSynchronized ==
  pc["writer"] = "copy" => Sees("writer", "reader") >= Reaching("writer") - TotalSize

=============================================================================
