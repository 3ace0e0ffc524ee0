---------------------------- MODULE RecodeStream ----------------------------
(***************************************************************************)
(* What a cyclic buffer promises to the threads around it, with no region  *)
(* and no indexes: a stream of bytes of which a prefix has been written,   *)
(* a shorter one recoded, and a still shorter one read.  The three         *)
(* prefixes grow on their own, never past one another and never more than  *)
(* Capacity apart, and every byte that comes out is the one that went in   *)
(* at that position, recoded.                                              *)
(***************************************************************************)
EXTENDS Integers

CONSTANTS
  Capacity,     \* how many written bytes may be waiting to be read
  Length,       \* the number of bytes to be sent
  Unread,       \* what out holds at a position that has not been read
  Expected(_)   \* the recoded byte at a position of the stream

VARIABLES written, recoded, read, out

svars == <<written, recoded, read, out>>

Init ==
  /\ written = 0 /\ recoded = 0 /\ read = 0
  /\ out = [k \in 0 .. Length - 1 |-> Unread]

Write ==
  /\ written' \in written + 1 .. read + Capacity
  /\ written' <= Length
  /\ UNCHANGED <<recoded, read, out>>

Recode ==
  /\ recoded' \in recoded + 1 .. written
  /\ UNCHANGED <<written, read, out>>

Read ==
  /\ read' \in read + 1 .. recoded
  /\ out' = [k \in 0 .. Length - 1 |-> IF k < read' THEN Expected(k) ELSE Unread]
  /\ UNCHANGED <<written, recoded>>

Next == Write \/ Recode \/ Read

Spec == Init /\ [][Next]_svars

=============================================================================
