----------------------- MODULE CyclicBufferUseProofs ------------------------
(***************************************************************************)
(* Proofs about what surrounds the steps of cyclic_buffer.c: the memory    *)
(* orders of its atomics (CyclicBufferOrder), for every size of the buffer *)
(* and every amount of data, and the life of a buffer from one init to the *)
(* next (BufferLifecycle).  They rest on the invariants of                 *)
(* CyclicBufferProofs.                                                     *)
(***************************************************************************)
EXTENDS CyclicBufferOrder, BufferLifecycle, CyclicBufferProofs

-----------------------------------------------------------------------------
(* The steps of one role, without its indexes and bytes *)

KeepsPlace(r) == pc'[r] = pc[r] /\ size'[r] = size[r] /\ b_idx'[r] = b_idx[r]

TakesUp(r) ==
  /\ Moves(r, "idle", "copy")
  /\ size'[r] \in Nat /\ size'[r] <= available[r] /\ b_idx'[r] = b_idx[r]

Copies(r) == Moves(r, "copy", "add") /\ size'[r] = size[r] /\ b_idx'[r] = b_idx[r]

HandsOn(r) == Moves(r, "add", "sub") /\ size'[r] = size[r] /\ b_idx'[r] = b_idx[r]

Ends(r) == Moves(r, "sub", "idle") /\ b_idx'[r] = b_idx[r] + size[r]

RoleStep(r) ==
  /\ \A s \in Roles \ {r} : KeepsPlace(s)
  /\ TakesUp(r) \/ Copies(r) \/ HandsOn(r) \/ Ends(r)

\* A role that starts takes no more than its counter shows.
LEMMA LoadStarts ==
  ASSUME TypeOK, NEW r \in Roles, NEW max \in Nat, Load(r, max)
  PROVE  RoleStep(r)
  <1>1. available[r] \in Nat
    BY SizesAssumption DEF TypeOK
  <1>2. MIN(available[r], max) \in Nat /\ MIN(available[r], max) <= available[r]
    BY <1>1 DEF MIN
  <1>3. QED
    BY <1>2 DEF TypeOK, Load, ThreadIdle, Goto, RoleStep, TakesUp, KeepsPlace, Moves

\* Every step is the step of one role, or changes no role's place.
LEMMA NextIsRoleStep ==
  ASSUME TypeOK, [Next]_vars
  PROVE  (\A r \in Roles : KeepsPlace(r)) \/ (\E r \in Roles : RoleStep(r))
  <1>0. "writer" \in Roles /\ "recoder" \in Roles /\ "reader" \in Roles
    BY DEF Roles
  <1>1. ASSUME NEW r \in Roles, NEW next, Advance(r, next) PROVE RoleStep(r)
    BY <1>1 DEF TypeOK, Advance, Goto, RoleStep, Copies, KeepsPlace, Moves
  <1>2. ASSUME NEW r \in Roles, Publish(r) PROVE RoleStep(r)
    BY <1>2 DEF TypeOK, Publish, Goto, RoleStep, HandsOn, KeepsPlace, Moves
  <1>3. ASSUME NEW r \in Roles, NEW left, Return(r, left) PROVE RoleStep(r)
    BY <1>3 DEF TypeOK, Return, Goto, RoleStep, Ends, KeepsPlace, Moves
  <1>4. ASSUME NoneLoad PROVE RoleStep("recoder")
    <2>1. available["recoder"] \in Nat
      BY <1>0, SizesAssumption DEF TypeOK
    <2>2. QED
      BY <1>0, <1>4, <2>1
         DEF TypeOK, NoneLoad, ThreadIdle, Goto, RoleStep, TakesUp, KeepsPlace, Moves
  <1>5. CASE cyclic_buffer_write
    BY <1>0, <1>5, <1>1, <1>2, <1>3, LoadStarts, WantedIsNat
       DEF cyclic_buffer_write, WriteCopy, Consume
  <1>6. CASE cyclic_buffer_recode_xor
    BY <1>0, <1>6, <1>1, <1>2, <1>3, LoadStarts, SizesAssumption
       DEF cyclic_buffer_recode_xor, XorCopy, Consume
  <1>7. CASE cyclic_buffer_recode_none
    BY <1>0, <1>7, <1>1, <1>2, <1>3, <1>4 DEF cyclic_buffer_recode_none, NoneAdvance
  <1>8. CASE cyclic_buffer_read
    BY <1>0, <1>8, <1>1, <1>2, <1>3, LoadStarts, WantedIsNat
       DEF cyclic_buffer_read, ReadCopy, Consume
  <1>9. CASE UNCHANGED vars
    BY <1>9 DEF vars, KeepsPlace
  <1>10. QED
    BY <1>5, <1>6, <1>7, <1>8, <1>9 DEF Next, Finished

-----------------------------------------------------------------------------
(***************************************************************************)
(* The invariant.  A role is ordered after its own copying.  With          *)
(* recode_xor a counter releases what has been handed on to it, with the   *)
(* copying of the roles further upstream, and a role that runs an          *)
(* operation is ordered after the copying of all it has claimed.           *)
(***************************************************************************)
Claimed(r) == b_idx[r] + IF pc[r] = "idle" THEN 0 ELSE size[r]

OrderTypeOK ==
  /\ seen \in [Threads -> [Roles -> Nat]]
  /\ released \in [Roles -> [Roles -> Nat]]

OwnSeen == \A r \in Roles : Sees(r, r) >= Touched(r)

ReleasedUpstream ==
  /\ released["recoder"]["writer"] >= Published("writer")
  /\ released["reader"]["recoder"] >= Published("recoder")
  /\ released["reader"]["writer"] >= Published("recoder")

ClaimedSeen ==
  /\ Sees("recoder", "writer") >= Claimed("recoder")
  /\ Sees("reader", "recoder") >= Claimed("reader")
  /\ Sees("reader", "writer") >= Claimed("reader")

HInv == OrderTypeOK /\ OwnSeen /\ (Recoding = "xor" => ReleasedUpstream /\ ClaimedSeen)

\* Joining two views loses nothing of either.
LEMMA JoinIsMax ==
  ASSUME NEW f \in [Roles -> Nat], NEW g \in [Roles -> Nat]
  PROVE  /\ Join(f, g) \in [Roles -> Nat]
         /\ \A s \in Roles : Join(f, g)[s] >= f[s] /\ Join(f, g)[s] >= g[s]
  BY DEF Join

\* What a role and its counter see are numbers of bytes.
LEMMA ViewsAreNat ==
  ASSUME OrderTypeOK
  PROVE  \A r, s \in Roles : Sees(r, s) \in Nat /\ released[r][s] \in Nat
  BY DEF OrderTypeOK, Sees, Threads

\* Before the first operation there is nothing to order.
LEMMA InitHInv == OInit => HInv
  <1> SUFFICES ASSUME OInit PROVE HInv
    OBVIOUS
  <1>1. OrderTypeOK
    BY DEF OInit, Nothing, OrderTypeOK
  <1>2. \A r, s \in Roles : Sees(r, s) = 0 /\ released[r][s] = 0
    BY DEF OInit, Nothing, Sees, Threads
  <1>3. \A r \in Roles : Touched(r) = 0 /\ Published(r) = 0 /\ Claimed(r) = 0
    BY DEF OInit, Init, Touched, Published, Claimed
  <1>4. OwnSeen
    BY <1>2, <1>3 DEF OwnSeen
  <1>5. ReleasedUpstream /\ ClaimedSeen
    BY <1>2, <1>3 DEF ReleasedUpstream, ClaimedSeen, Roles
  <1>6. QED
    BY <1>1, <1>4, <1>5 DEF HInv

\* A step of a role changes the view of its thread only.
LEMMA RoleStepIsOStep ==
  ASSUME ONext, NEW r \in Roles, RoleStep(r)
  PROVE  OStep(r)
  <1>1. pc'[r] # pc[r]
    BY DEF RoleStep, TakesUp, Copies, HandsOn, Ends, Moves
  <1>2. \A s \in Roles \ {r} : pc'[s] = pc[s]
    BY DEF RoleStep, KeepsPlace
  <1>3. QED
    BY <1>1, <1>2 DEF ONext, OStill, OStep

\* What a step of a role does to the views: only forward.
LEMMA ViewsGrow ==
  ASSUME IInv, OrderTypeOK, NEW r \in Roles, OStep(r)
  PROVE  /\ OrderTypeOK'
         /\ \A q, s \in Roles : Sees(q, s)' >= Sees(q, s)
         /\ \A s \in Roles : Sees(r, s)' >= Learnt(r)[s]
         /\ Recoding = "xor" => \A q, s \in Roles : released'[q][s] >= released[q][s]
  <1> DEFINE t == ThreadOf[r]
  <1>1. \A q \in Roles : ThreadOf[q] \in Threads /\ Downstream(q) \in Roles
    BY DEF Threads, Downstream, Roles
  <1>2. /\ seen \in [Threads -> [Roles -> Nat]] /\ released \in [Roles -> [Roles -> Nat]]
        /\ seen[t] \in [Roles -> Nat] /\ released[r] \in [Roles -> Nat]
    BY <1>1 DEF OrderTypeOK
  <1>3. Nothing \in [Roles -> Nat] /\ b_idx[r] + size[r] \in Nat
    BY Positions DEF IInv, Nothing
  <1>4. Learnt(r) \in [Roles -> Nat]
    <2>1. Learnt(r) \in {released[r], [Nothing EXCEPT ![r] = b_idx[r] + size[r]], Nothing}
      BY DEF Learnt, Moves
    <2>2. QED
      BY <1>2, <1>3, <2>1
  <1>5. /\ Join(seen[t], Learnt(r)) \in [Roles -> Nat]
        /\ \A s \in Roles : /\ Join(seen[t], Learnt(r))[s] >= seen[t][s]
                            /\ Join(seen[t], Learnt(r))[s] >= Learnt(r)[s]
    BY <1>2, <1>4, JoinIsMax
  <1>6. seen' = [seen EXCEPT ![t] = Join(seen[t], Learnt(r))]
    BY DEF OStep
  <1>7. seen' \in [Threads -> [Roles -> Nat]] /\ seen'[t] = Join(seen[t], Learnt(r))
    BY <1>1, <1>2, <1>5, <1>6
  <1>8. ASSUME NEW q \in Roles, NEW s \in Roles PROVE Sees(q, s)' >= Sees(q, s)
    <2>1. CASE ThreadOf[q] = t
      BY <1>5, <1>7, <2>1 DEF Sees
    <2>2. CASE ThreadOf[q] # t
      <3>1. seen'[ThreadOf[q]] = seen[ThreadOf[q]] /\ seen[ThreadOf[q]][s] \in Nat
        BY <1>1, <1>2, <1>6, <2>2
      <3>2. QED
        BY <3>1 DEF Sees
    <2>3. QED
      BY <2>1, <2>2
  <1>9. \A s \in Roles : Sees(r, s)' >= Learnt(r)[s]
    BY <1>5, <1>7 DEF Sees
  <1>10. /\ released' \in [Roles -> [Roles -> Nat]]
         /\ Recoding = "xor" => \A q, s \in Roles : released'[q][s] >= released[q][s]
    <2> DEFINE d == Downstream(r)
    <2>1. d \in Roles /\ released[d] \in [Roles -> Nat]
      BY <1>1, <1>2
    <2>2. /\ Join(released[d], seen[t]) \in [Roles -> Nat]
          /\ \A s \in Roles : Join(released[d], seen[t])[s] >= released[d][s]
      BY <1>2, <2>1, JoinIsMax
    <2>3. /\ released' \in {[released EXCEPT ![d] = Join(released[d], seen[t])],
                            [released EXCEPT ![r] = Nothing], released}
          /\ Recoding = "xor" =>
               released' \in {[released EXCEPT ![d] = Join(released[d], seen[t])], released}
      BY RolesAssumption DEF OStep, ReleasedBy
    <2>4. released' \in [Roles -> [Roles -> Nat]]
      BY <1>2, <1>3, <2>1, <2>2, <2>3
    <2>5. ASSUME Recoding = "xor", NEW q \in Roles, NEW s \in Roles
          PROVE  released'[q][s] >= released[q][s]
      <3>1. released[q][s] \in Nat
        BY <1>2
      <3>2. CASE q = d /\ released' = [released EXCEPT ![d] = Join(released[d], seen[t])]
        BY <1>2, <2>1, <2>2, <3>2
      <3>3. CASE released'[q] = released[q]
        BY <3>1, <3>3
      <3>4. QED
        BY <1>2, <2>1, <2>3, <2>5, <3>2, <3>3
    <2>6. QED
      BY <2>4, <2>5
  <1>11. QED
    BY <1>7, <1>8, <1>9, <1>10 DEF OrderTypeOK

\* Nobody falls behind what he was ordered after, if he does not move on.
LEMMA OrderIsKept ==
  ASSUME IInv, HInv, NEW r \in Roles, OStep(r)
  PROVE  /\ \A s \in Roles : Touched(s)' = Touched(s) => Sees(s, s)' >= Touched(s)'
         /\ Recoding = "xor" =>
              /\ Published("writer")' = Published("writer") =>
                   released'["recoder"]["writer"] >= Published("writer")'
              /\ Published("recoder")' = Published("recoder") =>
                   /\ released'["reader"]["recoder"] >= Published("recoder")'
                   /\ released'["reader"]["writer"] >= Published("recoder")'
              /\ Claimed("recoder")' = Claimed("recoder") =>
                   Sees("recoder", "writer")' >= Claimed("recoder")'
              /\ Claimed("reader")' = Claimed("reader") =>
                   /\ Sees("reader", "recoder")' >= Claimed("reader")'
                   /\ Sees("reader", "writer")' >= Claimed("reader")'
  <1>1. OrderTypeOK /\ OrderTypeOK'
    BY ViewsGrow DEF HInv
  <1>2. \A q, s \in Roles : /\ Sees(q, s) \in Nat /\ released[q][s] \in Nat
                            /\ Sees(q, s)' \in Nat /\ released'[q][s] \in Nat
    BY <1>1 DEF OrderTypeOK, Sees, Threads
  <1>3. \A s \in Roles : Touched(s) \in Nat /\ Published(s) \in Nat /\ Claimed(s) \in Nat
    BY Positions DEF IInv, Claimed
  <1>4. \A q, s \in Roles : Sees(q, s)' >= Sees(q, s)
    BY <1>1, ViewsGrow
  <1>5. \A s \in Roles : Touched(s)' = Touched(s) => Sees(s, s)' >= Touched(s)'
    BY <1>2, <1>3, <1>4 DEF HInv, OwnSeen
  <1>6. CASE Recoding = "xor"
    <2>1. \A q, s \in Roles : released'[q][s] >= released[q][s]
      BY <1>1, <1>6, ViewsGrow
    <2>2. QED
      BY <1>2, <1>3, <1>4, <1>5, <1>6, <2>1 DEF HInv, ReleasedUpstream, ClaimedSeen, Roles
  <1>7. QED
    BY <1>5, <1>6

-----------------------------------------------------------------------------
(* One lemma per step of an operation *)

\* The load takes no more than has been handed on, and learns all of that.
LEMMA StartKeepsHInv ==
  ASSUME IInv, HInv, ONext, NEW r \in Roles, RoleStep(r), TakesUp(r)
  PROVE  HInv'
  <1>1. OStep(r) /\ OrderTypeOK /\ OrderTypeOK'
    BY RoleStepIsOStep, ViewsGrow DEF HInv
  <1>2. \A s \in Roles : Touched(s)' = Touched(s) /\ Published(s)' = Published(s)
    BY DEF RoleStep, TakesUp, KeepsPlace, Moves, Touched, Published
  <1>3. \A s \in Roles \ {r} : Claimed(s)' = Claimed(s)
    BY DEF RoleStep, KeepsPlace, Claimed
  <1>4. OwnSeen'
    BY <1>1, <1>2, OrderIsKept DEF OwnSeen
  <1>5. CASE Recoding = "xor"
    <2>1. ReleasedUpstream'
      BY <1>1, <1>2, <1>5, OrderIsKept DEF ReleasedUpstream, Roles
    <2>2. Claimed(r)' \in Nat /\ Claimed(r)' <= b_idx[r] + available[r]
      BY Positions DEF IInv, TakesUp, Moves, Claimed
    <2>3. /\ b_idx["recoder"] + available["recoder"] = Published("writer")
          /\ b_idx["reader"] + available["reader"] = Published("recoder")
          /\ Published("writer") \in Nat /\ Published("recoder") \in Nat
      BY Positions DEF IInv, Roles
    <2>4. ASSUME r \in {"recoder", "reader"}
          PROVE  \A s \in Roles : /\ Sees(r, s)' >= released[r][s]
                                  /\ Sees(r, s)' \in Nat /\ released[r][s] \in Nat
      <3>1. Learnt(r) = released[r]
        BY <1>5, <2>4 DEF Learnt, LoadOrder, TakesUp, Moves
      <3>2. \A s \in Roles : Sees(r, s)' >= released[r][s]
        BY <1>1, <3>1, ViewsGrow
      <3>3. \A s \in Roles : Sees(r, s)' \in Nat /\ released[r][s] \in Nat
        BY <1>1 DEF OrderTypeOK, Sees, Threads
      <3>4. QED
        BY <3>2, <3>3
    <2>5. CASE r = "recoder"
      <3>1. Sees("recoder", "writer")' >= Claimed("recoder")'
        BY <1>5, <2>2, <2>3, <2>4, <2>5 DEF HInv, ReleasedUpstream, Roles
      <3>2. QED
        BY <1>1, <1>3, <1>4, <1>5, <2>1, <2>5, <3>1, OrderIsKept DEF HInv, ClaimedSeen, Roles
    <2>6. CASE r = "reader"
      <3>1. /\ Sees("reader", "recoder")' >= Claimed("reader")'
            /\ Sees("reader", "writer")' >= Claimed("reader")'
        BY <1>5, <2>2, <2>3, <2>4, <2>6 DEF HInv, ReleasedUpstream, Roles
      <3>2. QED
        BY <1>1, <1>3, <1>4, <1>5, <2>1, <2>6, <3>1, OrderIsKept DEF HInv, ClaimedSeen, Roles
    <2>7. CASE r = "writer"
      BY <1>1, <1>3, <1>4, <1>5, <2>1, <2>7, OrderIsKept DEF HInv, ClaimedSeen, Roles
    <2>8. QED
      BY <2>5, <2>6, <2>7 DEF Roles
  <1>6. QED
    BY <1>1, <1>4, <1>5 DEF HInv

\* The copying itself comes before all that the role does after it.
LEMMA CopyKeepsHInv ==
  ASSUME IInv, HInv, ONext, NEW r \in Roles, RoleStep(r), Copies(r)
  PROVE  HInv'
  <1>1. OStep(r) /\ OrderTypeOK /\ OrderTypeOK'
    BY RoleStepIsOStep, ViewsGrow DEF HInv
  <1>2. \A s \in Roles : Published(s)' = Published(s) /\ Claimed(s)' = Claimed(s)
    BY DEF RoleStep, Copies, KeepsPlace, Moves, Published, Claimed
  <1>3. OwnSeen'
    <2>1. Touched(r)' = b_idx[r] + size[r] /\ Learnt(r)[r] = b_idx[r] + size[r]
      BY DEF Learnt, Nothing, Copies, Moves, Touched
    <2>2. Sees(r, r)' >= Touched(r)'
      BY <1>1, <2>1, ViewsGrow
    <2>3. \A s \in Roles \ {r} : Touched(s)' = Touched(s)
      BY DEF RoleStep, KeepsPlace, Touched
    <2>4. QED
      BY <1>1, <2>2, <2>3, OrderIsKept DEF OwnSeen
  <1>4. QED
    BY <1>1, <1>2, <1>3, OrderIsKept DEF HInv, ReleasedUpstream, ClaimedSeen, Roles

\* The fetch_add releases the bytes that the role hands on.
LEMMA HandOnKeepsHInv ==
  ASSUME IInv, HInv, ONext, NEW r \in Roles, RoleStep(r), HandsOn(r)
  PROVE  HInv'
  <1>1. OStep(r) /\ OrderTypeOK /\ OrderTypeOK'
    BY RoleStepIsOStep, ViewsGrow DEF HInv
  <1>2. \A s \in Roles : Touched(s)' = Touched(s) /\ Claimed(s)' = Claimed(s)
    BY DEF RoleStep, HandsOn, KeepsPlace, Moves, Touched, Claimed
  <1>3. \A s \in Roles \ {r} : Published(s)' = Published(s)
    BY DEF RoleStep, KeepsPlace, Published
  <1>4. Published(r)' = Touched(r) /\ Published(r)' = Claimed(r) /\ Touched(r) \in Nat
    BY Positions DEF IInv, HandsOn, Moves, Published, Touched, Claimed
  <1>5. OwnSeen' /\ (Recoding = "xor" => ClaimedSeen')
    BY <1>1, <1>2, OrderIsKept DEF OwnSeen, ClaimedSeen, Roles
  <1>6. CASE Recoding = "xor"
    <2>1. ASSUME r \in {"writer", "recoder"}
          PROVE  \A s \in Roles : /\ released'[Downstream(r)][s] >= Sees(r, s)
                                  /\ released'[Downstream(r)][s] \in Nat /\ Sees(r, s) \in Nat
      <3>1. Downstream(r) \in Roles /\ ThreadOf[r] \in Threads
        BY DEF Downstream, Roles, Threads
      <3>2. released' = [released EXCEPT ![Downstream(r)] = Join(@, seen[ThreadOf[r]])]
        BY <1>1, <1>6, <2>1 DEF OStep, ReleasedBy, AddOrder, HandsOn, Roles
      <3>3. released'[Downstream(r)] = Join(released[Downstream(r)], seen[ThreadOf[r]])
        BY <1>1, <3>1, <3>2 DEF OrderTypeOK
      <3>4. \A s \in Roles : released'[Downstream(r)][s] >= Sees(r, s)
        BY <1>1, <3>1, <3>3, JoinIsMax DEF OrderTypeOK, Sees
      <3>5. \A s \in Roles : released'[Downstream(r)][s] \in Nat /\ Sees(r, s) \in Nat
        BY <1>1, <3>1, ViewsAreNat DEF OrderTypeOK
      <3>6. QED
        BY <3>4, <3>5
    <2>2. CASE r = "writer"
      <3>1. released'["recoder"]["writer"] >= Published("writer")'
        <4>1. Sees("writer", "writer") >= Published("writer")'
          BY <1>4, <2>2 DEF HInv, OwnSeen
        <4>2. /\ released'["recoder"]["writer"] >= Sees("writer", "writer")
              /\ released'["recoder"]["writer"] \in Nat /\ Sees("writer", "writer") \in Nat
          BY <2>1, <2>2 DEF Downstream, Roles
        <4>3. QED
          BY <1>4, <2>2, <4>1, <4>2
      <3>2. QED
        BY <1>1, <1>3, <1>5, <1>6, <2>2, <3>1, OrderIsKept DEF HInv, ReleasedUpstream, Roles
    <2>3. CASE r = "recoder"
      <3>1. /\ released'["reader"]["recoder"] >= Published("recoder")'
            /\ released'["reader"]["writer"] >= Published("recoder")'
        <4>1. /\ Sees("recoder", "recoder") >= Published("recoder")'
              /\ Sees("recoder", "writer") >= Published("recoder")'
          BY <1>4, <1>6, <2>3 DEF HInv, OwnSeen, ClaimedSeen
        <4>2. \A s \in Roles : /\ released'["reader"][s] >= Sees("recoder", s)
                               /\ released'["reader"][s] \in Nat /\ Sees("recoder", s) \in Nat
          BY <2>1, <2>3 DEF Downstream
        <4>3. Published("recoder")' \in Nat
          BY <1>4, <2>3
        <4>4. QED
          BY <4>1, <4>2, <4>3 DEF Roles
      <3>2. QED
        BY <1>1, <1>3, <1>5, <1>6, <2>3, <3>1, OrderIsKept DEF HInv, ReleasedUpstream, Roles
    <2>4. CASE r = "reader"
      BY <1>1, <1>3, <1>5, <1>6, <2>4, OrderIsKept DEF HInv, ReleasedUpstream, Roles
    <2>5. QED
      BY <2>2, <2>3, <2>4 DEF Roles
  <1>7. QED
    BY <1>1, <1>5, <1>6 DEF HInv

\* A return moves nothing.
LEMMA EndKeepsHInv ==
  ASSUME IInv, HInv, ONext, NEW r \in Roles, RoleStep(r), Ends(r)
  PROVE  HInv'
  <1>1. OStep(r) /\ OrderTypeOK /\ OrderTypeOK'
    BY RoleStepIsOStep, ViewsGrow DEF HInv
  <1>2. \A s \in Roles : b_idx[s] \in Nat /\ size[s] \in Nat
    BY Positions DEF IInv
  <1>3. \A s \in Roles : /\ Touched(s)' = Touched(s) /\ Published(s)' = Published(s)
                         /\ Claimed(s)' = Claimed(s)
    BY <1>2 DEF RoleStep, KeepsPlace, Ends, Moves, Touched, Published, Claimed
  <1>4. QED
    BY <1>1, <1>3, OrderIsKept DEF HInv, OwnSeen, ReleasedUpstream, ClaimedSeen, Roles

\* One case per shape of a step.
LEMMA NextKeepsHInv == IInv /\ HInv /\ [ONext]_ovars => HInv'
  <1>1. ASSUME IInv, HInv, ONext, NEW r \in Roles, RoleStep(r) PROVE HInv'
    BY <1>1, StartKeepsHInv, CopyKeepsHInv, HandOnKeepsHInv, EndKeepsHInv DEF RoleStep
  <1>2. ASSUME HInv, UNCHANGED <<seen, released>>, \A s \in Roles : KeepsPlace(s) PROVE HInv'
    BY <1>2 DEF KeepsPlace, HInv, OrderTypeOK, OwnSeen, ReleasedUpstream, ClaimedSeen, Sees,
                Claimed, Touched, Published, Roles
  <1>3. ASSUME ONext, \A s \in Roles : KeepsPlace(s) PROVE UNCHANGED <<seen, released>>
    BY <1>3 DEF ONext, OStill, OStep, KeepsPlace
  <1>4. ASSUME UNCHANGED ovars
        PROVE  UNCHANGED <<seen, released>> /\ \A s \in Roles : KeepsPlace(s)
    BY <1>4 DEF ovars, vars, KeepsPlace
  <1>5. ASSUME IInv, ONext
        PROVE  (\A s \in Roles : KeepsPlace(s)) \/ (\E r \in Roles : RoleStep(r))
    BY <1>5, NextIsRoleStep DEF IInv, ONext
  <1>6. QED
    BY <1>1, <1>2, <1>3, <1>4, <1>5

-----------------------------------------------------------------------------
(* Theorems *)

(***************************************************************************)
(* The orders of cyclic_buffer.c are enough downstream, in a buffer of any *)
(* size and with any threads: whatever bytes the recoder or the reader is  *)
(* about to touch, the copying of them by every role upstream happens      *)
(* before.  The orders of recode_none are all relaxed: with it the reader  *)
(* has to be in the thread of the recoder, which is the writer's.          *)
(***************************************************************************)
THEOREM HandOverIsSynchronized ==
  ASSUME Recoding = "xor" \/ ThreadOf["reader"] = ThreadOf["recoder"]
  PROVE  OSpec => []HandOverSynchronized
  <1>1. OInit => IInv /\ HInv
    BY InitIInv, InitHInv DEF OInit
  <1>2. IInv /\ HInv /\ [ONext]_ovars => (IInv /\ HInv)'
    BY NextIInv, NextKeepsHInv DEF ONext, ovars
  <1>3. ASSUME IInv, HInv PROVE HandOverSynchronized
    <2>1. CASE Recoding = "xor"
      BY <1>3, <2>1 DEF HInv, ClaimedSeen, Claimed, HandOverSynchronized, Reaching
    <2>2. CASE Recoding = "none"
      <3>1. /\ Sees("recoder", "writer") = Sees("writer", "writer")
            /\ Sees("reader", "recoder") = Sees("recoder", "recoder")
            /\ Sees("reader", "writer") = Sees("writer", "writer")
        BY <2>2, RolesAssumption DEF Sees
      <3>2. \A r \in Roles : Sees(r, r) \in Nat /\ Sees(r, r) >= Touched(r)
        BY <1>3, ViewsAreNat DEF HInv, OwnSeen
      <3>3. /\ Published("writer") = b_idx["recoder"] + available["recoder"]
            /\ Published("recoder") = b_idx["reader"] + available["reader"]
        BY <1>3, Positions DEF IInv, Roles
      <3>4. ASSUME NEW r \in Roles, pc[r] = "copy"
            PROVE  Reaching(r) \in Nat /\ Reaching(r) <= b_idx[r] + available[r]
        BY <1>3, <3>4, Positions DEF IInv, Reaching
      <3>5. /\ \A r \in Roles : /\ Touched(r) \in Nat /\ Published(r) \in Nat
                                /\ Published(r) <= Touched(r)
            /\ Published("recoder") <= Published("writer")
        <4>1. \A r \in Roles : /\ Touched(r) \in Nat /\ Published(r) \in Nat
                               /\ Published(r) <= Touched(r)
          BY <1>3, Positions DEF IInv
        <4>2. Published("recoder") <= b_idx["recoder"] + available["recoder"]
          BY <1>3, Positions DEF IInv, Published, Roles
        <4>3. QED
          BY <3>3, <4>1, <4>2
      <3>6. pc["recoder"] = "copy" => Sees("recoder", "writer") >= Reaching("recoder")
        BY <3>1, <3>2, <3>3, <3>4, <3>5 DEF Roles
      <3>7. pc["reader"] = "copy" =>
              /\ Sees("reader", "recoder") >= Reaching("reader")
              /\ Sees("reader", "writer") >= Reaching("reader")
        BY <3>1, <3>2, <3>3, <3>4, <3>5 DEF Roles
      <3>8. QED
        BY <3>6, <3>7 DEF HandOverSynchronized
    <2>3. QED
      BY <2>1, <2>2, RolesAssumption
  <1>4. QED
    BY <1>1, <1>2, <1>3, PTL DEF OSpec

-----------------------------------------------------------------------------
(* The life of a buffer *)

\* A buffer without memory: nobody has anything to do, only recode_none looks.
Empty ==
  /\ idx = [r \in Roles |-> 0]
  /\ available = [r \in Roles |-> 0]
  /\ size = [r \in Roles |-> 0]
  /\ b_idx = [r \in Roles |-> 0]
  /\ pc \in [Roles -> {"idle", "copy", "add", "sub"}]
  /\ pc["writer"] = "idle" /\ pc["reader"] = "idle"

BufferLifeInv ==
  /\ has_memory \in BOOLEAN /\ chunks \in Int
  /\ has_memory => used /\ total_size = TotalSize /\ FInv
  /\ ~ has_memory => Empty
  /\ used /\ chunks > 0 => total_size # 0
  /\ ~ used => NobodyThere

\* The int product of cyclic_buffer_init is not zero.
LEMMA ChunksFill ==
  ASSUME NEW c \in Chunks, c > 0
  PROVE  /\ ChunkSize * c # 0
         /\ ChunkSize * c <= MaxSize => ChunkSize * c = TotalSize
  BY ChunksAssumption

\* What Starts leaves is the Init of CyclicBuffer, or a buffer without memory.
LEMMA StartsAnew ==
  ASSUME NobodyThere, pc \in [Roles -> {"idle", "copy", "add", "sub"}], NEW n, Starts(n)
  PROVE  /\ n = TotalSize => FInv'
         /\ n = 0 => Empty'
         /\ NobodyThere'
  <1>1. pc = [r \in Roles |-> "idle"]
    BY DEF NobodyThere
  <1>2. n = TotalSize => Init'
    BY <1>1 DEF Starts, Init
  <1>3. Init' => FInv'
    BY InitFInv, PTL
  <1>4. n = 0 => Empty'
    BY <1>1 DEF Starts, Empty, Roles
  <1>5. NobodyThere'
    BY <1>1 DEF Starts, NobodyThere
  <1>6. QED
    BY <1>2, <1>3, <1>4, <1>5

\* Before cyclic_buffer_init.
LEMMA InitBufferLifeInv == LInit => BufferLifeInv
  <1> SUFFICES ASSUME LInit PROVE BufferLifeInv
    OBVIOUS
  <1>1. Empty /\ NobodyThere
    BY DEF LInit, Empty, NobodyThere, Roles
  <1>2. used = FALSE /\ has_memory = FALSE /\ chunks \in Int
    BY DEF LInit
  <1>3. ~ used /\ ~ has_memory /\ has_memory \in BOOLEAN
    BY <1>2, Zenon
  <1>4. QED
    BY <1>1, <1>2, <1>3 DEF BufferLifeInv

\* cyclic_buffer_init, whether it fails or not.
LEMMA BufferInitKeepsLife == ASSUME BufferLifeInv, cyclic_buffer_init PROVE BufferLifeInv'
  <1>1. /\ ~ used /\ NobodyThere /\ ~ has_memory
        /\ pc \in [Roles -> {"idle", "copy", "add", "sub"}]
    BY DEF cyclic_buffer_init, Asks, InitNoChunks, InitFails, InitSucceeds, BufferLifeInv, Empty
  <1> chunks' \in Chunks /\ chunks' \in Int /\ used'
    BY ChunksAssumption DEF cyclic_buffer_init, Asks, InitNoChunks, InitFails, InitSucceeds
  <1>2. CASE InitNoChunks
    BY <1>1, <1>2, StartsAnew DEF InitNoChunks, BufferLifeInv
  <1>3. CASE InitFails
    BY <1>1, <1>3, StartsAnew, ChunksFill DEF InitFails, BufferLifeInv
  <1>4. CASE InitSucceeds
    <2>1. total_size' = TotalSize
      BY <1>4, ChunksFill DEF InitSucceeds
    <2>2. PICK n : n = total_size' /\ Starts(n)
      BY <1>4 DEF InitSucceeds
    <2>3. FInv'
      BY <1>1, <2>1, <2>2, StartsAnew
    <2>4. QED
      BY <1>4, <2>1, <2>3, SizesAssumption DEF InitSucceeds, BufferLifeInv
  <1>5. QED
    BY <1>2, <1>3, <1>4 DEF cyclic_buffer_init

\* cyclic_buffer_destroy, and the memset of what follows.
LEMMA BufferDestroyKeepsLife == ASSUME BufferLifeInv, cyclic_buffer_destroy PROVE BufferLifeInv'
  <1>1. NobodyThere /\ pc \in [Roles -> {"idle", "copy", "add", "sub"}]
    BY DEF cyclic_buffer_destroy, BufferLifeInv, Empty, FInv, IInv, TypeOK
  <1>2. Starts(0) /\ used' = FALSE /\ has_memory' = FALSE /\ chunks' \in Int
    BY DEF cyclic_buffer_destroy
  <1>3. ~ used' /\ ~ has_memory' /\ has_memory' \in BOOLEAN
    BY <1>2, Zenon
  <1>4. Empty' /\ NobodyThere'
    BY <1>1, <1>2, StartsAnew
  <1>5. QED
    BY <1>2, <1>3, <1>4 DEF BufferLifeInv

\* In a buffer without memory only cyclic_buffer_recode_none gets anywhere, with nothing.
LEMMA EmptyStaysEmpty == ASSUME Empty, Next PROVE Empty'
  <1>1. \A r \in Roles : available[r] = 0 /\ size[r] = 0 /\ b_idx[r] = 0 /\ idx[r] = 0
    BY DEF Empty
  <1>2. \A r \in Roles : \A max : ~ Load(r, max)
    BY <1>1 DEF Load
  <1>3. pc["writer"] = "idle" /\ pc["reader"] = "idle"
    BY DEF Empty
  <1>4. ~ cyclic_buffer_write /\ ~ cyclic_buffer_read
    BY <1>2, <1>3 DEF cyclic_buffer_write, cyclic_buffer_read, WriteCopy, ReadCopy, Advance,
                      Publish, Consume, Return, Roles
  <1>5. Add32(0, 0) = 0 /\ Sub32(0, 0) = 0 /\ NextIdx(0, 0) = 0 /\ (0 + 0) % TotalSize = 0
    BY SizesAssumption DEF Add32, Sub32, NextIdx
  <1>6. CASE cyclic_buffer_recode_xor \/ cyclic_buffer_recode_none
    <2>1. CASE NoneLoad
      BY <1>1, <2>1 DEF NoneLoad, Goto, Empty, Roles
    <2>2. CASE XorCopy(StreamMask) \/ NoneAdvance
      <3>1. Advance("recoder", 0)
        BY <1>1, <1>5, <2>2 DEF XorCopy, NoneAdvance, Roles
      <3>2. QED
        BY <1>1, <3>1 DEF Advance, Goto, Empty, Roles
    <2>3. CASE Publish("recoder")
      BY <1>1, <1>5, <2>3 DEF Publish, Goto, Empty, Downstream, Roles
    <2>4. CASE Consume("recoder") \/ Return("recoder", 0)
      <3>1. Return("recoder", 0)
        BY <1>1, <1>5, <2>4 DEF Consume, Roles
      <3>2. b_idx["recoder"] + size["recoder"] = 0
        BY <1>1 DEF Roles
      <3>3. /\ b_idx' = [b_idx EXCEPT !["recoder"] = 0]
             /\ available' = [available EXCEPT !["recoder"] = 0] /\ UNCHANGED <<idx, size>>
        BY <3>1, <3>2 DEF Return
      <3>4. b_idx' = b_idx /\ available' = available
        BY <3>3 DEF Empty
      <3>5. QED
        BY <3>1, <3>3, <3>4 DEF Return, Goto, Empty, Roles
    <2>5. QED
      BY <1>2, <1>6, <2>1, <2>2, <2>3, <2>4
         DEF cyclic_buffer_recode_xor, cyclic_buffer_recode_none, Roles
  <1>7. CASE UNCHANGED vars
    BY <1>7 DEF vars, Empty
  <1>8. QED
    BY <1>4, <1>6, <1>7 DEF Next, Finished

\* With memory an operation is one of CyclicBuffer, without it leads nowhere.
LEMMA NextKeepsBufferLifeInv == BufferLifeInv /\ [LNext]_lvars => BufferLifeInv'
  <1> SUFFICES ASSUME BufferLifeInv, [LNext]_lvars PROVE BufferLifeInv'
    OBVIOUS
  <1>1. CASE Use
    BY <1>1, EmptyStaysEmpty, NextFInv DEF Use, BufferLifeInv
  <1>2. CASE Stopped \/ UNCHANGED lvars
    <2>0. UNCHANGED lvars
      BY <1>2 DEF Stopped
    <2>1. UNCHANGED vars
      BY <2>0 DEF lvars
    <2>2. (FInv => FInv') /\ (Empty => Empty') /\ (NobodyThere => NobodyThere')
      BY <2>1, NextFInv DEF vars, Empty, NobodyThere
    <2>3. QED
      BY <2>0, <2>2 DEF BufferLifeInv, lvars
  <1>3. QED
    BY <1>1, <1>2, BufferInitKeepsLife, BufferDestroyKeepsLife DEF LNext

\* What the invariant says of the counters, of the null pointer and of the modulo.
LEMMA BufferLifeInvSays ==
  BufferLifeInv => RoomIsMemory /\ NullIsLeftAlone /\ OnlyNoChunksDivideByZero
  <1> SUFFICES ASSUME BufferLifeInv
               PROVE  RoomIsMemory /\ NullIsLeftAlone /\ OnlyNoChunksDivideByZero
    OBVIOUS
  <1>1. RoomIsMemory
    <2>1. CASE has_memory
      <3>1. TypeOK /\ CounterInv /\ total_size = TotalSize
        BY <2>1 DEF BufferLifeInv, FInv, IInv
      <3>2. QED
        BY <2>1, <3>1, Positions, SizesAssumption DEF RoomIsMemory, NobodyThere, Published, Roles
    <2>2. CASE ~ has_memory
      BY <2>2 DEF BufferLifeInv, Empty, RoomIsMemory, Roles
    <2>3. QED
      BY <2>1, <2>2
  <1>2. NullIsLeftAlone
    <2>1. Region(0, 0) = {}
      BY SizesAssumption DEF Region
    <2>2. QED
      BY <2>1 DEF BufferLifeInv, Empty, NullIsLeftAlone, Touching
  <1>3. OnlyNoChunksDivideByZero
    BY DEF BufferLifeInv, NobodyThere, DividesByZero, OnlyNoChunksDivideByZero
  <1>4. QED
    BY <1>1, <1>2, <1>3

(***************************************************************************)
(* Over all inits, failed or not, uses and destroys the struct either has  *)
(* memory and satisfies the invariant of CyclicBuffer, or is all zero.     *)
(***************************************************************************)
THEOREM BufferLifeInvariant == LSpec => []BufferLifeInv
  BY InitBufferLifeInv, NextKeepsBufferLifeInv, PTL DEF LSpec

(***************************************************************************)
(* The counters of a buffer at rest split the memory there is, whatever    *)
(* cyclic_buffer_init and cyclic_buffer_destroy were called before.        *)
(***************************************************************************)
THEOREM RoomIsTheMemory == LSpec => []RoomIsMemory
  BY BufferLifeInvariant, BufferLifeInvSays, PTL

(***************************************************************************)
(* No operation copies from or to the null pointer of a buffer whose       *)
(* cyclic_buffer_init failed, and none reports that it did anything.       *)
(***************************************************************************)
THEOREM NullBufferIsLeftAlone == LSpec => []NullIsLeftAlone
  BY BufferLifeInvariant, BufferLifeInvSays, PTL

(***************************************************************************)
(* The modulo of cyclic_buffer_recode_none, which runs in an empty buffer  *)
(* too, is only by zero if cyclic_buffer_init was asked for no chunk at    *)
(* all: never for want of memory, or for a size that is too large.         *)
(***************************************************************************)
THEOREM OnlyNoChunksDivide == LSpec => []OnlyNoChunksDivideByZero
  BY BufferLifeInvariant, BufferLifeInvSays, PTL

(***************************************************************************)
(* What is read of a buffer is what was written to it since its last       *)
(* cyclic_buffer_init, recoded once, whatever it was used for before.      *)
(***************************************************************************)
THEOREM DeliveredSinceInit == LSpec => []Delivered
  <1>1. BufferLifeInv => Delivered
    <2>1. CASE FInv
      BY <2>1, FInvDelivers
    <2>2. CASE Empty
      BY <2>2 DEF Empty, Delivered, Touched, Roles
    <2>3. QED
      BY <2>1, <2>2 DEF BufferLifeInv
  <1>2. QED
    BY <1>1, BufferLifeInvariant, PTL

=============================================================================
