------------------------------- MODULE Keygen -------------------------------
(***************************************************************************)
(* keygen_display of src/cryptochan.c makes a key pair of random bytes and *)
(* prints it; the user copies the two lines into a configuration, with at  *)
(* most one slip, and cryptochan_config_load reads the keys from there.    *)
(***************************************************************************)
EXTENDS RandomFill, Keys

ASSUME KeygenAssumption == KeyLen = Size /\ ByteBase = Pow2[ByteBits]

VARIABLES
  public,    \* public_key_data
  printed,   \* the texts keygen has printed
  config     \* the texts of the configuration

vars == <<fillVars, public, printed, config>>

Nothing == [private |-> NoText, public |-> NoText]

Init ==
  /\ FillInit
  /\ public = NoKey
  /\ printed = Nothing
  /\ config = Nothing

Goto(here, there) == pc = here /\ pc' = there
Filling == <<use_prng, state, got, filled, ptr, from, draws>>

ByteValue(b) == Number([i \in 1 .. ByteBits |-> IF ByteBits - i \in b THEN 1 ELSE 0], 2)
Key(m) == [i \in 1 .. KeyLen |-> ByteValue(m[i - 1])]   \* private_key_data

-----------------------------------------------------------------------------
FillFails ==
  /\ Goto("fill_failed", "failure")
  /\ UNCHANGED <<Filling, buf, public, printed, config>>

Pair ==
  /\ Goto("filled", IF privkey_to_pubkey(Key(buf)) = NoKey THEN "shift" ELSE "print_private")
  /\ public' = privkey_to_pubkey(Key(buf))
  /\ UNCHANGED <<Filling, buf, printed, config>>

\* Fault: the least significant byte is shifted.
HalvedLast(m) == [m EXCEPT ![KeyLen - 1] = {i - 1 : i \in @ \ {0}}]

\* private_key_data[0] >>= 1
Halved(m) == [m EXCEPT ![0] = {i - 1 : i \in @ \ {0}}]

\* Fault: the key is shifted once its public key has been made.
ShiftLate ==
  /\ Goto("shift", IF privkey_to_pubkey(Key(Halved(buf))) = NoKey THEN "no_pair" ELSE "print_private")
  /\ public' = privkey_to_pubkey(Key(Halved(buf)))
  /\ UNCHANGED <<Filling, buf, printed, config>>

\* Fault: the key is shifted again and again.
ShiftUntilPair ==
  /\ Goto("shift", IF privkey_to_pubkey(Key(Halved(buf))) = NoKey THEN "shift" ELSE "print_private")
  /\ buf' = Halved(buf)
  /\ public' = privkey_to_pubkey(Key(buf'))
  /\ UNCHANGED <<Filling, printed, config>>

\* order overflow? shift and repeat
ShiftAndRepeat ==
  /\ Goto("shift", IF privkey_to_pubkey(Key(Halved(buf))) = NoKey THEN "no_pair" ELSE "print_private")
  /\ buf' = Halved(buf)
  /\ public' = privkey_to_pubkey(Key(buf'))
  /\ UNCHANGED <<Filling, printed, config>>

NoPair ==
  /\ Goto("no_pair", "failure")
  /\ UNCHANGED <<Filling, buf, public, printed, config>>

PrintPrivate ==
  /\ Goto("print_private", "print_public")
  /\ \E allocated \in BOOLEAN :
       printed' = [printed EXCEPT !.private = privkey_to_b58enc_form(Key(buf), allocated)]
  /\ UNCHANGED <<Filling, buf, public, config>>

PrintPublic ==
  /\ Goto("print_public", "success")
  /\ \E allocated \in BOOLEAN :
       printed' = [printed EXCEPT !.public = pubkey_to_b58enc_form(public, allocated)]
  /\ UNCHANGED <<Filling, buf, public, config>>

keygen_display ==
  \/ fill_random /\ UNCHANGED <<public, printed, config>>
  \/ FillFails \/ Pair \/ ShiftAndRepeat \/ NoPair \/ PrintPrivate \/ PrintPublic

-----------------------------------------------------------------------------
\* A character that is wrong, left out or too much.
Slips(text) ==
  {[text EXCEPT ![i] = d] : i \in DOMAIN text, d \in 0 .. DigitBase}
    \cup {RemoveAt(text, i) : i \in DOMAIN text}
    \cup {InsertAt(text, i, d) : i \in 1 .. Len(text) + 1, d \in 0 .. DigitBase}

Copies(keys) ==
  {keys} \cup {[keys EXCEPT !.private = t] : t \in Slips(keys.private)}
         \cup {[keys EXCEPT !.public = t] : t \in Slips(keys.public)}

Accepted(keys) ==
  LET key == decode_b58_privkey(keys.private)
      pub == decode_b58_pubkey(keys.public)
  IN  key # NoKey /\ pub # NoKey /\ check_pubkey_belongs_to_privkey(key, pub)

LoadKeys ==
  /\ printed.private # NoText /\ printed.public # NoText
  /\ \E keys \in Copies(printed) :
       /\ config' = keys
       /\ Goto("success", IF Accepted(keys) THEN "accepted" ELSE "rejected")
  /\ UNCHANGED <<Filling, buf, public, printed>>

Done == pc \in {"failure", "success", "accepted", "rejected"}

Next ==
  \/ keygen_display
  \/ LoadKeys
  \/ Done /\ UNCHANGED vars

Spec == Init /\ [][Next]_vars /\ WF_vars(keygen_display)

-----------------------------------------------------------------------------
(***************************************************************************)
(* "order overflow? shift and repeat": keygen only gives up for want of a  *)
(* key pair when all the random bytes are zero; a key past the order of    *)
(* the curve is a key after one shift.                                     *)
(***************************************************************************)
GivesUpOnlyOnZero ==
  [][pc = "shift" /\ pc' = "no_pair" => \A i \in 0 .. Size - 1 : buf[i] = {}]_vars

(***************************************************************************)
(* What keygen prints is what config_load accepts, whatever the random     *)
(* bytes: no key, one with leading zeros for instance, has a text that the *)
(* limits on the number of digits or bytes refuse, and the public key is   *)
(* that of the private key as printed, after a shift too.                  *)
(***************************************************************************)
OwnKeysAccepted == pc = "rejected" => config # printed

(***************************************************************************)
(* With the optional public key in the configuration one slip in copying   *)
(* either text never goes unnoticed: config_load refuses the keys.         *)
(***************************************************************************)
MistakeCaught == pc = "accepted" => config = printed

(***************************************************************************)
(* However short the results of getrandom are, keygen ends.                *)
(***************************************************************************)
KeygenEnds == <>Done

=============================================================================
