-------------------------------- MODULE Keys --------------------------------
(***************************************************************************)
(* The conversions of src/ec_helper.c between keys and their base58 texts. *)
(* A key is a sequence of bytes, most significant first, a text a sequence *)
(* of digits, where the number DigitBase stands for any character that is  *)
(* not a base58 digit.  The two libraries are modelled by what the code    *)
(* needs of them: libbase58 keeps leading zeros and converts the rest as a *)
(* number; of the curve of libsecp256k1 it matters that k and Order - k    *)
(* have points with the same x and the two parities of y.                  *)
(***************************************************************************)
EXTENDS Integers, SequencesExt

CONSTANTS
  ByteBase, DigitBase,  \* 256 and 58
  KeyLen,               \* bytes of a private key, 32
  MaxPrivate,           \* the digits decode_b58_privkey accepts, 44 ...
  MaxPublic,            \* ... and decode_b58_pubkey, 46: also the sizes of their buffers
  Order,                \* the order of the curve
  NoKey, NoText         \* a conversion failed

\* The number that the digits s stand for, and the digits of n, the first not 0.
Number(s, base) ==
  LET value[i \in 0 .. Len(s)] == IF i = 0 THEN 0 ELSE value[i - 1] * base + s[i]
  IN  value[Len(s)]
Shortest(n, base) ==
  LET digits[m \in 0 .. n] == IF m = 0 THEN <<>> ELSE Append(digits[m \div base], m % base)
  IN  digits[n]
LeadingZeros(s) == CHOOSE z \in 0 .. Len(s) : /\ \A i \in 1 .. z : s[i] = 0
                                              /\ z < Len(s) => s[z + 1] # 0
WithZeros(z, s) == [i \in 1 .. z |-> 0] \o s

Rebase(s, from, to) == WithZeros(LeadingZeros(s), Shortest(Number(s, from), to))

Largest(len) == [i \in 1 .. len |-> ByteBase - 1]

\* The bytes 2 and 3 are bytes; the buffers of b58enc_data have room; the order
\* of the curve is odd, and no key is past it whose first byte has no top bit.
ASSUME KeysAssumption ==
  /\ ByteBase \in Nat /\ ByteBase > 3 /\ DigitBase \in Nat /\ DigitBase > 1
  /\ KeyLen \in Nat \ {0}
  /\ MaxPrivate \in KeyLen .. 2 * KeyLen - 1
  /\ MaxPublic \in KeyLen + 1 .. 2 * KeyLen + 1
  /\ Order \in Nat /\ Order % 2 = 1
  /\ Number([Largest(KeyLen) EXCEPT ![1] = ByteBase \div 2 - 1], ByteBase) < Order
  /\ NoKey \notin Seq(Nat) /\ NoKey \notin [x : Nat, odd : BOOLEAN]

\* "44 digits max for 32 bytes", "46 digits max for 33 bytes"; a leading zero
\* byte takes one digit.
ASSUME LimitsAssumption ==
  /\ \A z \in 0 .. KeyLen :
       z + Len(Shortest(Number(Largest(KeyLen - z), ByteBase), DigitBase)) <= MaxPrivate
  /\ Len(Shortest(Number(Largest(KeyLen + 1), ByteBase), DigitBase)) <= MaxPublic

-----------------------------------------------------------------------------
(* libbase58 *)

\* The text is followed by a NUL in the buffer.
b58enc(data, buf_size) ==
  LET text == Rebase(data, ByteBase, DigitBase)
  IN  IF Len(text) < buf_size THEN text ELSE NoText

b58tobin(text, buf_size) ==
  IF DigitBase \in Range(text) \/ Len(Shortest(Number(text, DigitBase), ByteBase)) > buf_size
  THEN NoKey ELSE Rebase(text, DigitBase, ByteBase)

-----------------------------------------------------------------------------
(* libsecp256k1 *)

seckey_verify(key) == Number(key, ByteBase) \in 1 .. Order - 1

pubkey_create(key) ==
  LET k == Number(key, ByteBase)
  IN  [x |-> IF 2 * k < Order THEN k ELSE Order - k, odd |-> k % 2 = 1]

pubkey_serialize(public) ==
  LET x == Shortest(public.x, ByteBase)
  IN  <<IF public.odd THEN 3 ELSE 2>> \o WithZeros(KeyLen - Len(x), x)

pubkey_parse(data) ==
  LET x == Number(Tail(data), ByteBase)
  IN  IF x > 0 /\ 2 * x < Order THEN [x |-> x, odd |-> data[1] = 3] ELSE NoKey

-----------------------------------------------------------------------------
(* ec_helper.c *)

decode_b58_privkey(text) ==
  IF Len(text) > MaxPrivate THEN NoKey
  ELSE LET key == b58tobin(text, MaxPrivate)
       IN  IF key # NoKey /\ Len(key) = KeyLen /\ seckey_verify(key) THEN key ELSE NoKey

decode_b58_pubkey(text) ==
  IF Len(text) > MaxPublic THEN NoKey
  ELSE LET data == b58tobin(text, MaxPublic)
       IN  IF data # NoKey /\ Len(data) = KeyLen + 1 /\ data[1] \in {2, 3}
           THEN pubkey_parse(data) ELSE NoKey

privkey_to_pubkey(key) == IF seckey_verify(key) THEN pubkey_create(key) ELSE NoKey

\* Fault: any public key belongs to a valid private key.
check_privkey_only(key, public) == privkey_to_pubkey(key) # NoKey

check_pubkey_belongs_to_privkey(key, public) == privkey_to_pubkey(key) = public

\* malloc may fail.
b58enc_data(data, allocated) ==
  IF allocated THEN b58enc(data, 2 * Len(data)) ELSE NoText

privkey_to_b58enc_form(key, allocated) == b58enc_data(key, allocated)

pubkey_to_b58enc_form(public, allocated) == b58enc_data(pubkey_serialize(public), allocated)

=============================================================================
