------------------------------ MODULE MCKeygen ------------------------------
(***************************************************************************)
(* Keygen with bytes of two bits, words of three bytes and keys of five,   *)
(* so that a word and two odd bytes fill a key, and texts in base 3.       *)
(***************************************************************************)
EXTENDS Keygen

MCPow2 == [i \in 0 .. 6 |-> 2 ^ i]

=============================================================================
