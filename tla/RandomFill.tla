----------------------------- MODULE RandomFill -----------------------------
(***************************************************************************)
(* fill_random of src/random.c fills a buffer, either from getrandom, in   *)
(* as many pieces as the kernel cares to return, or in one piece from a    *)
(* xoshiro128+ generator seeded by the time and the process id.            *)
(*                                                                         *)
(* A word is the set of the positions of its 1 bits, and so is a byte.     *)
(***************************************************************************)
EXTENDS Integers

CONSTANTS
  ByteBits, WordBytes,  \* bits of a byte, bytes of a uint32_t
  Pow2,                 \* Pow2[i] is 2^i
  Multiplier,           \* of the seeding, 0x1b1
  Shift, Rot,           \* of the generator, 9 and 11
  Size,                 \* the bytes asked for
  Unset                 \* what the buffer holds before

WordBits == WordBytes * ByteBits
Bits == 0 .. WordBits - 1

ASSUME WordAssumption ==
  /\ ByteBits \in Nat \ {0} /\ WordBytes \in Nat \ {0} /\ WordBits \in Nat \ {0}
  /\ Pow2 \in [0 .. WordBits -> Nat \ {0}]
  /\ Pow2[0] = 1
  /\ \A i \in Bits : Pow2[i + 1] = 2 * Pow2[i]

\* Shifting a word four times by Shift leaves nothing of it: 4 * 9 >= 32.
ASSUME GeneratorAssumption ==
  /\ Multiplier \in Nat
  /\ Shift \in Nat /\ WordBits <= 4 * Shift
  /\ Rot \in 0 .. WordBits - 1
  /\ Size \in Nat

VARIABLES
  pc,
  use_prng,  \* do_use_prng, as the option -P sets it
  state,     \* uint32_t state[4] of fill_prng_random
  got,       \* filled of fill_prng_random
  filled,    \* filled of fill_random
  ptr,       \* buf of fill_random, as an offset into ...
  buf,       \* ... the caller's buffer and the word that follows it
  from,      \* for each byte of buf, the draw it comes from, and its place there
  draws      \* the number of draws so far

fillVars == <<pc, use_prng, state, got, filled, ptr, buf, from, draws>>

Memory == 0 .. Size + WordBytes - 1
NotDrawn == <<0, 0>>

-----------------------------------------------------------------------------
(* xoshiro128plus and its seeding *)

XOR(a, b) == (a \ b) \cup (b \ a)
ShiftLeft(a) == {i \in Bits : i - Shift \in a}
RotateLeft(a) == {i \in Bits : IF i < Rot THEN i - Rot + WordBits \in a ELSE i - Rot \in a}

\* a + b modulo 2^WordBits: the carry into i starts at some j and is passed on.
Plus(a, b) ==
  LET Carry(i) == \E j \in a \cap b : j < i /\ \A k \in j + 1 .. i - 1 : k \in a \cup b
  IN  {i \in Bits : (i \in XOR(a, b)) # Carry(i)}

Words(w0, w1, w2, w3) ==
  [i \in 0 .. 3 |-> CASE i = 0 -> w0 [] i = 1 -> w1 [] i = 2 -> w2 [] i = 3 -> w3]

NoState == Words({}, {}, {}, {})

Output(s) == Plus(s[0], s[3])

NextState(s) ==
  LET s2 == XOR(s[2], s[0])
      s3 == XOR(s[3], s[1])
  IN  Words(XOR(s[0], s3), XOR(s[1], s2), XOR(s2, ShiftLeft(s[1])), RotateLeft(s3))

BitsOf(n) == {i \in Bits : (n \div Pow2[i]) % 2 = 1}

\* Fault: every word is seeded alike.
SeedSame(n, i) == (n * Multiplier) % Pow2[WordBits]

Seed(n, i) == (n * Multiplier + i) % Pow2[WordBits]

Seeded(seed) ==
  LET n0 == Seed(seed, 0)
      n1 == Seed(n0, 1)
      n2 == Seed(n1, 2)
  IN  Words(BitsOf(n0), BitsOf(n1), BitsOf(n2), BitsOf(Seed(n2, 3)))

Byte(word, k) == {i \in 0 .. ByteBits - 1 : i + k * ByteBits \in word}

-----------------------------------------------------------------------------
FillInit ==
  /\ pc = "fill"
  /\ use_prng \in BOOLEAN
  /\ state = NoState
  /\ got = 0 /\ filled = 0 /\ ptr = 0
  /\ buf = [i \in Memory |-> Unset]
  /\ from = [i \in Memory |-> NotDrawn]
  /\ draws = 0

FillGoto(here, there) == pc = here /\ pc' = there /\ UNCHANGED use_prng

Missing == Size - filled     \* the argument max of fill_random_next

\* Store n bytes of the next draw, the function bytes, at offset at.
Store(at, n, bytes) ==
  /\ draws' = draws + 1
  /\ buf' = [i \in Memory |-> IF i \in at .. at + n - 1 THEN bytes[i - at] ELSE buf[i]]
  /\ from' = [i \in Memory |-> IF i \in at .. at + n - 1 THEN <<draws + 1, i - at>> ELSE from[i]]

StoreWord(n) ==
  /\ Store(ptr + got, n, [k \in 0 .. n - 1 |-> Byte(Output(state), k)])
  /\ state' = NextState(state)

CallPrng ==
  /\ use_prng /\ filled < Size
  /\ FillGoto("fill", "prng")
  /\ \E seed \in 0 .. Pow2[WordBits] - 1 : state' = Seeded(seed)
  /\ got' = 0
  /\ UNCHANGED <<filled, ptr, buf, from, draws>>

\* Fault: whole words are stored as long as any byte is missing.
WholeWordsUp == Missing

WholeWords == (Missing \div WordBytes) * WordBytes

PrngWord ==
  /\ got < WholeWords
  /\ FillGoto("prng", "prng")
  /\ StoreWord(WordBytes)
  /\ got' = got + WordBytes
  /\ UNCHANGED <<filled, ptr>>

\* The bytes of one more word, lowest first.
PrngTail ==
  /\ got >= WholeWords /\ got < Missing
  /\ FillGoto("prng", "prng")
  /\ StoreWord(Missing - got)
  /\ got' = Missing
  /\ UNCHANGED <<filled, ptr>>

PrngReturn ==
  /\ got >= Missing
  /\ FillGoto("prng", "fill")
  /\ filled' = filled + got
  /\ ptr' = ptr + got
  /\ got' = 0
  /\ state' = NoState
  /\ UNCHANGED <<buf, from, draws>>

\* getrandom returns some of the bytes asked for, at least one.
GetRandom ==
  /\ ~ use_prng /\ filled < Size
  /\ FillGoto("fill", "fill")
  /\ \E n \in 1 .. Missing : \E bytes \in [0 .. n - 1 -> SUBSET (0 .. ByteBits - 1)] :
       /\ Store(ptr, n, bytes)
       /\ filled' = filled + n
       /\ ptr' = ptr + n
  /\ UNCHANGED <<state, got>>

\* A negative result, that of an interrupted call too, ends the filling.
GetRandomFails ==
  /\ ~ use_prng /\ filled < Size
  /\ FillGoto("fill", "fill_failed")
  /\ UNCHANGED <<state, got, filled, ptr, buf, from, draws>>

Filled ==
  /\ filled >= Size
  /\ FillGoto("fill", "filled")
  /\ from' = [i \in Memory |-> NotDrawn]
  /\ draws' = 0
  /\ UNCHANGED <<state, got, filled, ptr, buf>>

fill_random ==
  \/ CallPrng \/ PrngWord \/ PrngTail \/ PrngReturn
  \/ GetRandom \/ GetRandomFails \/ Filled

-----------------------------------------------------------------------------
(***************************************************************************)
(* While fill_random runs, exactly the bytes before buf + filled have been *)
(* stored, nothing after the caller's buffer is touched, and no byte of a  *)
(* draw is used twice: over short reads, whole words and the odd bytes at  *)
(* the end of fill_prng_random alike.                                      *)
(***************************************************************************)
DrawnOnce ==
  pc \in {"fill", "prng"} =>
    /\ ptr + got <= Size
    /\ \A i \in Memory : from[i] # NotDrawn <=> i < ptr + got
    /\ \A i, j \in 0 .. ptr + got - 1 : from[i] = from[j] => i = j

(***************************************************************************)
(* xoshiro128+ yields nothing but zeros once its state is zero.  Whatever  *)
(* the time and the process id are, the seeding of fill_prng_random does   *)
(* not start there, and xoshiro128plus never gets there.                   *)
(***************************************************************************)
PrngAlive == pc = "prng" => state # NoState

=============================================================================
