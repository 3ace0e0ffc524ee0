---------------------------- MODULE KeygenProofs ----------------------------
(***************************************************************************)
(* Proofs about fill_random as keygen_display calls it, for words of any   *)
(* width, any multiplier and rotation, and buffers of any size; and about  *)
(* the keys keygen_display makes of the bytes, for keys of any length,     *)
(* texts in any base, and any curve of an odd order near enough the top.   *)
(***************************************************************************)
EXTENDS Keygen, WellFoundedInduction, SequenceTheorems, TLAPS

-----------------------------------------------------------------------------
(* Seeding *)

\* A remainder of an even number keeps what is odd odd.
LEMMA OddRemainder ==
  ASSUME NEW x \in Nat, NEW q \in Nat \ {0}
  PROVE  (x % (2 * q)) % 2 = x % 2
  <1> DEFINE d == x \div (2 * q)
             r == x % (2 * q)
             p == q * d
  <1>1. d \in Nat /\ r \in Nat /\ x = (2 * q) * d + r
    OBVIOUS
  <1>2. p \in Nat /\ x = 2 * p + r
    BY <1>1
  <1> HIDE DEF d, r, p
  <1>3. r % 2 = x % 2
    BY <1>1, <1>2
  <1>4. QED
    BY <1>3 DEF r

\* 2^WordBits is even.
LEMMA WordSize ==
  /\ Pow2[WordBits - 1] \in Nat \ {0}
  /\ Pow2[WordBits] = 2 * Pow2[WordBits - 1]
  /\ 0 \in Bits
  BY WordAssumption DEF Bits

\* The seeding stays within a word, and keeps parities.
LEMMA SeedParity ==
  ASSUME NEW n \in Nat, NEW i \in Nat
  PROVE  /\ Seed(n, i) \in Nat
         /\ Seed(n, i) % 2 = (n * Multiplier + i) % 2
  <1> DEFINE x == n * Multiplier + i
             q == Pow2[WordBits - 1]
  <1>1. x \in Nat
    BY GeneratorAssumption
  <1>2. Seed(n, i) = x % (2 * q) /\ q \in Nat \ {0}
    BY WordSize DEF Seed
  <1> HIDE DEF x, q
  <1>3. (x % (2 * q)) % 2 = x % 2
    BY <1>1, <1>2, OddRemainder, Zenon
  <1>4. x % (2 * q) \in Nat
    BY <1>1, <1>2
  <1>5. QED
    BY <1>2, <1>3, <1>4, Zenon DEF x

\* An odd number has a 1 bit.
LEMMA OddHasBit ==
  ASSUME NEW n \in Nat, n % 2 = 1
  PROVE  BitsOf(n) # {}
  <1>1. n \div Pow2[0] = n
    BY WordAssumption
  <1>2. QED
    BY <1>1, WordSize DEF BitsOf

\* Of the first two words at least one is odd.
LEMMA SeededAlive ==
  ASSUME NEW seed \in Nat
  PROVE  Seeded(seed) \in [0 .. 3 -> SUBSET Bits] /\ Seeded(seed) # NoState
  <1> DEFINE n0 == Seed(seed, 0)
             n1 == Seed(n0, 1)
  <1>1. n0 \in Nat /\ n1 \in Nat /\ n1 % 2 = (n0 * Multiplier + 1) % 2
    BY SeedParity
  <1>2. Seeded(seed)[0] = BitsOf(n0) /\ Seeded(seed)[1] = BitsOf(n1)
    BY DEF Seeded, Words
  <1>3. NoState[0] = {} /\ NoState[1] = {}
    BY DEF NoState, Words
  <1> HIDE DEF n0, n1
  <1>4. ASSUME n0 % 2 = 1 PROVE Seeded(seed) # NoState
    <2>1. BitsOf(n0) # {}
      BY <1>1, <1>4, OddHasBit, Zenon
    <2>2. QED
      BY <1>2, <1>3, <2>1, Zenon
  <1>5. ASSUME n0 % 2 = 0 PROVE Seeded(seed) # NoState
    <2> DEFINE h == (n0 \div 2) * Multiplier
    <2>1. h \in Nat /\ n0 = 2 * (n0 \div 2)
      BY <1>1, <1>5, GeneratorAssumption
    <2>2. n0 * Multiplier = 2 * h
      BY <2>1, <1>1, GeneratorAssumption
    <2> HIDE DEF h
    <2>3. (2 * h + 1) % 2 = 1
      BY <2>1
    <2>4. n1 % 2 = 1
      BY <1>1, <2>2, <2>3
    <2>5. BitsOf(n1) # {}
      BY <1>1, <2>4, OddHasBit, Zenon
    <2>6. QED
      BY <1>2, <1>3, <2>5, Zenon
  <1>6. Seeded(seed) # NoState
    BY <1>1, <1>4, <1>5
  <1>7. Seeded(seed) \in [0 .. 3 -> SUBSET Bits]
    BY DEF Seeded, Words, BitsOf
  <1>8. QED
    BY <1>6, <1>7

-----------------------------------------------------------------------------
(* The generator *)

\* Rotating loses no bit.
LEMMA RotationOfNothing ==
  ASSUME NEW a \in SUBSET Bits, RotateLeft(a) = {}
  PROVE  a = {}
  <1>1. SUFFICES ASSUME NEW j \in a PROVE FALSE
    OBVIOUS
  <1>2. WordBits \in Nat /\ Rot \in Nat /\ Rot < WordBits /\ j \in Nat /\ j < WordBits
    BY WordAssumption, GeneratorAssumption DEF Bits
  <1>3. CASE j + Rot < WordBits
    <2> DEFINE i == j + Rot
    <2>1. i \in Bits /\ ~(i < Rot) /\ i - Rot = j
      BY <1>2, <1>3 DEF Bits
    <2> HIDE DEF i
    <2>2. ~(i < Rot) /\ i - Rot \in a
      BY <2>1
    <2>3. i \in RotateLeft(a)
      BY <2>1, <2>2 DEF RotateLeft
    <2>4. QED
      BY <2>3
  <1>4. CASE j + Rot >= WordBits
    <2> DEFINE i == j + Rot - WordBits
    <2>1. i \in Bits /\ i < Rot /\ i - Rot + WordBits = j
      BY <1>2, <1>4 DEF Bits
    <2> HIDE DEF i
    <2>2. i < Rot /\ i - Rot + WordBits \in a
      BY <2>1
    <2>3. i \in RotateLeft(a)
      BY <2>1, <2>2 DEF RotateLeft
    <2>4. QED
      BY <2>3
  <1>5. QED
    BY <1>2, <1>3, <1>4

\* Only the empty word is its own shift.
LEMMA ShiftOfItself ==
  ASSUME NEW a \in SUBSET Bits, a = ShiftLeft(a)
  PROVE  a = {}
  <1>1. \A i \in a : i - Shift \in a
    BY DEF ShiftLeft
  <1>2. SUFFICES ASSUME NEW i \in a PROVE FALSE
    OBVIOUS
  <1>3. i \in Nat /\ i < WordBits /\ WordBits \in Nat /\ Shift \in Nat /\ WordBits <= 4 * Shift
    BY WordAssumption, GeneratorAssumption DEF Bits
  <1>4. i - Shift \in a /\ i - Shift - Shift \in a /\ i - Shift - Shift - Shift \in a
        /\ i - Shift - Shift - Shift - Shift \in a
    BY <1>1
  <1>5. i - Shift - Shift - Shift - Shift >= 0
    <2>1. \A k \in Bits : k >= 0
      BY DEF Bits
    <2>2. QED
      BY <1>4, <2>1
  <1>6. QED
    BY <1>3, <1>5

\* xoshiro128plus never gets to the state that has no way out.
LEMMA NextStateAlive ==
  ASSUME NEW s \in [0 .. 3 -> SUBSET Bits], s # NoState
  PROVE  NextState(s) \in [0 .. 3 -> SUBSET Bits] /\ NextState(s) # NoState
  <1> DEFINE s2 == XOR(s[2], s[0])
             s3 == XOR(s[3], s[1])
             new == NextState(s)
  <1>1. /\ s[0] \in SUBSET Bits /\ s[1] \in SUBSET Bits
        /\ s[2] \in SUBSET Bits /\ s[3] \in SUBSET Bits
        /\ s = [i \in 0 .. 3 |-> s[i]]
    OBVIOUS
  <1>2. s2 \in SUBSET Bits /\ s3 \in SUBSET Bits
    BY <1>1 DEF XOR
  <1>3. /\ new[0] = XOR(s[0], s3) /\ new[1] = XOR(s[1], s2)
        /\ new[2] = XOR(s2, ShiftLeft(s[1])) /\ new[3] = RotateLeft(s3)
        /\ new = [i \in 0 .. 3 |-> new[i]]
    BY DEF NextState, Words
  <1>4. new \in [0 .. 3 -> SUBSET Bits]
    <2>1. /\ new[0] \in SUBSET Bits /\ new[1] \in SUBSET Bits
          /\ new[2] \in SUBSET Bits /\ new[3] \in SUBSET Bits
      BY <1>1, <1>2, <1>3 DEF XOR, ShiftLeft, RotateLeft
    <2>2. QED
      BY <1>3, <2>1
  <1>5. ASSUME new = NoState PROVE FALSE
    <2>1. new[0] = {} /\ new[1] = {} /\ new[2] = {} /\ new[3] = {}
      BY <1>5 DEF NoState, Words
    <2>2. s3 = {}
      BY <1>2, <1>3, <2>1, RotationOfNothing
    <2>3. \A a, b : XOR(a, b) = {} => a = b
      BY DEF XOR
    <2>4. s[3] = s[1] /\ s[0] = {} /\ s[1] = s2 /\ s2 = ShiftLeft(s[1])
      BY <1>3, <2>1, <2>2, <2>3
    <2>5. s[1] = {}
      BY <1>1, <2>4, ShiftOfItself
    <2>6. s2 = s[2]
      BY <2>4 DEF XOR
    <2>7. s[0] = {} /\ s[1] = {} /\ s[2] = {} /\ s[3] = {}
      BY <2>4, <2>5, <2>6
    <2>8. s = NoState
      BY <1>1, <2>7 DEF NoState, Words
    <2>9. QED
      BY <2>8
  <1>6. QED
    BY <1>4, <1>5

-----------------------------------------------------------------------------
(* Filling the buffer *)

(***************************************************************************)
(* The invariant: the bytes before upto come from draws made so far, all   *)
(* from different places; and fill_prng_random stands at a whole word or   *)
(* at the end of the buffer, so that another word fits while one is due.   *)
(***************************************************************************)
Drawn(upto) ==
  /\ \A i \in Memory : IF i < upto THEN from[i] \in (1 .. draws) \X Nat ELSE from[i] = NotDrawn
  /\ \A i, j \in Memory : i < upto /\ j < upto /\ from[i] = from[j] => i = j

Places ==
  /\ filled \in Nat /\ got \in Nat /\ draws \in Nat
  /\ ptr = filled /\ filled + got <= Size

AtWord == got = Missing \/ \E q \in Nat : got = q * WordBytes

FillInv ==
  pc \in {"fill", "prng"} =>
    /\ Places /\ Drawn(ptr + got)
    /\ pc = "fill" => got = 0
    /\ pc = "prng" => AtWord /\ state \in [0 .. 3 -> SUBSET Bits] /\ state # NoState

\* One draw fills the places it is stored at, and no others.
LEMMA StoreDraws ==
  ASSUME draws \in Nat, NEW at \in Nat, NEW n \in Nat, at + n <= Size, Drawn(at),
         NEW bytes, Store(at, n, bytes)
  PROVE  draws' \in Nat /\ Drawn(at + n)'
  <1> USE WordAssumption, GeneratorAssumption
  <1>1. /\ draws' = draws + 1
        /\ from' = [i \in Memory |-> IF i \in at .. at + n - 1 THEN <<draws + 1, i - at>> ELSE from[i]]
    BY DEF Store
  <1>2. \A i \in Memory : i \in Nat
    BY DEF Memory
  <1>3. ASSUME NEW i \in Memory
        PROVE  /\ i < at => from'[i] = from[i] /\ from[i][1] \in 1 .. draws
                            /\ from[i] \in (1 .. draws') \X Nat
               /\ at <= i /\ i < at + n => from'[i] = <<draws + 1, i - at>> /\ i - at \in Nat
               /\ at + n <= i => from'[i] = NotDrawn
    BY <1>1, <1>2 DEF Drawn
  <1>4. ASSUME NEW i \in Memory
        PROVE  IF i < at + n THEN from'[i] \in (1 .. draws') \X Nat ELSE from'[i] = NotDrawn
    BY <1>1, <1>2, <1>3
  <1>5. ASSUME NEW i \in Memory, NEW j \in Memory, i < at + n, j < at + n, from'[i] = from'[j]
        PROVE  i = j
    <2>1. i \in Nat /\ j \in Nat
      BY <1>2
    <2>2. CASE i < at /\ j < at
      BY <1>3, <1>5, <2>2 DEF Drawn
    <2>3. CASE at <= i /\ at <= j
      <3>1. <<draws + 1, i - at>> = <<draws + 1, j - at>>
        BY <1>3, <1>5, <2>3
      <3>2. QED
        BY <2>1, <3>1
    <2>4. ASSUME NEW k \in Memory, NEW l \in Memory, k < at, at <= l, l < at + n,
                 from'[k] = from'[l]
          PROVE  FALSE
      <3>1. from'[k][1] \in 1 .. draws /\ from'[l][1] = draws + 1
        BY <1>3, <2>4
      <3>2. QED
        BY <2>4, <3>1
    <2>5. QED
      BY <1>5, <2>1, <2>2, <2>3, <2>4
  <1>6. QED
    BY <1>1, <1>4, <1>5 DEF Drawn

\* At a whole word, short of the whole words, there is room for one more.
LEMMA WordFits ==
  ASSUME Places, AtWord, got < WholeWords
  PROVE  got + WordBytes <= Missing /\ \E q \in Nat : got + WordBytes = q * WordBytes
  <1> DEFINE m == Missing \div WordBytes
             w == WordBytes
  <1>1. w \in Nat \ {0} /\ Missing \in Nat
    BY WordAssumption, GeneratorAssumption DEF Places, Missing
  <1>2. m \in Nat /\ m * w <= Missing /\ WholeWords = m * w
    BY <1>1 DEF WholeWords
  <1> HIDE DEF m, w
  <1>3. PICK q \in Nat : got = q * w
    BY <1>1, <1>2 DEF AtWord, Places, w
  <1>4. q < m
    <2>1. SUFFICES ASSUME m <= q PROVE FALSE
      BY <1>2
    <2>2. m * w <= q * w
      <3>1. (q - m) * w \in Nat /\ q * w = m * w + (q - m) * w
        BY <1>1, <1>2, <2>1
      <3>2. QED
        BY <1>1, <1>2, <3>1
    <2>3. QED
      BY <1>2, <1>3, <2>2 DEF Places
  <1>5. (q + 1) * w = got + w /\ (q + 1) * w <= m * w
    <2>1. (q + 1) * w = q * w + w
      BY <1>1
    <2>2. (m - (q + 1)) * w \in Nat /\ m * w = (q + 1) * w + (m - (q + 1)) * w
      BY <1>1, <1>2, <1>4
    <2>3. QED
      BY <1>1, <1>3, <2>1, <2>2
  <1>6. QED
    BY <1>1, <1>2, <1>3, <1>5 DEF w, Places

\* fill_random begins with nothing drawn.
LEMMA InitFillInv == Init => FillInv
  <1> SUFFICES ASSUME Init PROVE FillInv
    OBVIOUS
  <1>1. /\ pc = "fill" /\ got = 0 /\ filled = 0 /\ ptr = 0 /\ draws = 0
        /\ from = [i \in Memory |-> NotDrawn]
    BY DEF Init, FillInit
  <1>2. Places
    BY <1>1, GeneratorAssumption DEF Places
  <1>3. \A i \in Memory : ~(i < 0)
    BY DEF Memory
  <1>4. QED
    BY <1>1, <1>2, <1>3 DEF FillInv, Drawn

\* fill_prng_random: seeding, whole words, the odd bytes, and the return.
LEMMA PrngKeepsFillInv ==
  ASSUME FillInv, CallPrng \/ PrngWord \/ PrngTail \/ PrngReturn
  PROVE  FillInv'
  <1> USE WordAssumption, GeneratorAssumption DEF FillGoto
  <1>1. CASE CallPrng
    <2>1. PICK seed \in 0 .. Pow2[WordBits] - 1 : state' = Seeded(seed)
      BY <1>1 DEF CallPrng
    <2>2. state' \in [0 .. 3 -> SUBSET Bits] /\ state' # NoState
      BY <2>1, SeededAlive
    <2>3. Places /\ Drawn(ptr + got) /\ got = 0 /\ pc' = "prng" /\ got' = 0
          /\ UNCHANGED <<filled, ptr, from, draws>>
      BY <1>1 DEF CallPrng, FillInv
    <2>4. AtWord'
      BY <2>3 DEF AtWord
    <2>5. Places' /\ Drawn(ptr + got)'
      BY <2>3 DEF Places, Drawn
    <2>6. QED
      BY <2>2, <2>3, <2>4, <2>5 DEF FillInv
  <1>2. ASSUME NEW n \in Nat \ {0}, pc = "prng", pc' = "prng", StoreWord(n),
               ptr + got + n <= Size, got' = got + n, UNCHANGED <<filled, ptr>>, AtWord'
        PROVE  FillInv'
    <2>1. Places /\ Drawn(ptr + got) /\ state \in [0 .. 3 -> SUBSET Bits] /\ state # NoState
      BY <1>2 DEF FillInv
    <2> PICK at \in Nat : at = ptr + got
      BY <2>1 DEF Places
    <2>2. draws' \in Nat /\ Drawn(at + n)'
      BY <1>2, <2>1, StoreDraws DEF StoreWord, Places
    <2>3. ptr' + got' = at + n
      BY <1>2, <2>1 DEF Places
    <2>4. Places' /\ Drawn(ptr + got)'
      BY <1>2, <2>1, <2>2, <2>3 DEF Places, Drawn
    <2>5. state' \in [0 .. 3 -> SUBSET Bits] /\ state' # NoState
      BY <1>2, <2>1, NextStateAlive DEF StoreWord
    <2>6. QED
      BY <1>2, <2>4, <2>5 DEF FillInv
  <1>3. CASE PrngWord
    <2>1. Places /\ AtWord
      BY <1>3 DEF PrngWord, FillInv
    <2>2. got + WordBytes <= Missing /\ \E q \in Nat : got + WordBytes = q * WordBytes
      BY <1>3, <2>1, WordFits DEF PrngWord
    <2>3. ptr + got + WordBytes <= Size /\ WordBytes \in Nat \ {0}
      BY <2>1, <2>2 DEF Places, Missing
    <2>4. AtWord'
      BY <1>3, <2>2 DEF PrngWord, AtWord
    <2>5. QED
      BY <1>2, <1>3, <2>3, <2>4 DEF PrngWord
  <1>4. CASE PrngTail
    <2>1. Places
      BY <1>4 DEF PrngTail, FillInv
    <2>2. Missing - got \in Nat \ {0} /\ ptr + got + (Missing - got) <= Size
          /\ got + (Missing - got) = Missing
      BY <1>4, <2>1 DEF PrngTail, Places, Missing
    <2>3. AtWord'
      BY <1>4 DEF PrngTail, AtWord, Missing
    <2>4. QED
      BY <1>2, <1>4, <2>2, <2>3 DEF PrngTail
  <1>5. CASE PrngReturn
    <2>1. Places /\ Drawn(ptr + got)
      BY <1>5 DEF PrngReturn, FillInv
    <2>2. /\ pc' = "fill" /\ got' = 0 /\ filled' = filled + got /\ ptr' = ptr + got
          /\ UNCHANGED <<from, draws>>
      BY <1>5 DEF PrngReturn
    <2>3. ptr' + got' = ptr + got
      BY <2>1, <2>2 DEF Places
    <2>4. Places' /\ Drawn(ptr + got)'
      BY <2>1, <2>2, <2>3 DEF Places, Drawn
    <2>5. QED
      BY <2>2, <2>4 DEF FillInv
  <1>6. QED
    BY <1>1, <1>3, <1>4, <1>5

\* A piece that getrandom returns is stored behind the ones before it.
LEMMA GetRandomKeepsFillInv == ASSUME FillInv, GetRandom PROVE FillInv'
  <1>1. Places /\ Drawn(ptr) /\ got = 0 /\ pc' = "fill" /\ got' = 0
    <2>1. Places /\ Drawn(ptr + got) /\ got = 0 /\ pc' = "fill" /\ got' = got
      BY DEF GetRandom, FillGoto, FillInv
    <2>2. ptr + got = ptr
      BY <2>1 DEF Places
    <2>3. QED
      BY <2>1, <2>2
  <1>2. PICK n \in 1 .. Missing : /\ \E bytes : Store(ptr, n, bytes)
                                  /\ filled' = filled + n /\ ptr' = ptr + n
    BY DEF GetRandom
  <1>3. n \in Nat /\ ptr \in Nat /\ ptr + n <= Size
    BY <1>1, <1>2, GeneratorAssumption DEF Places, Missing
  <1> PICK at \in Nat : at = ptr
    BY <1>3
  <1>4. draws' \in Nat /\ Drawn(at + n)'
    BY <1>1, <1>2, <1>3, StoreDraws DEF Places
  <1>5. Places' /\ ptr' + got' = at + n
    BY <1>1, <1>2, <1>3, <1>4 DEF Places
  <1>6. Drawn(ptr + got)'
    BY <1>4, <1>5 DEF Drawn
  <1>7. QED
    BY <1>1, <1>5, <1>6 DEF FillInv

\* One case per action of fill_random; keygen_display has left it.
LEMMA NextKeepsFillInv == FillInv /\ [Next]_vars => FillInv'
  <1> SUFFICES ASSUME FillInv, [Next]_vars PROVE FillInv'
    OBVIOUS
  <1>1. CASE fill_random
    <2>1. CASE GetRandomFails \/ Filled
      BY <2>1 DEF GetRandomFails, Filled, FillGoto, FillInv
    <2>2. QED
      BY <1>1, <2>1, PrngKeepsFillInv, GetRandomKeepsFillInv DEF fill_random
  <1>2. CASE FillFails \/ Pair \/ ShiftAndRepeat \/ NoPair \/ PrintPrivate \/ PrintPublic
    <2>1. pc' \notin {"fill", "prng"}
      BY <1>2 DEF FillFails, Pair, ShiftAndRepeat, NoPair, PrintPrivate, PrintPublic, Goto
    <2>2. QED
      BY <2>1 DEF FillInv
  <1>3. CASE LoadKeys
    <2>1. pc' \notin {"fill", "prng"}
      BY <1>3 DEF LoadKeys, Goto
    <2>2. QED
      BY <2>1 DEF FillInv
  <1>4. CASE UNCHANGED vars
    BY <1>4 DEF vars, fillVars, FillInv, Places, Drawn, AtWord, Missing
  <1>5. QED
    BY <1>1, <1>2, <1>3, <1>4 DEF Next, keygen_display

\* Every byte before ptr + got is drawn, from places of draws made so far, and
\* the generator is alive while it runs.
THEOREM FillInvariance == Spec => []FillInv
  BY InitFillInv, NextKeepsFillInv, PTL DEF Spec

-----------------------------------------------------------------------------
(* What fill_random promises *)

(***************************************************************************)
(* Whatever the time and the process id are, the generator never has the   *)
(* state from which it yields nothing but zeros: the seeding makes an odd  *)
(* word, and a step of xoshiro128+ has an inverse at zero.                 *)
(***************************************************************************)
THEOREM GeneratorAlive == Spec => []PrngAlive
  <1>1. FillInv => PrngAlive
    BY DEF FillInv, PrngAlive
  <1>2. QED
    BY <1>1, FillInvariance, PTL

(***************************************************************************)
(* Whatever lengths getrandom returns, and however the size of the buffer  *)
(* lies to that of a word, every byte asked for is drawn, once, and none   *)
(* is stored past the end.                                                 *)
(***************************************************************************)
THEOREM EachByteDrawnOnce == Spec => []DrawnOnce
  <1>1. ASSUME FillInv PROVE DrawnOnce
    <2>1. SUFFICES ASSUME pc \in {"fill", "prng"}
                   PROVE  /\ ptr + got <= Size
                          /\ \A i \in Memory : from[i] # NotDrawn <=> i < ptr + got
                          /\ \A i, j \in 0 .. ptr + got - 1 : from[i] = from[j] => i = j
      BY DEF DrawnOnce
    <2>2. Places /\ Drawn(ptr + got)
      BY <1>1, <2>1 DEF FillInv
    <2>3. ptr + got \in Nat /\ ptr + got <= Size
      BY <2>2 DEF Places
    <2>4. \A i \in Memory : from[i] # NotDrawn <=> i < ptr + got
      <3>1. \A i \in Memory : i < ptr + got => from[i][1] \in 1 .. draws
        BY <2>2 DEF Drawn
      <3>2. NotDrawn[1] = 0 /\ \A d \in 1 .. draws : d # 0
        BY <2>2 DEF NotDrawn, Places
      <3>3. \A i \in Memory : ~(i < ptr + got) => from[i] = NotDrawn
        BY <2>2 DEF Drawn
      <3>4. QED
        BY <3>1, <3>2, <3>3
    <2>5. \A i \in 0 .. ptr + got - 1 : i \in Memory /\ i < ptr + got
      <3>1. WordBytes \in Nat \ {0} /\ Size \in Nat /\ ptr \in Nat /\ got \in Nat
        BY <2>2, WordAssumption, GeneratorAssumption DEF Places
      <3>2. QED
        BY <2>3, <3>1 DEF Memory
    <2>6. QED
      BY <2>2, <2>3, <2>4, <2>5 DEF Drawn
  <1>2. QED
    BY <1>1, FillInvariance, PTL

-----------------------------------------------------------------------------
(* Induction and recursion.  The theorems of the library about them take    *)
(* predicates; these lemmas take sets and functions instead.               *)

\* What holds of a number whenever it holds of the smaller ones holds of all.
LEMMA StrongInduction ==
  ASSUME NEW S, \A n \in Nat : (0 .. n - 1) \subseteq S => n \in S
  PROVE  Nat \subseteq S
  <1> SUFFICES ASSUME Nat \ S # {} PROVE FALSE
    OBVIOUS
  <1>1. PICK x \in Nat \ S : \A y \in Nat \ S : ~ (<<y, x>> \in OpToRel(<, Nat))
    <2>1. IsWellFoundedOn(OpToRel(<, Nat), Nat)
      BY NatLessThanWellFounded, Zenon
    <2>2. QED
      BY <2>1, WFMin, Zenon
  <1>2. \A y \in Nat \ S : ~ (y < x)
    BY <1>1 DEF OpToRel
  <1>3. QED
    BY <1>2

\* What holds of zero and of the successor of each number it holds of.
LEMMA Induction ==
  ASSUME NEW S, 0 \in S, \A n \in Nat : n \in S => n + 1 \in S
  PROVE  Nat \subseteq S
  <1>1. ASSUME NEW n \in Nat, (0 .. n - 1) \subseteq S PROVE n \in S
    <2>1. CASE n = 0
      BY <2>1
    <2>2. CASE n # 0
      <3>1. n - 1 \in Nat /\ n - 1 \in S
        BY <1>1, <2>2
      <3>2. n - 1 + 1 \in S
        BY <3>1
      <3>3. QED
        BY <3>2
    <2>3. QED
      BY <2>1, <2>2
  <1>2. QED
    BY <1>1, StrongInduction

\* A function whose value at n is made of n and of its value at h[n] exists.
Descends(h, N) == h \in [1 .. N -> Nat] /\ \A n \in 1 .. N : h[n] < n
Unfolds(f, N, a, h, g) == f[0] = a /\ \A n \in 1 .. N : f[n] = g[<<n, f[h[n]]>>]

LEMMA RecursionExists ==
  ASSUME NEW N \in Nat, NEW V, NEW a \in V,
         NEW h, Descends(h, N), NEW g \in [(1 .. N) \X V -> V]
  PROVE  \E f \in [0 .. N -> V] : Unfolds(f, N, a, h, g)
  <1> USE DEF Descends, Unfolds
  <1> DEFINE Up(f, k) == f[0] = a /\ \A n \in 1 .. k : f[n] = g[<<n, f[h[n]]>>]
             S == {k \in Nat : k <= N => \E f \in [0 .. k -> V] : Up(f, k)}
  <1>1. 0 \in S
    <2> DEFINE f == [i \in 0 .. 0 |-> a]
    <2>1. f \in [0 .. 0 -> V] /\ Up(f, 0)
      OBVIOUS
    <2>2. QED
      BY <2>1
  <1>2. ASSUME NEW k \in Nat, k \in S PROVE k + 1 \in S
    <2> SUFFICES ASSUME k + 1 <= N PROVE \E e \in [0 .. k + 1 -> V] : Up(e, k + 1)
      OBVIOUS
    <2>1. PICK f \in [0 .. k -> V] : Up(f, k)
      BY <1>2
    <2>2. k + 1 \in 1 .. N /\ h[k + 1] \in 0 .. k
      OBVIOUS
    <2> DEFINE e == [i \in 0 .. k + 1 |-> IF i <= k THEN f[i] ELSE g[<<k + 1, f[h[k + 1]]>>]]
    <2>3. e \in [0 .. k + 1 -> V]
      BY <2>2
    <2>4. \A i \in 0 .. k : e[i] = f[i]
      OBVIOUS
    <2>5. e[k + 1] = g[<<k + 1, e[h[k + 1]]>>]
      <3>1. e[k + 1] = g[<<k + 1, f[h[k + 1]]>>]
        OBVIOUS
      <3>2. QED
        BY <2>2, <2>4, <3>1
    <2> HIDE DEF e
    <2>6. ASSUME NEW n \in 1 .. k + 1 PROVE e[n] = g[<<n, e[h[n]]>>]
      <3>1. CASE n = k + 1
        BY <2>5, <3>1, Zenon
      <3>2. CASE n # k + 1
        <4>1. n \in 1 .. k /\ n \in 0 .. k /\ n \in 1 .. N
          BY <3>2
        <4>2. h[n] \in 0 .. k
          BY <4>1
        <4>3. QED
          BY <2>1, <2>4, <4>1, <4>2
      <3>3. QED
        BY <3>1, <3>2
    <2>7. e[0] = a
      BY <2>1, <2>4
    <2>8. QED
      BY <2>3, <2>6, <2>7
  <1> HIDE DEF S
  <1>3. N \in S
    BY <1>1, <1>2, Induction
  <1>4. QED
    BY <1>3 DEF S

\* Division by a base.
LEMMA Division ==
  ASSUME NEW m \in Nat, NEW b \in Nat, b > 1
  PROVE  /\ m \div b \in Nat /\ m % b \in 0 .. b - 1 /\ m % b \in Nat
         /\ m = (m \div b) * b + (m % b)
         /\ m > 0 => m \div b \in 0 .. m - 1
  <1> DEFINE q == m \div b
             r == m % b
  <1>1. q \in Nat /\ r \in 0 .. b - 1 /\ m = b * q + r
    OBVIOUS
  <1> HIDE DEF q, r
  <1>2. b * q = q * b /\ q * b = q + q * (b - 1) /\ q * (b - 1) \in Nat
    BY <1>1
  <1>3. m > 0 => q < m
    <2>1. CASE q = 0
      BY <1>1, <2>1
    <2>2. CASE q # 0
      <3>1. q * (b - 1) > 0
        BY <1>1, <2>2
      <3>2. QED
        BY <1>1, <1>2, <3>1
    <2>3. QED
      BY <2>1, <2>2
  <1>4. m = q * b + r
    BY <1>1, <1>2
  <1>5. r \in Nat /\ (m > 0 => q \in 0 .. m - 1)
    BY <1>1, <1>3
  <1>6. QED
    BY <1>1, <1>4, <1>5, Zenon DEF q, r

\* Quotient and remainder are unique.
LEMMA DivisionUnique ==
  ASSUME NEW q \in Nat, NEW b \in Nat, b > 1, NEW r \in 0 .. b - 1
  PROVE  (q * b + r) \div b = q /\ (q * b + r) % b = r
  <1> DEFINE m == q * b + r
             p == m \div b
             s == m % b
  <1>1. m \in Nat /\ p \in Nat /\ s \in 0 .. b - 1 /\ m = p * b + s
    <2>1. m \in Nat
      OBVIOUS
    <2> HIDE DEF m
    <2>2. QED
      BY <2>1, Division
  <1>2. q * b + r = p * b + s
    BY <1>1
  <1> HIDE DEF m, p, s
  <1>3. p = q
    <2>1. CASE p < q
      <3>1. (q - p) * b >= b /\ (q - p) * b = q * b - p * b
        BY <1>1, <2>1
      <3>2. QED
        BY <1>1, <1>2, <3>1
    <2>2. CASE q < p
      <3>1. (p - q) * b >= b /\ (p - q) * b = p * b - q * b
        BY <1>1, <2>2
      <3>2. QED
        BY <1>1, <1>2, <3>1
    <2>3. QED
      BY <1>1, <2>1, <2>2
  <1>4. QED
    BY <1>1, <1>2, <1>3 DEF p, s, m
-----------------------------------------------------------------------------
(* Numbers and their digits *)

\* Number is any function that adds up the digits from the first on.
LEMMA NumberIs ==
  ASSUME NEW s \in Seq(Nat), NEW base \in Nat, NEW f \in [0 .. Len(s) -> Nat],
         f[0] = 0, \A i \in 1 .. Len(s) : f[i] = f[i - 1] * base + s[i]
  PROVE  Number(s, base) = f[Len(s)]
  <1> DEFINE Sums(e) == e = [i \in 0 .. Len(s) |-> IF i = 0 THEN 0 ELSE e[i - 1] * base + s[i]]
             v == CHOOSE e : Sums(e)
  <1>1. Sums(f)
    OBVIOUS
  <1>2. Sums(v)
    <2> HIDE DEF Sums
    <2>1. QED
      BY <1>1
  <1>3. Number(s, base) = v[Len(s)]
    BY DEF Number
  <1> HIDE DEF v
  <1> DEFINE S == {i \in Nat : i <= Len(s) => v[i] = f[i]}
  <1>4. 0 \in S
    BY <1>2
  <1>5. ASSUME NEW i \in Nat, i \in S PROVE i + 1 \in S
    <2> SUFFICES ASSUME i + 1 <= Len(s) PROVE v[i + 1] = f[i + 1]
      OBVIOUS
    <2>1. i + 1 \in 1 .. Len(s) /\ i + 1 - 1 = i /\ v[i] = f[i]
      BY <1>5
    <2>2. v[i + 1] = v[i + 1 - 1] * base + s[i + 1]
      BY <1>2, <2>1
    <2>3. QED
      BY <2>1, <2>2
  <1> HIDE DEF S
  <1>6. Nat \subseteq S
    BY <1>4, <1>5, Induction
  <1>7. QED
    <2>1. Len(s) \in S
      BY <1>6
    <2>2. QED
      BY <1>3, <2>1 DEF S

\* There is such a function.
LEMMA SumsExist ==
  ASSUME NEW s \in Seq(Nat), NEW base \in Nat
  PROVE  \E f \in [0 .. Len(s) -> Nat] :
           f[0] = 0 /\ \A i \in 1 .. Len(s) : f[i] = f[i - 1] * base + s[i]
  <1> DEFINE N == Len(s)
             h == [i \in 1 .. N |-> i - 1]
             g == [p \in (1 .. N) \X Nat |-> p[2] * base + s[p[1]]]
  <1>1. N \in Nat /\ h \in [1 .. N -> Nat] /\ \A i \in 1 .. N : h[i] = i - 1
    OBVIOUS
  <1>2. \A i \in 1 .. N, n \in Nat : n * base + s[i] \in Nat /\ g[<<i, n>>] = n * base + s[i]
    <2>1. ASSUME NEW i \in 1 .. N, NEW n \in Nat
          PROVE  n * base + s[i] \in Nat /\ g[<<i, n>>] = n * base + s[i]
      <3>1. s[i] \in Nat /\ n * base \in Nat
        OBVIOUS
      <3>2. n * base + s[i] \in Nat
        BY <3>1
      <3>3. <<i, n>> \in (1 .. N) \X Nat /\ <<i, n>>[1] = i /\ <<i, n>>[2] = n
        OBVIOUS
      <3>4. g[<<i, n>>] = <<i, n>>[2] * base + s[<<i, n>>[1]]
        BY <3>3, Zenon
      <3>5. QED
        BY <3>2, <3>3, <3>4
    <2>2. QED
      BY <2>1
  <1>3. g \in [(1 .. N) \X Nat -> Nat]
    BY <1>2
  <1> HIDE DEF N, h, g
  <1>4. PICK f \in [0 .. N -> Nat] : f[0] = 0 /\ \A i \in 1 .. N : f[i] = g[<<i, f[h[i]]>>]
    <2>1. \A i \in 1 .. N : h[i] < i
      BY <1>1
    <2>2. N \in Nat /\ 0 \in Nat /\ h \in [1 .. N -> Nat]
      BY <1>1
    <2>3. Descends(h, N)
      BY <2>1, <2>2 DEF Descends
    <2>4. \E f \in [0 .. N -> Nat] : Unfolds(f, N, 0, h, g)
      BY <2>2, <2>3, <1>3, RecursionExists, Zenon
    <2>5. QED
      BY <2>4 DEF Unfolds
  <1>5. ASSUME NEW i \in 1 .. N PROVE f[i] = f[i - 1] * base + s[i]
    <2>1. i - 1 \in 0 .. N /\ f[i - 1] \in Nat
      BY <1>1, <1>4
    <2>2. QED
      BY <1>1, <1>2, <1>4, <2>1
  <1>6. QED
    BY <1>4, <1>5 DEF N

LEMMA NumberNat ==
  ASSUME NEW s \in Seq(Nat), NEW base \in Nat PROVE Number(s, base) \in Nat
  <1>1. PICK f \in [0 .. Len(s) -> Nat] :
          f[0] = 0 /\ \A i \in 1 .. Len(s) : f[i] = f[i - 1] * base + s[i]
    BY SumsExist
  <1>2. Number(s, base) = f[Len(s)]
    BY <1>1, NumberIs, Zenon
  <1>3. QED
    BY <1>2

LEMMA NumberEmpty == ASSUME NEW base \in Nat PROVE Number(<<>>, base) = 0
  <1>1. <<>> \in Seq(Nat) /\ Len(<<>>) = 0
    OBVIOUS
  <1>2. PICK f \in [0 .. Len(<<>>) -> Nat] :
          f[0] = 0 /\ \A i \in 1 .. Len(<<>>) : f[i] = f[i - 1] * base + <<>>[i]
    BY <1>1, SumsExist
  <1>3. QED
    BY <1>1, <1>2, NumberIs

\* One more digit at the end.
LEMMA NumberAppend ==
  ASSUME NEW s \in Seq(Nat), NEW d \in Nat, NEW base \in Nat
  PROVE  Number(Append(s, d), base) = Number(s, base) * base + d
  <1> DEFINE t == Append(s, d)
             n == Len(s)
  <1>1. t \in Seq(Nat) /\ Len(t) = n + 1 /\ n \in Nat /\ t[n + 1] = d
        /\ \A i \in 1 .. n : t[i] = s[i]
    OBVIOUS
  <1> HIDE DEF t
  <1>2. PICK f \in [0 .. Len(t) -> Nat] :
          f[0] = 0 /\ \A i \in 1 .. Len(t) : f[i] = f[i - 1] * base + t[i]
    BY <1>1, SumsExist
  <1>3. Number(t, base) = f[n + 1]
    BY <1>1, <1>2, NumberIs
  <1>4. f[n + 1] = f[n] * base + d
    <2>1. n + 1 \in 1 .. Len(t) /\ n + 1 - 1 = n
      BY <1>1
    <2>2. QED
      BY <1>1, <1>2, <2>1
  <1>5. Number(s, base) = f[n]
    <2> DEFINE e == [i \in 0 .. n |-> f[i]]
    <2>1. e \in [0 .. n -> Nat] /\ e[0] = 0 /\ e[n] = f[n]
      BY <1>1, <1>2
    <2>2. \A i \in 1 .. n : e[i] = e[i - 1] * base + s[i]
      BY <1>1, <1>2
    <2> HIDE DEF e
    <2>3. QED
      BY <2>1, <2>2, NumberIs
  <1>6. QED
    BY <1>3, <1>4, <1>5 DEF t

\* Induction over sequences: over their lengths, by the last element.
LEMMA SequenceInduction ==
  ASSUME NEW D, NEW S, <<>> \in S,
         \A s \in Seq(D), d \in D : s \in S => Append(s, d) \in S
  PROVE  Seq(D) \subseteq S
  <1> DEFINE L == {n \in Nat : \A s \in Seq(D) : Len(s) = n => s \in S}
  <1>1. 0 \in L
    <2>1. \A s \in Seq(D) : Len(s) = 0 => s = <<>>
      OBVIOUS
    <2>2. QED
      BY <2>1
  <1>2. ASSUME NEW n \in Nat, n \in L PROVE n + 1 \in L
    <2> SUFFICES ASSUME NEW t \in Seq(D), Len(t) = n + 1 PROVE t \in S
      OBVIOUS
    <2> DEFINE s == [i \in 1 .. n |-> t[i]]
    <2>1. s \in Seq(D) /\ Len(s) = n /\ t[n + 1] \in D
      OBVIOUS
    <2>2. t = Append(s, t[n + 1])
      OBVIOUS
    <2> HIDE DEF s
    <2>3. s \in S
      BY <1>2, <2>1
    <2>4. QED
      BY <2>1, <2>2, <2>3
  <1> HIDE DEF L
  <1>3. Nat \subseteq L
    BY <1>1, <1>2, Induction
  <1>4. ASSUME NEW s \in Seq(D) PROVE s \in S
    <2>1. Len(s) \in L
      BY <1>3
    <2>2. QED
      BY <2>1 DEF L
  <1>5. QED
    BY <1>4

\* Shortest is any function that splits off the last digit.
LEMMA ShortestIs ==
  ASSUME NEW base \in Nat, base > 1, NEW N \in Nat, NEW n \in 0 .. N,
         NEW f \in [0 .. N -> Seq(Nat)], f[0] = <<>>,
         \A m \in 1 .. N : f[m] = Append(f[m \div base], m % base)
  PROVE  Shortest(n, base) = f[n]
  <1> DEFINE Splits(e) ==
               e = [m \in 0 .. n |-> IF m = 0 THEN <<>> ELSE Append(e[m \div base], m % base)]
             v == CHOOSE e : Splits(e)
  <1>1. ASSUME NEW m \in 1 .. N PROVE m \div base \in 0 .. m - 1
    <2>1. m \in Nat /\ m > 0
      OBVIOUS
    <2>2. QED
      BY <2>1, Division, Zenon
  <1>2. \E e : Splits(e)
    <2> DEFINE e == [m \in 0 .. n |-> f[m]]
    <2>1. ASSUME NEW m \in 0 .. n
          PROVE  e[m] = IF m = 0 THEN <<>> ELSE Append(e[m \div base], m % base)
      <3>1. CASE m = 0
        BY <3>1
      <3>2. CASE m # 0
        <4>1. m \in 1 .. N /\ m \div base \in 0 .. n
          <5>1. m \in 1 .. N
            BY <3>2
          <5>2. m \div base \in 0 .. m - 1
            BY <1>1, <5>1, Zenon
          <5>3. QED
            BY <5>1, <5>2
        <4>2. e[m] = f[m] /\ e[m \div base] = f[m \div base]
          BY <4>1
        <4> HIDE DEF e
        <4>3. QED
          BY <3>2, <4>1, <4>2
      <3>3. QED
        BY <3>1, <3>2
    <2>2. Splits(e)
      BY <2>1
    <2>3. QED
      BY <2>2
  <1>3. Splits(v)
    <2> HIDE DEF Splits
    <2>1. QED
      BY <1>2
  <1>4. Shortest(n, base) = v[n]
    BY DEF Shortest
  <1> HIDE DEF v
  <1> DEFINE S == {m \in Nat : m <= n => v[m] = f[m]}
  <1>5. ASSUME NEW m \in Nat, (0 .. m - 1) \subseteq S PROVE m \in S
    <2> SUFFICES ASSUME m <= n PROVE v[m] = f[m]
      OBVIOUS
    <2>1. CASE m = 0
      BY <1>3, <2>1
    <2>2. CASE m # 0
      <3>1. m \in 1 .. N
        BY <2>2
      <3> DEFINE q == m \div base
      <3>2. q \in 0 .. m - 1
        BY <1>1, <3>1, Zenon
      <3> HIDE DEF q
      <3>3. v[q] = f[q]
        BY <1>5, <3>1, <3>2
      <3>4. v[m] = Append(v[q], m % base)
        <4>1. m \in 0 .. n
          OBVIOUS
        <4>2. v[m] = IF m = 0 THEN <<>> ELSE Append(v[m \div base], m % base)
          BY <1>3, <4>1, Zenon
        <4>3. QED
          BY <2>2, <4>2, Zenon DEF q
      <3>5. f[m] = Append(f[q], m % base)
        BY <3>1, Zenon DEF q
      <3>6. QED
        BY <3>3, <3>4, <3>5, Zenon
    <2>3. QED
      BY <2>1, <2>2
  <1> HIDE DEF S
  <1>6. Nat \subseteq S
    BY <1>5, StrongInduction
  <1>7. n \in S
    BY <1>6
  <1>8. QED
    BY <1>4, <1>7 DEF S

\* There is such a function.
LEMMA DigitsExist ==
  ASSUME NEW base \in Nat, base > 1, NEW N \in Nat
  PROVE  \E f \in [0 .. N -> Seq(Nat)] :
           f[0] = <<>> /\ \A m \in 1 .. N : f[m] = Append(f[m \div base], m % base)
  <1> DEFINE V == Seq(Nat)
             h == [m \in 1 .. N |-> m \div base]
             g == [p \in (1 .. N) \X V |-> Append(p[2], p[1] % base)]
  <1>1. ASSUME NEW m \in 1 .. N PROVE m \div base \in 0 .. m - 1 /\ m % base \in Nat
    <2>1. m \in Nat /\ m > 0
      OBVIOUS
    <2>2. QED
      BY <2>1, Division, Zenon
  <1>2. Descends(h, N)
    BY <1>1 DEF Descends
  <1>3. \A m \in 1 .. N, s \in V : g[<<m, s>>] = Append(s, m % base) /\ g[<<m, s>>] \in V
    <2>1. ASSUME NEW m \in 1 .. N, NEW s \in V
          PROVE  g[<<m, s>>] = Append(s, m % base) /\ g[<<m, s>>] \in V
      <3>1. <<m, s>> \in (1 .. N) \X V /\ <<m, s>>[1] = m /\ <<m, s>>[2] = s
        OBVIOUS
      <3>2. g[<<m, s>>] = Append(<<m, s>>[2], <<m, s>>[1] % base)
        BY <3>1, Zenon
      <3>3. Append(s, m % base) \in V
        BY <1>1
      <3>4. QED
        BY <3>1, <3>2, <3>3
    <2>2. QED
      BY <2>1
  <1>4. g \in [(1 .. N) \X V -> V] /\ <<>> \in V
    <2>1. ASSUME NEW p \in (1 .. N) \X V PROVE Append(p[2], p[1] % base) \in V
      <3>1. p[1] \in 1 .. N /\ p[2] \in Seq(Nat)
        OBVIOUS
      <3>2. p[1] % base \in Nat
        BY <1>1, <3>1
      <3>3. QED
        BY <3>1, <3>2
    <2>2. <<>> \in V
      OBVIOUS
    <2> HIDE DEF V
    <2>3. QED
      BY <2>1, <2>2
  <1>5. \A m \in 1 .. N : h[m] = m \div base
    OBVIOUS
  <1> HIDE DEF V, h, g
  <1>6. PICK f \in [0 .. N -> V] : Unfolds(f, N, <<>>, h, g)
    BY <1>2, <1>4, RecursionExists, Zenon
  <1>7. ASSUME NEW m \in 1 .. N PROVE f[m] = Append(f[m \div base], m % base)
    <2>1. m \div base \in 0 .. N /\ f[m \div base] \in V
      <3> DEFINE q == m \div base
      <3>1. q \in 0 .. m - 1
        BY <1>1, Zenon
      <3> HIDE DEF q
      <3>2. q \in 0 .. N /\ f[q] \in V
        BY <3>1
      <3>3. QED
        BY <3>2, Zenon DEF q
    <2>2. f[m] = g[<<m, f[m \div base]>>]
      BY <1>5, <1>6 DEF Unfolds
    <2>3. QED
      BY <1>3, <2>1, <2>2
  <1>8. f[0] = <<>>
    BY <1>6 DEF Unfolds
  <1>9. QED
    BY <1>7, <1>8 DEF V

\* The last digit is the remainder, the ones before it are the quotient's.
LEMMA ShortestStep ==
  ASSUME NEW base \in Nat, base > 1, NEW n \in Nat
  PROVE  /\ Shortest(n, base) \in Seq(Nat)
         /\ n = 0 => Shortest(n, base) = <<>>
         /\ n > 0 => Shortest(n, base) = Append(Shortest(n \div base, base), n % base)
  <1>1. PICK f \in [0 .. n -> Seq(Nat)] :
          f[0] = <<>> /\ \A m \in 1 .. n : f[m] = Append(f[m \div base], m % base)
    BY DigitsExist
  <1>2. \A m \in 0 .. n : Shortest(m, base) = f[m]
    BY <1>1, ShortestIs, Zenon
  <1> DEFINE q == n \div base
  <1>3. n > 0 => q \in 0 .. n - 1
    BY Division, Zenon
  <1>4. n \in 0 .. n /\ (n > 0 => n \in 1 .. n)
    OBVIOUS
  <1>5. n > 0 => f[n] = Append(f[q], n % base)
    BY <1>1, <1>4, Zenon
  <1> HIDE DEF q
  <1>6. n > 0 => Shortest(q, base) = f[q]
    BY <1>2, <1>3
  <1>7. Shortest(n, base) = f[n]
    BY <1>2, <1>4, Zenon
  <1>8. n > 0 => Shortest(n, base) = Append(Shortest(q, base), n % base)
    BY <1>5, <1>6, <1>7, Zenon
  <1>9. Shortest(n, base) \in Seq(Nat) /\ (n = 0 => Shortest(n, base) = <<>>)
    BY <1>1, <1>4, <1>7
  <1>10. QED
    BY <1>8, <1>9, Zenon DEF q

LEMMA LastDigit ==
  ASSUME NEW base \in Nat, base > 1, NEW n \in Nat, n > 0
  PROVE  \E q \in 0 .. n - 1, r \in 0 .. base - 1 :
           n = q * base + r /\ Shortest(n, base) = Append(Shortest(q, base), r)
  <1>1. /\ n \div base \in 0 .. n - 1 /\ n % base \in 0 .. base - 1
        /\ n = (n \div base) * base + (n % base)
    BY Division, Zenon
  <1>2. Shortest(n, base) = Append(Shortest(n \div base, base), n % base)
    BY ShortestStep, Zenon
  <1>3. QED
    BY <1>1, <1>2, Zenon

LEMMA ShortestAppend ==
  ASSUME NEW base \in Nat, base > 1, NEW q \in Nat, NEW r \in 0 .. base - 1, q * base + r > 0
  PROVE  Shortest(q * base + r, base) = Append(Shortest(q, base), r)
  <1> DEFINE n == q * base + r
  <1>1. n \div base = q /\ n % base = r
    BY DivisionUnique, Zenon
  <1>2. n \in Nat /\ n > 0
    OBVIOUS
  <1> HIDE DEF n
  <1>3. Shortest(n, base) = Append(Shortest(n \div base, base), n % base)
    BY <1>2, ShortestStep, Zenon
  <1>4. QED
    BY <1>1, <1>3, Zenon DEF n

LEMMA ShortestZero ==
  ASSUME NEW base \in Nat, base > 1 PROVE Shortest(0, base) = <<>>
  BY ShortestStep, 0 \in Nat, Zenon

\* Its digits are digits, and the first is not 0.
LEMMA ShortestDigits ==
  ASSUME NEW base \in Nat, base > 1, NEW n \in Nat
  PROVE  /\ Shortest(n, base) \in Seq(0 .. base - 1)
         /\ n > 0 => Shortest(n, base) # <<>> /\ Shortest(n, base)[1] # 0
  <1> DEFINE D == 0 .. base - 1
             Good(m) == /\ Shortest(m, base) \in Seq(D)
                        /\ m > 0 => Shortest(m, base) # <<>> /\ Shortest(m, base)[1] # 0
             S == {m \in Nat : Good(m)}
  <1>1. ASSUME NEW m \in Nat, (0 .. m - 1) \subseteq S PROVE m \in S
    <2>1. CASE m = 0
      <3>1. Shortest(m, base) = <<>> /\ <<>> \in Seq(D)
        BY <2>1, ShortestZero
      <3>2. Good(m) <=> Shortest(m, base) \in Seq(D)
        BY <2>1
      <3> HIDE DEF Good, D
      <3>3. QED
        BY <3>1, <3>2, Zenon
    <2>2. CASE m # 0
      <3>1. PICK q \in 0 .. m - 1, r \in D :
              m = q * base + r /\ Shortest(m, base) = Append(Shortest(q, base), r)
        <4>1. m > 0
          BY <2>2
        <4>2. QED
          BY <4>1, LastDigit, Zenon
      <3>2. Shortest(m, base) = Append(Shortest(q, base), r)
        BY <3>1
      <3>3. Good(q)
        BY <1>1, <3>1
      <3>4. q = 0 => Shortest(q, base) = <<>> /\ r > 0
        <4>1. q = 0 => Shortest(q, base) = <<>>
          BY ShortestZero
        <4>2. q = 0 => r > 0
          BY <2>2, <3>1
        <4>3. QED
          BY <4>1, <4>2
      <3> HIDE DEF D
      <3>5. Shortest(m, base) \in Seq(D) /\ Shortest(m, base) # <<>>
        BY <3>1, <3>2, <3>3
      <3>6. Shortest(m, base)[1] # 0
        <4>1. CASE q = 0
          <5>1. Append(<<>>, r) = <<r>>
            OBVIOUS
          <5>2. Shortest(m, base) = <<r>>
            BY <3>2, <3>4, <4>1, <5>1, Zenon
          <5>3. r # 0
            BY <3>4, <4>1
          <5>4. QED
            BY <5>2, <5>3
        <4>2. CASE q # 0
          <5>1. Shortest(q, base) \in Seq(D) /\ Shortest(q, base) # <<>>
                /\ Shortest(q, base)[1] # 0
            BY <3>1, <3>3, <4>2
          <5>2. Append(Shortest(q, base), r)[1] = Shortest(q, base)[1]
            BY <5>1
          <5>3. QED
            BY <3>2, <5>1, <5>2
        <4>3. QED
          BY <4>1, <4>2
      <3>7. QED
        BY <3>5, <3>6
    <2>3. QED
      BY <2>1, <2>2
  <1> HIDE DEF S
  <1>2. Nat \subseteq S
    BY <1>1, StrongInduction
  <1>3. n \in S
    BY <1>2
  <1>4. QED
    BY <1>3 DEF S

\* They stand for the number.
LEMMA NumberOfShortest ==
  ASSUME NEW base \in Nat, base > 1, NEW n \in Nat
  PROVE  Number(Shortest(n, base), base) = n
  <1> DEFINE S == {m \in Nat : Number(Shortest(m, base), base) = m}
  <1>1. ASSUME NEW m \in Nat, (0 .. m - 1) \subseteq S PROVE m \in S
    <2>1. CASE m = 0
      BY <2>1, ShortestStep, NumberEmpty
    <2>2. CASE m # 0
      <3>1. PICK q \in 0 .. m - 1, r \in 0 .. base - 1 :
              m = q * base + r /\ Shortest(m, base) = Append(Shortest(q, base), r)
        <4>1. m > 0
          BY <2>2
        <4>2. QED
          BY <4>1, LastDigit, Zenon
      <3>2. Shortest(m, base) = Append(Shortest(q, base), r)
        BY <3>1
      <3>3. Number(Shortest(q, base), base) = q
        BY <1>1, <3>1
      <3>4. Shortest(q, base) \in Seq(Nat)
        BY <3>1, ShortestStep
      <3>5. Number(Append(Shortest(q, base), r), base) = q * base + r
        BY <3>1, <3>3, <3>4, NumberAppend
      <3>6. QED
        BY <3>1, <3>2, <3>5
    <2>3. QED
      BY <2>1, <2>2
  <1> HIDE DEF S
  <1>2. Nat \subseteq S
    BY <1>1, StrongInduction
  <1>3. n \in S
    BY <1>2
  <1>4. QED
    BY <1>3 DEF S

\* Digits of which the first is not 0 are those of their number.
LEMMA ShortestOfNumber ==
  ASSUME NEW base \in Nat, base > 1, NEW s \in Seq(0 .. base - 1), s # <<>> => s[1] # 0
  PROVE  Shortest(Number(s, base), base) = s
  <1> DEFINE D == 0 .. base - 1
             S == {t \in Seq(D) : (t # <<>> => t[1] # 0) =>
                     /\ Shortest(Number(t, base), base) = t
                     /\ t # <<>> => Number(t, base) > 0}
  <1>1. <<>> \in S
    <2>1. Shortest(Number(<<>>, base), base) = <<>>
      BY NumberEmpty, ShortestStep
    <2>2. QED
      BY <2>1
  <1>2. ASSUME NEW t \in Seq(D), NEW d \in D, t \in S PROVE Append(t, d) \in S
    <2> DEFINE u == Append(t, d)
    <2>1. u \in Seq(D) /\ u # <<>> /\ t \in Seq(Nat) /\ d \in Nat
      <3>1. t \in Seq(Nat) /\ d \in Nat
        OBVIOUS
      <3>2. u \in Seq(D)
        BY AppendProperties
      <3>3. u # <<>>
        BY <3>1, AppendProperties
      <3>4. QED
        BY <3>1, <3>2, <3>3
    <2>2. Number(u, base) = Number(t, base) * base + d /\ Number(t, base) \in Nat
      BY <2>1, NumberAppend, NumberNat, Zenon
    <2> SUFFICES ASSUME u[1] # 0
                 PROVE  Shortest(Number(u, base), base) = u /\ Number(u, base) > 0
      BY <2>1
    <2>3. CASE t = <<>>
      <3>1. Number(t, base) = 0 /\ u[1] = d
        BY <2>3, NumberEmpty
      <3>2. Number(u, base) = d /\ d > 0
        BY <2>2, <3>1
      <3>3. 0 * base + d = d
        OBVIOUS
      <3>4. Shortest(d, base) = Append(Shortest(0, base), d)
        BY <3>2, <3>3, ShortestAppend
      <3>5. Shortest(0, base) = t
        BY <2>3, ShortestZero, Zenon
      <3>6. QED
        BY <3>2, <3>4, <3>5
    <2>4. CASE t # <<>>
      <3>1. t[1] = u[1]
        BY <2>4
      <3>2. Shortest(Number(t, base), base) = t /\ Number(t, base) > 0
        BY <1>2, <2>4, <3>1
      <3> DEFINE k == Number(t, base)
      <3>3. k \in Nat /\ k > 0 /\ Number(u, base) = k * base + d
        BY <2>2, <3>2
      <3> HIDE DEF k, u
      <3>4. k * base + d \in Nat /\ k * base + d > 0
        <4>1. k * base \in Nat /\ k * base > 0
          BY <3>3
        <4>2. QED
          BY <4>1
      <3>5. Shortest(k * base + d, base) = Append(Shortest(k, base), d)
        BY <3>3, <3>4, ShortestAppend
      <3>6. Number(u, base) > 0
        BY <3>3, <3>4
      <3>7. Shortest(Number(u, base), base) = u
        BY <3>2, <3>3, <3>5, Zenon DEF k, u
      <3>8. QED
        BY <3>6, <3>7
    <2>5. QED
      BY <2>3, <2>4
  <1> HIDE DEF S
  <1>3. Seq(D) \subseteq S
    BY <1>1, <1>2, SequenceInduction
  <1>4. s \in S
    BY <1>3
  <1>5. QED
    BY <1>4 DEF S

-----------------------------------------------------------------------------
(* Leading zeros, and the change of base *)

\* t is s with z zeros in front of it.
Padded(t, z, s) ==
  /\ Len(t) = z + Len(s)
  /\ \A i \in 1 .. z : t[i] = 0
  /\ \A i \in 1 .. Len(s) : t[z + i] = s[i]

LEMMA WithZerosIs ==
  ASSUME NEW D, 0 \in D, NEW z \in Nat, NEW s \in Seq(D)
  PROVE  WithZeros(z, s) \in Seq(D) /\ Padded(WithZeros(z, s), z, s)
  <1> DEFINE o == [i \in 1 .. z |-> 0]
             t == o \o s
  <1>1. o \in Seq(D) /\ Len(o) = z /\ \A i \in 1 .. z : o[i] = 0
    OBVIOUS
  <1> HIDE DEF o
  <1>2. t \in Seq(D) /\ Len(t) = z + Len(s)
    BY <1>1
  <1>3. \A i \in 1 .. z : t[i] = 0
    BY <1>1
  <1>4. \A i \in 1 .. Len(s) : t[z + i] = s[i]
    BY <1>1
  <1>5. QED
    BY <1>2, <1>3, <1>4, Zenon DEF WithZeros, Padded, o

\* Zeros in front change nothing.
LEMMA NumberWithZeros ==
  ASSUME NEW base \in Nat, base > 1, NEW z \in Nat, NEW s \in Seq(Nat)
  PROVE  Number(WithZeros(z, s), base) = Number(s, base)
  <1> DEFINE S == {t \in Seq(Nat) : Number(WithZeros(z, t), base) = Number(t, base)}
             L == {n \in Nat : Number(WithZeros(n, <<>>), base) = 0}
  <1>1. <<>> \in S
    <2>1. 0 \in L
      <3>1. 0 \in Nat /\ <<>> \in Seq(Nat) /\ Len(<<>>) = 0
        OBVIOUS
      <3>2. WithZeros(0, <<>>) \in Seq(Nat) /\ Padded(WithZeros(0, <<>>), 0, <<>>)
        BY <3>1, WithZerosIs, Zenon
      <3>3. WithZeros(0, <<>>) = <<>>
        BY <3>1, <3>2 DEF Padded
      <3>4. QED
        BY <3>3, NumberEmpty
    <2>2. ASSUME NEW n \in Nat, n \in L PROVE n + 1 \in L
      <3> DEFINE t == WithZeros(n, <<>>)
                 u == WithZeros(n + 1, <<>>)
      <3>1. 0 \in Nat /\ n + 1 \in Nat /\ <<>> \in Seq(Nat) /\ Len(<<>>) = 0
        OBVIOUS
      <3>2. t \in Seq(Nat) /\ Padded(t, n, <<>>)
        BY <3>1, WithZerosIs, Zenon
      <3>3. u \in Seq(Nat) /\ Padded(u, n + 1, <<>>)
        BY <3>1, WithZerosIs, Zenon
      <3>4. Number(t, base) = 0
        BY <2>2
      <3> HIDE DEF t, u
      <3>5. u = Append(t, 0)
        BY <3>1, <3>2, <3>3 DEF Padded
      <3>6. Number(u, base) = 0 * base + 0
        BY <3>2, <3>4, <3>5, NumberAppend
      <3>7. QED
        BY <3>6 DEF u
    <2> HIDE DEF L
    <2>3. Nat \subseteq L
      BY <2>1, <2>2, Induction
    <2>4. Number(WithZeros(z, <<>>), base) = 0
      BY <2>3 DEF L
    <2>5. QED
      BY <2>4, NumberEmpty
  <1>2. ASSUME NEW t \in Seq(Nat), NEW d \in Nat, t \in S PROVE Append(t, d) \in S
    <2> DEFINE o == [i \in 1 .. z |-> 0]
    <2>1. o \in Seq(Nat)
      OBVIOUS
    <2> HIDE DEF o
    <2>2. o \o Append(t, d) = Append(o \o t, d)
      BY <2>1
    <2>3. WithZeros(z, Append(t, d)) = Append(WithZeros(z, t), d)
      BY <2>2 DEF WithZeros, o
    <2>4. WithZeros(z, t) \in Seq(Nat)
      BY WithZerosIs
    <2>5. Number(Append(WithZeros(z, t), d), base) = Number(t, base) * base + d
      BY <1>2, <2>4, NumberAppend
    <2>6. Number(Append(t, d), base) = Number(t, base) * base + d
      BY NumberAppend
    <2>7. Append(t, d) \in Seq(Nat)
      OBVIOUS
    <2>8. Number(WithZeros(z, Append(t, d)), base) = Number(Append(t, d), base)
      BY <2>3, <2>5, <2>6, Zenon
    <2>9. QED
      BY <2>7, <2>8, Zenon
  <1> HIDE DEF S
  <1>3. Seq(Nat) \subseteq S
    BY <1>1, <1>2, SequenceInduction
  <1>4. s \in S
    BY <1>3
  <1>5. QED
    BY <1>4 DEF S

Leads(z, s) == (\A i \in 1 .. z : s[i] = 0) /\ (z < Len(s) => s[z + 1] # 0)

\* A sequence has one number of leading zeros.
LEMMA LeadingZerosAre ==
  ASSUME NEW s \in Seq(Nat), NEW z \in 0 .. Len(s), Leads(z, s)
  PROVE  LeadingZeros(s) = z
  <1>1. ASSUME NEW y \in 0 .. Len(s), Leads(y, s) PROVE y = z
    <2>1. CASE y < z
      <3>1. y + 1 \in 1 .. z /\ y < Len(s)
        BY <2>1
      <3>2. QED
        BY <1>1, <3>1 DEF Leads
    <2>2. CASE z < y
      <3>1. z + 1 \in 1 .. y /\ z < Len(s)
        BY <2>2
      <3>2. QED
        BY <1>1, <3>1 DEF Leads
    <2>3. QED
      BY <2>1, <2>2
  <1>2. LeadingZeros(s) = CHOOSE y \in 0 .. Len(s) : Leads(y, s)
    BY DEF LeadingZeros, Leads
  <1>3. QED
    BY <1>1, <1>2

\* There is one.
LEMMA LeadingZerosExist ==
  ASSUME NEW s \in Seq(Nat)
  PROVE  LeadingZeros(s) \in 0 .. Len(s) /\ Leads(LeadingZeros(s), s)
  <1>1. \E z \in 0 .. Len(s) : Leads(z, s)
    <2> SUFFICES ASSUME \A z \in 0 .. Len(s) : ~ Leads(z, s) PROVE FALSE
      OBVIOUS
    <2> DEFINE S == {z \in Nat : z <= Len(s) => \A i \in 1 .. z : s[i] = 0}
    <2>1. 0 \in S
      OBVIOUS
    <2>2. ASSUME NEW z \in Nat, z \in S PROVE z + 1 \in S
      <3> SUFFICES ASSUME z + 1 <= Len(s) PROVE \A i \in 1 .. z + 1 : s[i] = 0
        OBVIOUS
      <3>1. z \in 0 .. Len(s) /\ \A i \in 1 .. z : s[i] = 0
        BY <2>2
      <3>2. s[z + 1] = 0
        BY <3>1 DEF Leads
      <3>3. QED
        BY <3>1, <3>2
    <2> HIDE DEF S
    <2>3. Nat \subseteq S
      BY <2>1, <2>2, Induction
    <2>4. Len(s) \in S
      BY <2>3
    <2>5. Len(s) \in 0 .. Len(s) /\ \A i \in 1 .. Len(s) : s[i] = 0
      BY <2>4 DEF S
    <2>6. QED
      BY <2>5 DEF Leads
  <1>2. QED
    BY <1>1, LeadingZerosAre

\* Digits are their leading zeros and the digits of their number.
LEMMA DigitsAre ==
  ASSUME NEW base \in Nat, base > 1, NEW s \in Seq(0 .. base - 1)
  PROVE  /\ LeadingZeros(s) \in 0 .. Len(s)
         /\ s = WithZeros(LeadingZeros(s), Shortest(Number(s, base), base))
         /\ Len(s) = LeadingZeros(s) + Len(Shortest(Number(s, base), base))
  <1> DEFINE D == 0 .. base - 1
             z == LeadingZeros(s)
             r == SubSeq(s, z + 1, Len(s))
  <1>1. s \in Seq(Nat) /\ 0 \in D
    OBVIOUS
  <1>2. z \in 0 .. Len(s) /\ Leads(z, s)
    BY <1>1, LeadingZerosExist
  <1> HIDE DEF z
  <1>3. r \in Seq(D) /\ Len(r) = Len(s) - z /\ \A i \in 1 .. Len(s) - z : r[i] = s[z + i]
    BY <1>2
  <1> HIDE DEF r
  <1>4. r # <<>> => r[1] # 0
    BY <1>2, <1>3 DEF Leads
  <1>5. s = WithZeros(z, r)
    <2> DEFINE t == WithZeros(z, r)
    <2>1. t \in Seq(D) /\ Padded(t, z, r)
      <3>1. z \in Nat
        BY <1>2
      <3>2. QED
        BY <1>1, <1>3, <3>1, WithZerosIs, Zenon
    <2> HIDE DEF t
    <2>2. Len(t) = Len(s)
      BY <1>2, <1>3, <2>1 DEF Padded
    <2>3. ASSUME NEW i \in 1 .. Len(s) PROVE t[i] = s[i]
      <3>1. CASE i <= z
        BY <1>2, <2>1, <3>1 DEF Leads, Padded
      <3>2. CASE i > z
        <4>1. i - z \in 1 .. Len(r) /\ z + (i - z) = i
          BY <1>2, <1>3, <3>2
        <4>2. QED
          BY <1>3, <2>1, <4>1 DEF Padded
      <3>3. QED
        BY <1>2, <3>1, <3>2
    <2>4. t = s
      BY <2>1, <2>2, <2>3
    <2>5. QED
      BY <2>4 DEF t
  <1>6. Number(s, base) = Number(r, base)
    <2>1. r \in Seq(Nat) /\ z \in Nat
      BY <1>2, <1>3
    <2>2. QED
      BY <1>5, <2>1, NumberWithZeros, Zenon
  <1>7. Shortest(Number(r, base), base) = r
    BY <1>3, <1>4, ShortestOfNumber
  <1>8. QED
    BY <1>2, <1>3, <1>5, <1>6, <1>7 DEF z

\* The change of base can be undone.
LEMMA RebaseIs ==
  ASSUME NEW a \in Nat, a > 1, NEW b \in Nat, b > 1, NEW s \in Seq(0 .. a - 1)
  PROVE  /\ Rebase(s, a, b) \in Seq(0 .. b - 1)
         /\ Number(Rebase(s, a, b), b) = Number(s, a)
         /\ LeadingZeros(Rebase(s, a, b)) = LeadingZeros(s)
         /\ Rebase(Rebase(s, a, b), b, a) = s
         /\ Len(Rebase(s, a, b)) = LeadingZeros(s) + Len(Shortest(Number(s, a), b))
  <1> DEFINE z == LeadingZeros(s)
             n == Number(s, a)
             d == Shortest(n, b)
             t == Rebase(s, a, b)
             B == 0 .. b - 1
  <1>1. z \in Nat /\ s = WithZeros(z, Shortest(n, a))
    BY DigitsAre
  <1>2. n \in Nat
    <2>1. s \in Seq(Nat)
      OBVIOUS
    <2>2. QED
      BY <2>1, NumberNat
  <1>3. t = WithZeros(z, d)
    BY DEF Rebase
  <1> HIDE DEF z, n, t
  <1>4. d \in Seq(B) /\ (d # <<>> => d[1] # 0)
    <2>1. n = 0 => d = <<>>
      BY ShortestZero
    <2>2. QED
      BY <1>2, <2>1, ShortestDigits
  <1>5. Number(d, b) = n
    BY <1>2, NumberOfShortest
  <1>6. 0 \in B
    OBVIOUS
  <1>7. d \in Seq(Nat)
    BY <1>4
  <1> HIDE DEF d
  <1>8. t \in Seq(B) /\ Padded(t, z, d)
    BY <1>1, <1>3, <1>4, <1>6, WithZerosIs, Zenon
  <1>9. Number(t, b) = n
    BY <1>1, <1>3, <1>5, <1>7, NumberWithZeros
  <1>10. LeadingZeros(t) = z
    <2>1. t \in Seq(Nat) /\ z \in 0 .. Len(t)
      BY <1>1, <1>8, <1>7 DEF Padded
    <2>2. z < Len(t) => t[z + 1] = d[1] /\ d # <<>>
      BY <1>1, <1>7, <1>8 DEF Padded
    <2>3. Leads(z, t)
      BY <1>4, <1>8, <2>2 DEF Leads, Padded
    <2>4. QED
      BY <2>1, <2>3, LeadingZerosAre
  <1>11. Rebase(t, b, a) = s
    BY <1>1, <1>9, <1>10 DEF Rebase
  <1>12. Len(t) = z + Len(d)
    BY <1>8 DEF Padded
  <1>13. QED
    BY <1>8, <1>9, <1>10, <1>11, <1>12, Zenon DEF z, n, d, t

\* Larger digits make a larger number.
LEMMA NumberMonotone ==
  ASSUME NEW base \in Nat, NEW s \in Seq(Nat), NEW t \in Seq(Nat), Len(s) = Len(t),
         \A i \in 1 .. Len(s) : s[i] <= t[i]
  PROVE  Number(s, base) <= Number(t, base)
  <1> DEFINE n == Len(s)
  <1>1. PICK f \in [0 .. n -> Nat] : f[0] = 0 /\ \A i \in 1 .. n : f[i] = f[i - 1] * base + s[i]
    BY SumsExist
  <1> PICK e \in [0 .. Len(t) -> Nat] :
         e[0] = 0 /\ \A i \in 1 .. Len(t) : e[i] = e[i - 1] * base + t[i]
    BY SumsExist
  <1>2. e \in [0 .. n -> Nat] /\ e[0] = 0 /\ \A i \in 1 .. n : e[i] = e[i - 1] * base + t[i]
    OBVIOUS
  <1>3. Number(s, base) = f[n] /\ Number(t, base) = e[n]
    <2>1. Number(s, base) = f[n]
      BY <1>1, NumberIs, Zenon
    <2>2. Number(t, base) = e[Len(t)]
      BY NumberIs, Zenon
    <2>3. QED
      BY <2>1, <2>2
  <1> DEFINE S == {i \in Nat : i <= n => f[i] <= e[i]}
  <1>4. 0 \in S
    BY <1>1, <1>2
  <1>5. ASSUME NEW i \in Nat, i \in S PROVE i + 1 \in S
    <2> SUFFICES ASSUME i + 1 <= n PROVE f[i + 1] <= e[i + 1]
      OBVIOUS
    <2>1. i + 1 \in 1 .. n /\ i + 1 - 1 = i /\ f[i] \in Nat /\ e[i] \in Nat /\ f[i] <= e[i]
      <3>1. i + 1 \in 1 .. n /\ i + 1 - 1 = i /\ i \in 0 .. n /\ i <= n
        OBVIOUS
      <3>2. QED
        BY <1>2, <1>5, <3>1
    <2>2. f[i + 1] = f[i] * base + s[i + 1] /\ e[i + 1] = e[i] * base + t[i + 1]
      BY <1>1, <1>2, <2>1
    <2>3. s[i + 1] \in Nat /\ t[i + 1] \in Nat /\ s[i + 1] <= t[i + 1]
      <3>1. i + 1 \in 1 .. Len(s) /\ i + 1 \in 1 .. Len(t)
        BY <2>1
      <3>2. QED
        BY <3>1, ElementOfSeq, Zenon
    <2> DEFINE x == f[i]
               y == e[i]
    <2>4. x \in Nat /\ y \in Nat /\ x <= y
      BY <2>1
    <2> HIDE DEF x, y
    <2>5. x * base <= y * base
      <3>1. (y - x) * base \in Nat /\ y * base = x * base + (y - x) * base
        BY <2>4
      <3>2. QED
        BY <2>4, <3>1
    <2>6. x * base \in Nat /\ y * base \in Nat
      BY <2>4
    <2>7. x * base + s[i + 1] <= y * base + t[i + 1]
      BY <2>3, <2>5, <2>6
    <2>8. QED
      BY <2>2, <2>7 DEF x, y
  <1> HIDE DEF S
  <1>6. Nat \subseteq S
    BY <1>4, <1>5, Induction
  <1>7. n \in S
    BY <1>6
  <1>8. QED
    BY <1>3, <1>7 DEF S

\* A larger number has no fewer digits.
LEMMA ShortestMonotone ==
  ASSUME NEW base \in Nat, base > 1, NEW m \in Nat, NEW n \in Nat, m <= n
  PROVE  Len(Shortest(m, base)) <= Len(Shortest(n, base))
  <1> DEFINE size(k) == Len(Shortest(k, base))
             S == {k \in Nat : \A j \in 0 .. k : size(j) <= size(k)}
  <1>1. \A k \in Nat : size(k) \in Nat
    <2>1. ASSUME NEW k \in Nat PROVE size(k) \in Nat
      <3>1. Shortest(k, base) \in Seq(Nat)
        BY ShortestStep
      <3>2. QED
        BY <3>1
    <2>2. QED
      BY <2>1
  <1>2. \A k \in Nat : k > 0 => \E q \in 0 .. k - 1, r \in 0 .. base - 1 :
                                  k = q * base + r /\ size(k) = size(q) + 1
    <2>1. ASSUME NEW k \in Nat, k > 0
          PROVE  \E q \in 0 .. k - 1, r \in 0 .. base - 1 :
                   k = q * base + r /\ size(k) = size(q) + 1
      <3>1. PICK q \in 0 .. k - 1, r \in 0 .. base - 1 :
              k = q * base + r /\ Shortest(k, base) = Append(Shortest(q, base), r)
        BY <2>1, LastDigit, Zenon
      <3>2. Shortest(q, base) \in Seq(Nat) /\ r \in Nat
        BY ShortestStep
      <3>3. Len(Append(Shortest(q, base), r)) = size(q) + 1
        BY <3>2
      <3>4. QED
        BY <3>1, <3>3
    <2>2. QED
      BY <2>1
  <1>3. size(0) = 0
    BY ShortestZero
  <1> HIDE DEF size
  <1>4. ASSUME NEW k \in Nat, (0 .. k - 1) \subseteq S PROVE k \in S
    <2> SUFFICES ASSUME NEW j \in 0 .. k PROVE size(j) <= size(k)
      OBVIOUS
    <2>1. CASE j = 0
      BY <1>1, <1>3, <2>1
    <2>2. CASE j # 0
      <3>1. PICK q \in 0 .. k - 1, r \in 0 .. base - 1 : k = q * base + r /\ size(k) = size(q) + 1
        BY <1>2, <2>2
      <3>2. PICK p \in 0 .. j - 1, s \in 0 .. base - 1 : j = p * base + s /\ size(j) = size(p) + 1
        BY <1>2, <2>2
      <3>3. p <= q
        <4> SUFFICES ASSUME q < p PROVE FALSE
          BY <3>1, <3>2
        <4>1. (p - q) * base >= base /\ p * base = q * base + (p - q) * base
          BY <3>1, <3>2
        <4>2. q * base \in Nat /\ p * base \in Nat /\ (p - q) * base \in Nat
          BY <3>1, <3>2
        <4>3. QED
          BY <3>1, <3>2, <4>1, <4>2
      <3>4. q \in S /\ p \in 0 .. q
        BY <1>4, <3>1, <3>2, <3>3
      <3>5. size(p) <= size(q)
        BY <3>4
      <3>6. QED
        BY <1>1, <3>1, <3>2, <3>5
    <2>3. QED
      BY <2>1, <2>2
  <1> HIDE DEF S
  <1>5. Nat \subseteq S
    BY <1>4, StrongInduction
  <1>6. n \in S /\ m \in 0 .. n
    BY <1>5
  <1>7. QED
    BY <1>6 DEF S, size

\* Only zeros make the number 0.
LEMMA ZeroNumber ==
  ASSUME NEW base \in Nat, base > 1, NEW s \in Seq(0 .. base - 1), Number(s, base) = 0
  PROVE  \A i \in 1 .. Len(s) : s[i] = 0
  <1>1. Shortest(Number(s, base), base) = <<>>
    BY ShortestZero
  <1>2. LeadingZeros(s) = Len(s)
    BY <1>1, DigitsAre
  <1>3. s \in Seq(Nat)
    OBVIOUS
  <1>4. QED
    BY <1>2, <1>3, LeadingZerosExist DEF Leads

\* Digits of the same length with the same number are the same.
LEMMA NumberInjective ==
  ASSUME NEW base \in Nat, base > 1, NEW s \in Seq(0 .. base - 1), NEW t \in Seq(0 .. base - 1),
         Len(s) = Len(t), Number(s, base) = Number(t, base)
  PROVE  s = t
  <1> DEFINE d == Shortest(Number(s, base), base)
  <1>1. /\ LeadingZeros(s) \in Nat /\ LeadingZeros(t) \in Nat
        /\ s = WithZeros(LeadingZeros(s), d) /\ Len(s) = LeadingZeros(s) + Len(d)
        /\ t = WithZeros(LeadingZeros(t), d) /\ Len(t) = LeadingZeros(t) + Len(d)
    BY DigitsAre
  <1>2. Len(d) \in Nat
    <2>1. s \in Seq(Nat)
      OBVIOUS
    <2>2. d \in Seq(Nat)
      BY <2>1, NumberNat, ShortestStep
    <2>3. QED
      BY <2>2
  <1> HIDE DEF d
  <1>3. LeadingZeros(s) = LeadingZeros(t)
    <2>1. \A x, y, l \in Nat : x + l = y + l => x = y
      OBVIOUS
    <2>2. LeadingZeros(s) + Len(d) = LeadingZeros(t) + Len(d)
      BY <1>1, Zenon
    <2>3. QED
      BY <1>1, <1>2, <2>1, <2>2, Zenon
  <1>4. QED
    BY <1>1, <1>3, Zenon

-----------------------------------------------------------------------------
(* Keys and their texts *)

ByteValues == 0 .. ByteBase - 1
DigitValues == 0 .. DigitBase - 1
KeyBytes == {s \in Seq(ByteValues) : Len(s) = KeyLen}

TextIn58(s) == Rebase(s, ByteBase, DigitBase)

\* A text and the bytes it stands for, both ways.
LEMMA TextIs ==
  ASSUME NEW s \in Seq(ByteValues)
  PROVE  /\ TextIn58(s) \in Seq(DigitValues)
         /\ Rebase(TextIn58(s), DigitBase, ByteBase) = s
         /\ Number(TextIn58(s), DigitBase) = Number(s, ByteBase)
         /\ Len(TextIn58(s)) = LeadingZeros(s) + Len(Shortest(Number(s, ByteBase), DigitBase))
  <1>1. ByteBase \in Nat /\ ByteBase > 1 /\ DigitBase \in Nat /\ DigitBase > 1
    BY KeysAssumption
  <1>2. QED
    BY <1>1, RebaseIs, Zenon DEF TextIn58, ByteValues, DigitValues

LEMMA BytesAre ==
  ASSUME NEW t \in Seq(DigitValues)
  PROVE  Rebase(t, DigitBase, ByteBase) \in Seq(ByteValues)
         /\ TextIn58(Rebase(t, DigitBase, ByteBase)) = t
  <1>1. ByteBase \in Nat /\ ByteBase > 1 /\ DigitBase \in Nat /\ DigitBase > 1
    BY KeysAssumption
  <1>2. QED
    BY <1>1, RebaseIs, Zenon DEF TextIn58, ByteValues, DigitValues

LEMMA BytesAreNumbers == \A s \in Seq(ByteValues) : s \in Seq(Nat)
  <1> SUFFICES ASSUME NEW s \in Seq(ByteValues) PROVE s \in Seq(Nat)
    OBVIOUS
  <1>1. QED
    BY KeysAssumption DEF ByteValues

\* How bytes are made of their leading zeros and of the rest.
LEMMA BytesSplit ==
  ASSUME NEW s \in Seq(ByteValues)
  PROVE  /\ Number(s, ByteBase) \in Nat
         /\ Shortest(Number(s, ByteBase), ByteBase) \in Seq(ByteValues)
         /\ LeadingZeros(s) \in 0 .. Len(s)
         /\ s = WithZeros(LeadingZeros(s), Shortest(Number(s, ByteBase), ByteBase))
         /\ Len(s) = LeadingZeros(s) + Len(Shortest(Number(s, ByteBase), ByteBase))
  <1>1. ByteBase \in Nat /\ ByteBase > 1 /\ s \in Seq(Nat)
    BY KeysAssumption DEF ByteValues
  <1>2. Number(s, ByteBase) \in Nat
    BY <1>1, NumberNat
  <1>3. Shortest(Number(s, ByteBase), ByteBase) \in Seq(ByteValues)
    BY <1>1, <1>2, ShortestDigits, Zenon DEF ByteValues
  <1>4. QED
    BY <1>1, <1>2, <1>3, DigitsAre, Zenon DEF ByteValues

\* Of the bytes that begin with a given number of zeros the largest have the
\* longest text.
LEMMA TextFits ==
  ASSUME NEW s \in Seq(ByteValues)
  PROVE  Len(TextIn58(s)) <= LeadingZeros(s) +
           Len(Shortest(Number(Largest(Len(s) - LeadingZeros(s)), ByteBase), DigitBase))
  <1> DEFINE n == Number(s, ByteBase)
             r == Shortest(n, ByteBase)
             z == LeadingZeros(s)
             l == Largest(Len(s) - z)
             m == Number(l, ByteBase)
  <1>1. ByteBase \in Nat /\ ByteBase > 1 /\ DigitBase \in Nat /\ DigitBase > 1
    BY KeysAssumption
  <1>2. n \in Nat /\ r \in Seq(ByteValues) /\ z \in 0 .. Len(s) /\ Len(s) = z + Len(r)
    BY BytesSplit
  <1>3. Number(r, ByteBase) = n
    BY <1>1, <1>2, NumberOfShortest
  <1> HIDE DEF n, r, z
  <1>4. r \in Seq(Nat) /\ l \in Seq(Nat) /\ Len(l) = Len(r) /\ \A i \in 1 .. Len(r) : r[i] <= l[i]
    <2>1. Len(s) \in Nat /\ Len(r) \in Nat /\ Len(s) - z = Len(r)
      BY <1>2
    <2>2. \A i \in 1 .. Len(r) : r[i] \in 0 .. ByteBase - 1
      BY <1>2, ElementOfSeq, Zenon DEF ByteValues
    <2>3. l = [i \in 1 .. Len(r) |-> ByteBase - 1]
      BY <2>1 DEF Largest
    <2>4. l \in Seq(Nat) /\ Len(l) = Len(r) /\ \A i \in 1 .. Len(r) : l[i] = ByteBase - 1
      BY <1>1, <2>1, <2>3
    <2>5. r \in Seq(Nat)
      BY <1>2, BytesAreNumbers, Zenon
    <2> HIDE DEF l
    <2>6. QED
      BY <1>1, <2>2, <2>4, <2>5
  <1> HIDE DEF l
  <1>5. n <= m
    BY <1>1, <1>3, <1>4, NumberMonotone
  <1>6. m \in Nat
    BY <1>1, <1>4, NumberNat
  <1> HIDE DEF m
  <1>7. Len(Shortest(n, DigitBase)) <= Len(Shortest(m, DigitBase))
    BY <1>1, <1>2, <1>5, <1>6, ShortestMonotone
  <1>8. Shortest(n, DigitBase) \in Seq(Nat) /\ Shortest(m, DigitBase) \in Seq(Nat)
    BY <1>1, <1>2, <1>6, ShortestStep
  <1>9. Len(TextIn58(s)) = z + Len(Shortest(n, DigitBase))
    BY TextIs, Zenon DEF z, n
  <1>10. z + Len(Shortest(n, DigitBase)) <= z + Len(Shortest(m, DigitBase))
    BY <1>2, <1>7, <1>8
  <1>11. QED
    BY <1>9, <1>10, Zenon DEF z, l, m

\* b58tobin gives back the bytes, when the text is not too long for it.
LEMMA TextConverts ==
  ASSUME NEW s \in Seq(ByteValues), NEW size \in Nat, Len(s) <= size
  PROVE  b58tobin(TextIn58(s), size) = s
  <1> DEFINE t == TextIn58(s)
             r == Shortest(Number(s, ByteBase), ByteBase)
  <1>1. t \in Seq(DigitValues) /\ Rebase(t, DigitBase, ByteBase) = s
        /\ Number(t, DigitBase) = Number(s, ByteBase)
    BY TextIs
  <1>2. r \in Seq(ByteValues) /\ LeadingZeros(s) \in Nat /\ Len(s) = LeadingZeros(s) + Len(r)
    BY BytesSplit
  <1> HIDE DEF t
  <1>3. DigitBase \notin Range(t)
    <2>1. \A i \in DOMAIN t : t[i] \in 0 .. DigitBase - 1
      <3>1. DOMAIN t = 1 .. Len(t)
        BY <1>1
      <3>2. QED
        BY <1>1, <3>1, ElementOfSeq, Zenon DEF DigitValues
    <2>2. DigitBase \notin 0 .. DigitBase - 1
      BY KeysAssumption
    <2>3. QED
      BY <2>1, <2>2 DEF Range
  <1>4. ~ (Len(Shortest(Number(t, DigitBase), ByteBase)) > size)
    <2> HIDE DEF r
    <2>1. Len(r) \in Nat
      BY <1>2
    <2>2. ~ (Len(r) > size)
      BY <1>2, <2>1
    <2>3. QED
      BY <1>1, <2>2, Zenon DEF r
  <1>5. QED
    BY <1>1, <1>3, <1>4, Zenon DEF b58tobin, t

\* A text that converts is that of its bytes.
LEMMA ConvertedText ==
  ASSUME NEW t \in Seq(0 .. DigitBase), NEW size, b58tobin(t, size) # NoKey
  PROVE  b58tobin(t, size) \in Seq(ByteValues) /\ t = TextIn58(b58tobin(t, size))
  <1>1. DigitBase \notin Range(t) /\ b58tobin(t, size) = Rebase(t, DigitBase, ByteBase)
    BY Zenon DEF b58tobin
  <1>2. t \in Seq(DigitValues)
    <2>1. \A i \in 1 .. Len(t) : t[i] \in 0 .. DigitBase /\ t[i] # DigitBase
      <3>1. DOMAIN t = 1 .. Len(t)
        OBVIOUS
      <3>2. \A i \in 1 .. Len(t) : t[i] # DigitBase
        BY <1>1, <3>1 DEF Range
      <3>3. QED
        BY <3>2, ElementOfSeq, Zenon
    <2>2. \A i \in 1 .. Len(t) : t[i] \in DigitValues
      BY <2>1, KeysAssumption DEF DigitValues
    <2>3. QED
      BY <2>2
  <1>3. QED
    BY <1>1, <1>2, BytesAre, Zenon

\* The text of a key has room and can be read back.
LEMMA PrivateText ==
  ASSUME NEW key \in KeyBytes
  PROVE  /\ b58enc_data(key, TRUE) = TextIn58(key)
         /\ seckey_verify(key) => decode_b58_privkey(TextIn58(key)) = key
  <1> DEFINE z == LeadingZeros(key)
             t == TextIn58(key)
             m == Shortest(Number(Largest(KeyLen - z), ByteBase), DigitBase)
  <1>1. key \in Seq(ByteValues) /\ Len(key) = KeyLen
    BY DEF KeyBytes
  <1>2. z \in 0 .. KeyLen
    BY <1>1, BytesSplit, Zenon
  <1>3. z + Len(m) <= MaxPrivate
    BY <1>2, LimitsAssumption, Zenon
  <1>4. Len(t) <= z + Len(m)
    BY <1>1, TextFits, Zenon
  <1>5. Len(m) \in Nat /\ Len(t) \in Nat
    <2>1. ByteBase \in Nat /\ DigitBase \in Nat /\ DigitBase > 1 /\ KeyLen - z \in Nat
      BY <1>2, KeysAssumption
    <2>2. Largest(KeyLen - z) \in Seq(Nat)
      BY <2>1, KeysAssumption DEF Largest
    <2>3. Number(Largest(KeyLen - z), ByteBase) \in Nat
      BY <2>1, <2>2, NumberNat
    <2>4. m \in Seq(Nat)
      BY <2>1, <2>3, ShortestStep
    <2>5. t \in Seq(DigitValues)
      BY <1>1, TextIs
    <2>6. QED
      BY <2>4, <2>5
  <1> HIDE DEF z, t, m
  <1>6. KeyLen \in Nat /\ MaxPrivate \in Nat /\ KeyLen <= MaxPrivate /\ MaxPrivate < 2 * KeyLen
    BY KeysAssumption
  <1>7. Len(t) <= MaxPrivate /\ Len(t) < 2 * KeyLen
    BY <1>2, <1>3, <1>4, <1>5, <1>6
  <1>8. b58enc_data(key, TRUE) = t
    BY <1>1, <1>7 DEF b58enc_data, b58enc, t, TextIn58
  <1>9. b58tobin(t, MaxPrivate) = key
    BY <1>1, <1>6, TextConverts DEF t
  <1>10. key # NoKey
    BY <1>1, BytesAreNumbers, KeysAssumption
  <1>11. ~ (Len(t) > MaxPrivate)
    BY <1>5, <1>6, <1>7
  <1>12. seckey_verify(key) => decode_b58_privkey(t) = key
    BY <1>1, <1>9, <1>10, <1>11, Zenon DEF decode_b58_privkey
  <1>13. QED
    BY <1>8, <1>12 DEF t

\* A text that is read as a private key is the text of that key.
LEMMA PrivateBack ==
  ASSUME NEW t \in Seq(0 .. DigitBase), NEW key, key = decode_b58_privkey(t), key # NoKey
  PROVE  key \in KeyBytes /\ seckey_verify(key) /\ t = TextIn58(key)
  <1>1. key = b58tobin(t, MaxPrivate) /\ Len(key) = KeyLen /\ seckey_verify(key)
    BY Zenon DEF decode_b58_privkey
  <1>2. key \in Seq(ByteValues) /\ t = TextIn58(key)
    BY <1>1, ConvertedText
  <1>3. QED
    BY <1>1, <1>2 DEF KeyBytes

PublicKeys ==
  {p \in [x : Nat, odd : BOOLEAN] :
     0 < p.x /\ 2 * p.x < Order /\ Len(Shortest(p.x, ByteBase)) <= KeyLen}

LEMMA CreatedIsPublic ==
  ASSUME NEW key \in KeyBytes, seckey_verify(key)
  PROVE  privkey_to_pubkey(key) = pubkey_create(key) /\ pubkey_create(key) \in PublicKeys
  <1> DEFINE k == Number(key, ByteBase)
             x == IF 2 * k < Order THEN k ELSE Order - k
             s == Shortest(k, ByteBase)
             y == Shortest(x, ByteBase)
  <1>1. key \in Seq(ByteValues) /\ Len(key) = KeyLen
    BY DEF KeyBytes
  <1>2. k \in 1 .. Order - 1
    BY DEF seckey_verify
  <1>3. Len(s) <= KeyLen /\ Len(s) \in Nat
    <2>1. s \in Seq(ByteValues) /\ LeadingZeros(key) \in 0 .. KeyLen
          /\ KeyLen = LeadingZeros(key) + Len(s)
      BY <1>1, BytesSplit, Zenon
    <2>2. Len(s) \in Nat /\ LeadingZeros(key) \in Nat
      BY <2>1
    <2> HIDE DEF s
    <2>3. QED
      BY <2>1, <2>2
  <1>4. pubkey_create(key) = [x |-> x, odd |-> k % 2 = 1]
    BY DEF pubkey_create
  <1> HIDE DEF k
  <1>5. x \in Nat /\ 0 < x /\ x <= k /\ 2 * x < Order
    <2>1. Order \in Nat /\ k \in Nat /\ 2 * k # Order
      BY <1>2, KeysAssumption
    <2>2. QED
      BY <1>2, <2>1
  <1> HIDE DEF x
  <1>6. Len(y) <= Len(s) /\ Len(y) \in Nat
    <2>1. ByteBase \in Nat /\ ByteBase > 1 /\ k \in Nat
      BY <1>2, KeysAssumption
    <2>2. Len(y) <= Len(s)
      BY <1>5, <2>1, ShortestMonotone
    <2>3. y \in Seq(Nat)
      BY <1>5, <2>1, ShortestStep
    <2>4. QED
      BY <2>2, <2>3
  <1>7. Len(y) <= KeyLen
    <2>1. KeyLen \in Nat
      BY KeysAssumption
    <2> HIDE DEF y, s
    <2>2. QED
      BY <1>3, <1>6, <2>1
  <1>8. pubkey_create(key) \in PublicKeys
    <2>1. pubkey_create(key) \in [x : Nat, odd : BOOLEAN] /\ pubkey_create(key).x = x
      BY <1>4, <1>5
    <2>2. QED
      BY <1>5, <1>7, <2>1 DEF PublicKeys, y
  <1>9. QED
    BY <1>8 DEF privkey_to_pubkey

\* The point tells k from Order - k by the parity.
LEMMA PairUnique ==
  ASSUME NEW key \in KeyBytes, NEW other \in KeyBytes, seckey_verify(key), seckey_verify(other),
         pubkey_create(key) = pubkey_create(other)
  PROVE  key = other
  <1> DEFINE k == Number(key, ByteBase)
             o == Number(other, ByteBase)
             X(n) == IF 2 * n < Order THEN n ELSE Order - n
  <1>1. k \in 1 .. Order - 1 /\ o \in 1 .. Order - 1
    BY DEF seckey_verify
  <1>2. X(k) = X(o) /\ (k % 2 = 1 <=> o % 2 = 1)
    <2>1. pubkey_create(key).x = X(k) /\ pubkey_create(other).x = X(o)
          /\ pubkey_create(key).odd = (k % 2 = 1) /\ pubkey_create(other).odd = (o % 2 = 1)
      BY DEF pubkey_create
    <2>2. QED
      BY <2>1
  <1> HIDE DEF k, o
  <1>3. k = o
    <2>1. Order \in Nat /\ Order % 2 = 1
      BY KeysAssumption
    <2>2. k = o \/ k + o = Order
      BY <1>1, <1>2, <2>1
    <2>3. ASSUME k + o = Order PROVE FALSE
      BY <1>1, <1>2, <2>1, <2>3
    <2>4. QED
      BY <2>2, <2>3
  <1>4. key \in Seq(ByteValues) /\ other \in Seq(ByteValues) /\ Len(key) = Len(other)
    BY DEF KeyBytes
  <1>5. ByteBase \in Nat /\ ByteBase > 1
    BY KeysAssumption
  <1>6. QED
    BY <1>3, <1>4, <1>5, NumberInjective, Zenon DEF k, o, ByteValues

\* A byte in front of others.
LEMMA InFront ==
  ASSUME NEW b \in ByteValues, NEW w \in Seq(ByteValues)
  PROVE  /\ <<b>> \o w \in Seq(ByteValues) /\ Len(<<b>> \o w) = Len(w) + 1
         /\ Head(<<b>> \o w) = b /\ (<<b>> \o w)[1] = b /\ Tail(<<b>> \o w) = w
  <1> DEFINE d == <<b>> \o w
  <1>1. d \in Seq(ByteValues) /\ Len(d) = Len(w) + 1 /\ d[1] = b
        /\ \A i \in 1 .. Len(w) : d[i + 1] = w[i]
    OBVIOUS
  <1> HIDE DEF d
  <1>2. d # <<>> /\ Head(d) = b
    BY <1>1
  <1>3. Tail(d) = w
    <2>1. Tail(d) \in Seq(ByteValues) /\ Len(Tail(d)) = Len(w)
          /\ \A i \in 1 .. Len(w) : Tail(d)[i] = d[i + 1]
      BY <1>1, <1>2
    <2>2. \A i \in 1 .. Len(w) : Tail(d)[i] = w[i]
      BY <1>1, <2>1
    <2> DEFINE e == Tail(d)
    <2>3. e \in Seq(ByteValues) /\ Len(e) = Len(w) /\ \A i \in 1 .. Len(w) : e[i] = w[i]
      BY <2>1, <2>2
    <2> HIDE DEF e
    <2>4. e = w
      BY <2>3
    <2>5. QED
      BY <2>4 DEF e
  <1>4. QED
    BY <1>1, <1>2, <1>3 DEF d

\* The bytes of a public key: its parity and the whole width of x.
LEMMA Serialized ==
  ASSUME NEW p \in PublicKeys
  PROVE  /\ pubkey_serialize(p) \in Seq(ByteValues) /\ Len(pubkey_serialize(p)) = KeyLen + 1
         /\ pubkey_serialize(p)[1] \in {2, 3}
         /\ pubkey_parse(pubkey_serialize(p)) = p /\ p # NoKey
  <1> DEFINE b == IF p.odd THEN 3 ELSE 2
             x == Shortest(p.x, ByteBase)
             w == WithZeros(KeyLen - Len(x), x)
             d == pubkey_serialize(p)
  <1>1. ByteBase \in Nat /\ ByteBase > 1 /\ KeyLen \in Nat
    BY KeysAssumption
  <1>2. p.x \in Nat /\ p.odd \in BOOLEAN /\ 0 < p.x /\ 2 * p.x < Order /\ Len(x) <= KeyLen
        /\ p = [x |-> p.x, odd |-> p.odd]
    BY DEF PublicKeys
  <1>3. x \in Seq(ByteValues) /\ Number(x, ByteBase) = p.x
    BY <1>1, <1>2, ShortestDigits, NumberOfShortest, Zenon DEF ByteValues
  <1> HIDE DEF x
  <1>4. KeyLen - Len(x) \in Nat /\ KeyLen - Len(x) + Len(x) = KeyLen
    BY <1>1, <1>2, <1>3
  <1>5. w \in Seq(ByteValues) /\ Len(w) = KeyLen
    <2>1. 0 \in ByteValues
      BY <1>1 DEF ByteValues
    <2>2. w \in Seq(ByteValues) /\ Padded(w, KeyLen - Len(x), x)
      BY <1>3, <1>4, <2>1, WithZerosIs, Zenon
    <2>3. QED
      BY <1>4, <2>2 DEF Padded
  <1>6. Number(w, ByteBase) = p.x
    <2>1. x \in Seq(Nat)
      BY <1>3, BytesAreNumbers
    <2>2. Number(w, ByteBase) = Number(x, ByteBase)
      BY <1>1, <1>4, <2>1, NumberWithZeros, Zenon
    <2>3. QED
      BY <1>3, <2>2
  <1>7. b \in ByteValues /\ b \in {2, 3} /\ (b = 3 <=> p.odd)
    <2>1. 2 \in ByteValues /\ 3 \in ByteValues
      BY KeysAssumption DEF ByteValues
    <2>2. QED
      BY <1>2, <2>1
  <1>8. d = <<b>> \o w
    BY DEF pubkey_serialize, x
  <1> HIDE DEF w, b
  <1>9. d \in Seq(ByteValues) /\ Len(d) = KeyLen + 1 /\ d[1] = b /\ Tail(d) = w
    BY <1>5, <1>7, <1>8, InFront
  <1> HIDE DEF d
  <1>10. pubkey_parse(d) = p
    <2>1. pubkey_parse(d) = [x |-> p.x, odd |-> b = 3]
      BY <1>2, <1>6, <1>9 DEF pubkey_parse
    <2>2. QED
      BY <1>2, <1>7, <2>1
  <1>11. p # NoKey
    BY KeysAssumption DEF PublicKeys
  <1>12. QED
    BY <1>7, <1>9, <1>10, <1>11 DEF d

\* The text of a public key has room and can be read back.
LEMMA PublicText ==
  ASSUME NEW p \in PublicKeys
  PROVE  /\ b58enc_data(pubkey_serialize(p), TRUE) = TextIn58(pubkey_serialize(p))
         /\ decode_b58_pubkey(TextIn58(pubkey_serialize(p))) = p
  <1> DEFINE d == pubkey_serialize(p)
             z == LeadingZeros(d)
             t == TextIn58(d)
             m == Shortest(Number(Largest(KeyLen + 1), ByteBase), DigitBase)
  <1>1. /\ d \in Seq(ByteValues) /\ Len(d) = KeyLen + 1 /\ d[1] \in {2, 3}
        /\ pubkey_parse(d) = p
    BY Serialized
  <1>2. z = 0
    <2>1. d \in Seq(Nat)
      BY <1>1, BytesAreNumbers
    <2>2. z \in 0 .. Len(d) /\ Leads(z, d)
      BY <2>1, LeadingZerosExist, Zenon
    <2> HIDE DEF z, d
    <2>3. KeyLen \in Nat
      BY KeysAssumption
    <2>4. z # 0 => 1 \in 1 .. z
      BY <1>1, <2>2, <2>3
    <2>5. QED
      BY <1>1, <2>2, <2>4 DEF Leads
  <1>3. Len(t) <= z + Len(Shortest(Number(Largest(Len(d) - z), ByteBase), DigitBase))
    BY <1>1, TextFits, Zenon
  <1>4. KeyLen \in Nat /\ MaxPublic \in Nat /\ KeyLen + 1 <= MaxPublic /\ MaxPublic < 2 * (KeyLen + 1)
    BY KeysAssumption
  <1>5. Len(m) \in Nat /\ Len(t) \in Nat
    <2>1. ByteBase \in Nat /\ DigitBase \in Nat /\ DigitBase > 1
      BY KeysAssumption
    <2>2. Largest(KeyLen + 1) \in Seq(Nat)
      BY <1>4, KeysAssumption DEF Largest
    <2>3. Number(Largest(KeyLen + 1), ByteBase) \in Nat
      BY <2>1, <2>2, NumberNat
    <2>4. m \in Seq(Nat)
      BY <2>1, <2>3, ShortestStep
    <2>5. t \in Seq(DigitValues)
      BY <1>1, TextIs
    <2>6. QED
      BY <2>4, <2>5
  <1>6. Len(m) <= MaxPublic
    BY LimitsAssumption
  <1>7. Len(t) <= Len(m)
    <2>1. Len(d) - z = KeyLen + 1
      BY <1>1, <1>2, <1>4
    <2>2. Len(t) <= 0 + Len(m)
      BY <1>2, <1>3, <2>1, Zenon
    <2> HIDE DEF t, m
    <2>3. QED
      BY <1>5, <2>2
  <1> HIDE DEF d, t, m
  <1>8. Len(t) <= MaxPublic /\ Len(t) < 2 * Len(d) /\ ~ (Len(t) > MaxPublic)
    BY <1>1, <1>4, <1>5, <1>6, <1>7
  <1>9. b58enc_data(d, TRUE) = t
    BY <1>8 DEF b58enc_data, b58enc, t, TextIn58
  <1>10. b58tobin(t, MaxPublic) = d
    BY <1>1, <1>4, TextConverts DEF t
  <1>11. d # NoKey
    BY <1>1, BytesAreNumbers, KeysAssumption
  <1>12. decode_b58_pubkey(t) = p
    BY <1>1, <1>8, <1>10, <1>11, Zenon DEF decode_b58_pubkey
  <1>13. QED
    BY <1>9, <1>12 DEF d, t

\* A text that is read as a public key is the text of that key.
LEMMA PublicBack ==
  ASSUME NEW t \in Seq(0 .. DigitBase), NEW p, p = decode_b58_pubkey(t), p # NoKey
  PROVE  t = TextIn58(pubkey_serialize(p))
  <1> DEFINE d == b58tobin(t, MaxPublic)
  <1>1. d # NoKey /\ Len(d) = KeyLen + 1 /\ d[1] \in {2, 3} /\ p = pubkey_parse(d)
    BY Zenon DEF decode_b58_pubkey
  <1>2. d \in Seq(ByteValues) /\ t = TextIn58(d)
    BY <1>1, ConvertedText
  <1> HIDE DEF d
  <1>3. KeyLen \in Nat /\ d # <<>>
    BY <1>1, <1>2, KeysAssumption
  <1> DEFINE w == Tail(d)
             n == Number(w, ByteBase)
             r == Shortest(n, ByteBase)
  <1>4. w \in Seq(ByteValues) /\ Len(w) = KeyLen /\ d = <<d[1]>> \o w
    BY <1>1, <1>2, <1>3
  <1>5. p = [x |-> n, odd |-> d[1] = 3]
    BY <1>1 DEF pubkey_parse
  <1> HIDE DEF w
  <1>6. r \in Seq(ByteValues) /\ w = WithZeros(LeadingZeros(w), r)
        /\ LeadingZeros(w) \in 0 .. KeyLen /\ KeyLen = LeadingZeros(w) + Len(r)
    BY <1>4, BytesSplit, Zenon
  <1> HIDE DEF n, r
  <1>7. LeadingZeros(w) = KeyLen - Len(r)
    <2>1. Len(r) \in Nat /\ LeadingZeros(w) \in Nat
      BY <1>6
    <2>2. QED
      BY <1>3, <1>6, <2>1
  <1>8. w = WithZeros(KeyLen - Len(r), r)
    BY <1>6, <1>7, Zenon
  <1>9. p.x = n /\ p.odd = (d[1] = 3)
    BY <1>5
  <1>10. (IF p.odd THEN 3 ELSE 2) = d[1]
    BY <1>1, <1>9
  <1>11. pubkey_serialize(p) = <<d[1]>> \o WithZeros(KeyLen - Len(r), r)
    BY <1>9, <1>10, Zenon DEF pubkey_serialize, r
  <1>12. pubkey_serialize(p) = d
    BY <1>4, <1>8, <1>11, Zenon
  <1>13. QED
    BY <1>2, <1>12, Zenon
-----------------------------------------------------------------------------
(* Random bytes as keys *)

Positions == 0 .. ByteBits - 1
Digits(b) == [i \in 1 .. ByteBits |-> IF ByteBits - i \in b THEN 1 ELSE 0]

\* So many binary digits make a number below that power of two.
LEMMA BinaryBound ==
  ASSUME NEW s \in Seq(0 .. 1), Len(s) <= WordBits
  PROVE  Number(s, 2) \in 0 .. Pow2[Len(s)] - 1
  <1> DEFINE Below(t) == Len(t) <= WordBits => Number(t, 2) < Pow2[Len(t)]
             S == {t \in Seq(0 .. 1) : Below(t)}
  <1>1. \A t \in Seq(0 .. 1) : t \in Seq(Nat) /\ Number(t, 2) \in Nat
    <2>1. \A t \in Seq(0 .. 1) : t \in Seq(Nat)
      OBVIOUS
    <2>2. QED
      BY <2>1, NumberNat
  <1>2. <<>> \in S
    <2>1. Len(<<>>) = 0 /\ <<>> \in Seq(0 .. 1)
      OBVIOUS
    <2>2. Number(<<>>, 2) = 0
      BY NumberEmpty
    <2>3. QED
      BY <2>1, <2>2, WordAssumption
  <1>3. ASSUME NEW t \in Seq(0 .. 1), NEW d \in 0 .. 1, t \in S PROVE Append(t, d) \in S
    <2> DEFINE a == Append(t, d)
    <2>1. a \in Seq(0 .. 1) /\ Len(a) = Len(t) + 1 /\ Len(t) \in Nat
      OBVIOUS
    <2>2. Number(a, 2) = Number(t, 2) * 2 + d
      <3>1. t \in Seq(Nat) /\ d \in Nat /\ 2 \in Nat
        BY <1>1
      <3>2. QED
        BY <3>1, NumberAppend, Zenon
    <2> HIDE DEF a
    <2>3. ASSUME Len(a) <= WordBits PROVE Number(a, 2) < Pow2[Len(a)]
      <3> DEFINE l == Len(t)
                 n == Number(t, 2)
      <3>1. l \in Bits /\ l <= WordBits /\ l + 1 \in 0 .. WordBits
        BY <2>1, <2>3, WordAssumption DEF Bits
      <3>2. n < Pow2[l] /\ n \in Nat
        BY <1>1, <1>3, <3>1
      <3> HIDE DEF l, n
      <3>3. Pow2[l + 1] = 2 * Pow2[l] /\ Pow2[l] \in Nat
        BY <3>1, WordAssumption DEF Bits
      <3>4. n * 2 + d < Pow2[l + 1]
        BY <3>2, <3>3
      <3>5. QED
        BY <2>1, <2>2, <3>4 DEF l, n
    <2>4. QED
      BY <2>1, <2>3 DEF a
  <1> HIDE DEF S
  <1>4. Seq(0 .. 1) \subseteq S
    BY <1>2, <1>3, SequenceInduction
  <1>5. s \in S
    BY <1>4
  <1>6. Number(s, 2) < Pow2[Len(s)]
    BY <1>5 DEF S
  <1>7. Pow2[Len(s)] \in Nat
    <2>1. Len(s) \in 0 .. WordBits
      BY WordAssumption
    <2>2. QED
      BY <2>1, WordAssumption
  <1>8. QED
    BY <1>1, <1>6, <1>7

\* A byte has two bits at least.
LEMMA ByteSize ==
  /\ ByteBits \in Nat /\ ByteBits > 1 /\ ByteBits <= WordBits
  /\ ByteBase = 2 * Pow2[ByteBits - 1] /\ Pow2[ByteBits - 1] \in Nat /\ ByteBase = Pow2[ByteBits]
  <1>1. ByteBits \in Nat \ {0} /\ WordBytes \in Nat \ {0} /\ WordBits \in Nat
    BY WordAssumption
  <1>2. ByteBits <= WordBits
    <2>1. (WordBytes - 1) * ByteBits \in Nat /\ WordBits = ByteBits + (WordBytes - 1) * ByteBits
      BY <1>1 DEF WordBits
    <2>2. QED
      BY <1>1, <2>1
  <1>3. ByteBits - 1 \in Bits /\ ByteBits - 1 + 1 = ByteBits /\ ByteBits - 1 \in 0 .. WordBits
    BY <1>1, <1>2 DEF Bits
  <1>4. Pow2[ByteBits] = 2 * Pow2[ByteBits - 1] /\ Pow2[ByteBits - 1] \in Nat
    <2>1. Pow2[ByteBits - 1 + 1] = 2 * Pow2[ByteBits - 1] /\ Pow2[ByteBits - 1] \in Nat
      BY <1>3, WordAssumption, Zenon
    <2>2. QED
      BY <1>3, <2>1
  <1>5. ByteBase = Pow2[ByteBits] /\ ByteBase > 3 /\ ByteBase \in Nat
    BY KeygenAssumption, KeysAssumption
  <1>6. ByteBits # 1
    <2>1. SUFFICES ASSUME ByteBits = 1 PROVE FALSE
      OBVIOUS
    <2>2. Pow2[1 - 1] = 1
      BY WordAssumption
    <2>3. QED
      BY <1>4, <1>5, <2>1, <2>2
  <1>7. QED
    BY <1>1, <1>2, <1>4, <1>5, <1>6

LEMMA DigitsAreBits ==
  ASSUME NEW b
  PROVE  Digits(b) \in Seq(0 .. 1) /\ Len(Digits(b)) = ByteBits
         /\ \A i \in 1 .. ByteBits : Digits(b)[i] = IF ByteBits - i \in b THEN 1 ELSE 0
  BY ByteSize DEF Digits

\* The value of a byte: 0 only without bits, in the lower half without the top one.
LEMMA ByteIs ==
  ASSUME NEW b \in SUBSET Positions
  PROVE  /\ ByteValue(b) \in ByteValues
         /\ ByteValue(b) = 0 => b = {}
         /\ ByteBits - 1 \notin b => ByteValue(b) <= ByteBase \div 2 - 1
  <1> DEFINE s == Digits(b)
  <1>1. s \in Seq(0 .. 1) /\ Len(s) = ByteBits
        /\ \A i \in 1 .. ByteBits : s[i] = IF ByteBits - i \in b THEN 1 ELSE 0
    BY DigitsAreBits
  <1>2. ByteValue(b) = Number(s, 2)
    BY DEF ByteValue, Digits
  <1> HIDE DEF s
  <1>3. Number(s, 2) \in ByteValues
    <2>1. Number(s, 2) \in 0 .. Pow2[Len(s)] - 1
      BY <1>1, ByteSize, BinaryBound
    <2>2. QED
      BY <1>1, <2>1, ByteSize DEF ByteValues
  <1>4. ASSUME Number(s, 2) = 0, NEW k \in b PROVE FALSE
    <2>1. s \in Seq(0 .. 2 - 1) /\ 2 \in Nat /\ 2 > 1
      BY <1>1
    <2>2. \A i \in 1 .. Len(s) : s[i] = 0
      BY <1>4, <2>1, ZeroNumber, Zenon
    <2>3. ByteBits - k \in 1 .. ByteBits /\ ByteBits - (ByteBits - k) = k
      BY ByteSize DEF Positions
    <2>4. s[ByteBits - k] = 1
      BY <1>1, <1>4, <2>3
    <2>5. QED
      BY <1>1, <2>2, <2>3, <2>4
  <1>5. ASSUME ByteBits - 1 \notin b PROVE Number(s, 2) <= ByteBase \div 2 - 1
    <2> DEFINE r == [i \in 1 .. ByteBits - 1 |-> s[i + 1]]
    <2>1. r \in Seq(0 .. 1) /\ Len(r) = ByteBits - 1 /\ s[1] = 0
      BY <1>1, <1>5, ByteSize
    <2>2. s = WithZeros(1, r)
      <3>1. WithZeros(1, r) \in Seq(0 .. 1) /\ Padded(WithZeros(1, r), 1, r)
        BY <2>1, WithZerosIs
      <3>2. \A i \in 2 .. ByteBits : i - 1 \in 1 .. ByteBits - 1 /\ r[i - 1] = s[i - 1 + 1]
                                     /\ i - 1 + 1 = i /\ 1 + (i - 1) = i
        BY ByteSize
      <3> HIDE DEF r
      <3> DEFINE t == WithZeros(1, r)
      <3>3. Len(t) = ByteBits /\ t[1] = 0 /\ \A i \in 2 .. ByteBits : t[i] = r[i - 1]
        BY <2>1, <3>1, <3>2, ByteSize DEF Padded
      <3>4. \A i \in 1 .. ByteBits : t[i] = s[i]
        BY <2>1, <3>2, <3>3, ByteSize
      <3>5. t \in Seq(0 .. 1)
        BY <3>1
      <3> HIDE DEF t
      <3>6. t = s
        BY <1>1, <3>3, <3>4, <3>5
      <3>7. QED
        BY <3>6 DEF t
    <2> HIDE DEF r
    <2>3. Number(s, 2) = Number(r, 2)
      <3>1. r \in Seq(Nat) /\ 1 \in Nat /\ 2 \in Nat /\ 2 > 1
        BY <2>1
      <3>2. QED
        BY <2>2, <3>1, NumberWithZeros, Zenon
    <2>4. Number(r, 2) \in 0 .. Pow2[ByteBits - 1] - 1
      <3>1. Len(r) <= WordBits
        BY <2>1, ByteSize, WordAssumption
      <3>2. Number(r, 2) \in 0 .. Pow2[Len(r)] - 1
        BY <2>1, <3>1, BinaryBound
      <3>3. QED
        BY <2>1, <3>2
    <2>5. ByteBase \div 2 = Pow2[ByteBits - 1]
      <3> DEFINE h == Pow2[ByteBits - 1]
      <3>1. h \in Nat /\ ByteBase = 2 * h
        BY ByteSize
      <3> HIDE DEF h
      <3>2. ByteBase \div 2 = h
        BY <3>1
      <3>3. QED
        BY <3>2 DEF h
    <2>6. QED
      BY <2>3, <2>4, <2>5, ByteSize
  <1>6. QED
    BY <1>2, <1>3, <1>4, <1>5

\* Every byte asked for is a set of the positions of a byte.
FullOfBytes(m) == \A i \in 0 .. Size - 1 : m[i] \in SUBSET Positions

LEMMA KeyIs ==
  ASSUME NEW m, FullOfBytes(m)
  PROVE  /\ Key(m) \in KeyBytes
         /\ \A i \in 1 .. KeyLen : Key(m)[i] = ByteValue(m[i - 1]) /\ m[i - 1] \in SUBSET Positions
  <1>1. KeyLen \in Nat /\ KeyLen = Size
    BY KeysAssumption, KeygenAssumption
  <1>2. \A i \in 1 .. KeyLen : m[i - 1] \in SUBSET Positions /\ ByteValue(m[i - 1]) \in ByteValues
    <2>1. ASSUME NEW i \in 1 .. KeyLen PROVE m[i - 1] \in SUBSET Positions
      <3>1. i - 1 \in 0 .. Size - 1
        BY <1>1
      <3>2. QED
        BY <3>1 DEF FullOfBytes
    <2>2. QED
      BY <2>1, ByteIs
  <1>3. Key(m) \in Seq(ByteValues) /\ Len(Key(m)) = KeyLen
        /\ \A i \in 1 .. KeyLen : Key(m)[i] = ByteValue(m[i - 1])
    BY <1>1, <1>2 DEF Key
  <1>4. QED
    BY <1>2, <1>3 DEF KeyBytes

\* A key whose first byte lacks the top bit is below the order of the curve.
LEMMA LowKey ==
  ASSUME NEW m, FullOfBytes(m), ByteBits - 1 \notin m[0]
  PROVE  Number(Key(m), ByteBase) < Order
  <1> DEFINE k == Key(m)
             h == [Largest(KeyLen) EXCEPT ![1] = ByteBase \div 2 - 1]
  <1>1. k \in Seq(ByteValues) /\ Len(k) = KeyLen
        /\ \A i \in 1 .. KeyLen : k[i] = ByteValue(m[i - 1]) /\ m[i - 1] \in SUBSET Positions
    BY KeyIs DEF KeyBytes
  <1>2. ByteBase \in Nat /\ ByteBase > 3 /\ KeyLen \in Nat \ {0} /\ Order \in Nat
    BY KeysAssumption
  <1>3. ByteBase \div 2 - 1 \in Nat
    BY <1>2
  <1>4. h \in Seq(Nat) /\ Len(h) = KeyLen /\ h[1] = ByteBase \div 2 - 1
        /\ \A i \in 2 .. KeyLen : h[i] = ByteBase - 1
    BY <1>2, <1>3 DEF Largest
  <1>5. \A i \in 1 .. KeyLen : k[i] <= h[i]
    <2>1. k[1] <= h[1]
      <3>1. 1 \in 1 .. KeyLen /\ 1 - 1 = 0
        BY <1>2
      <3>2. k[1] = ByteValue(m[0]) /\ m[0] \in SUBSET Positions
        BY <1>1, <3>1
      <3>3. ByteValue(m[0]) <= ByteBase \div 2 - 1
        BY <3>2, ByteIs
      <3>4. QED
        BY <1>4, <3>2, <3>3
    <2>2. ASSUME NEW i \in 2 .. KeyLen PROVE k[i] <= h[i]
      <3>1. i \in 1 .. KeyLen
        BY <1>2
      <3>2. k[i] \in ByteValues
        BY <1>1, <3>1, ElementOfSeq
      <3>3. QED
        BY <1>2, <1>4, <3>2 DEF ByteValues
    <2>3. \A i \in 1 .. KeyLen : i = 1 \/ i \in 2 .. KeyLen
      BY <1>2
    <2> HIDE DEF k, h
    <2>4. QED
      BY <2>1, <2>2, <2>3
  <1>6. k \in Seq(Nat)
    BY <1>1, BytesAreNumbers
  <1>7. Number(h, ByteBase) < Order
    BY KeysAssumption
  <1> HIDE DEF k, h
  <1>8. Number(k, ByteBase) <= Number(h, ByteBase)
    BY <1>1, <1>2, <1>4, <1>5, <1>6, NumberMonotone
  <1>9. Number(k, ByteBase) \in Nat /\ Number(h, ByteBase) \in Nat
    BY <1>2, <1>4, <1>6, NumberNat
  <1>10. Number(k, ByteBase) < Order
    BY <1>2, <1>7, <1>8, <1>9
  <1>11. QED
    BY <1>10 DEF k

\* Only a key without any bit is zero.
LEMMA ZeroKey ==
  ASSUME NEW m, FullOfBytes(m), Number(Key(m), ByteBase) = 0
  PROVE  \A i \in 0 .. Size - 1 : m[i] = {}
  <1>1. Key(m) \in Seq(ByteValues) /\ Len(Key(m)) = KeyLen
        /\ \A i \in 1 .. KeyLen : Key(m)[i] = ByteValue(m[i - 1]) /\ m[i - 1] \in SUBSET Positions
    BY KeyIs DEF KeyBytes
  <1>2. ByteBase \in Nat /\ ByteBase > 1 /\ KeyLen = Size /\ KeyLen \in Nat
    BY KeysAssumption, KeygenAssumption
  <1>3. \A i \in 1 .. Len(Key(m)) : Key(m)[i] = 0
    BY <1>1, <1>2, ZeroNumber, Zenon DEF ByteValues
  <1>4. ASSUME NEW i \in 0 .. Size - 1 PROVE m[i] = {}
    <2>1. i + 1 \in 1 .. KeyLen /\ i + 1 - 1 = i
      BY <1>2
    <2>2. ByteValue(m[i]) = 0 /\ m[i] \in SUBSET Positions
      BY <1>1, <1>3, <2>1
    <2>3. QED
      BY <2>2, ByteIs
  <1>5. QED
    BY <1>4

\* The shift leaves bytes, and takes the first one's top bit to the next.
LEMMA HalvedIs ==
  ASSUME NEW m, DOMAIN m = Memory, FullOfBytes(m)
  PROVE  /\ DOMAIN Halved(m) = Memory /\ FullOfBytes(Halved(m))
         /\ ByteBits - 1 \notin Halved(m)[0]
         /\ ByteBits - 1 \in m[0] => Halved(m)[0] # {}
  <1> DEFINE h == {i - 1 : i \in m[0] \ {0}}
  <1>1. ByteBits \in Nat /\ ByteBits > 1 /\ Size \in Nat \ {0} /\ WordBytes \in Nat \ {0}
    BY ByteSize, KeysAssumption, KeygenAssumption, WordAssumption
  <1>2. 0 \in Memory /\ 0 \in 0 .. Size - 1 /\ \A i \in 0 .. Size - 1 : i \in Memory
    BY <1>1 DEF Memory
  <1>3. m[0] \in SUBSET Positions
    BY <1>2 DEF FullOfBytes
  <1>4. h \in SUBSET Positions /\ ByteBits - 1 \notin h
    BY <1>1, <1>3 DEF Positions
  <1>5. ByteBits - 1 \in m[0] => ByteBits - 2 \in h
    BY <1>1
  <1>6. Halved(m) = [m EXCEPT ![0] = h]
    BY DEF Halved
  <1> HIDE DEF h
  <1>7. DOMAIN Halved(m) = Memory /\ Halved(m)[0] = h
        /\ \A i \in Memory : i # 0 => Halved(m)[i] = m[i]
    BY <1>2, <1>6
  <1>8. FullOfBytes(Halved(m))
    BY <1>2, <1>4, <1>7 DEF FullOfBytes
  <1>9. QED
    BY <1>4, <1>5, <1>7, <1>8

\* A key that is refused before the shift and after it is zero.
LEMMA RefusedTwice ==
  ASSUME NEW m, DOMAIN m = Memory, FullOfBytes(m),
         ~ seckey_verify(Key(m)), ~ seckey_verify(Key(Halved(m)))
  PROVE  \A i \in 0 .. Size - 1 : m[i] = {}
  <1> DEFINE k == Number(Key(m), ByteBase)
             h == Number(Key(Halved(m)), ByteBase)
  <1>1. FullOfBytes(Halved(m)) /\ ByteBits - 1 \notin Halved(m)[0]
        /\ (ByteBits - 1 \in m[0] => Halved(m)[0] # {})
    BY HalvedIs
  <1>2. ByteBase \in Nat /\ Order \in Nat /\ 0 \in 0 .. Size - 1
    BY KeysAssumption, KeygenAssumption
  <1>3. k \in Nat /\ h \in Nat
    <2>1. Key(m) \in Seq(ByteValues) /\ Key(Halved(m)) \in Seq(ByteValues)
      BY <1>1, KeyIs DEF KeyBytes
    <2>2. QED
      BY <2>1, BytesSplit
  <1>4. h < Order
    BY <1>1, LowKey
  <1>5. h \notin 1 .. Order - 1 /\ k \notin 1 .. Order - 1
    BY DEF seckey_verify
  <1> HIDE DEF h
  <1>6. h = 0
    BY <1>2, <1>3, <1>4, <1>5
  <1>7. Halved(m)[0] = {}
    BY <1>1, <1>2, <1>6, ZeroKey DEF h
  <1>8. k < Order
    BY <1>1, <1>7, LowKey
  <1> HIDE DEF k
  <1>9. k = 0
    BY <1>2, <1>3, <1>5, <1>8
  <1>10. QED
    BY <1>9, ZeroKey DEF k

-----------------------------------------------------------------------------
(* What keygen prints *)

\* A text is that of the data, or malloc has failed.
TextOf(text, data) == \E allocated \in BOOLEAN : text = b58enc_data(data, allocated)

PairMade == public = privkey_to_pubkey(Key(buf)) /\ public # NoKey
PrivatePrinted == TextOf(printed.private, Key(buf))
PublicPrinted == TextOf(printed.public, pubkey_serialize(public))

Ended == {"success", "accepted", "rejected"}

\* What keygen_display has made and printed by the time it stops.
PairPrinted == pc \in Ended => PairMade /\ PrivatePrinted /\ PublicPrinted

PairInv ==
  /\ pc \in {"print_private", "print_public"} \cup Ended => PairMade
  /\ pc \in {"print_public"} \cup Ended => PrivatePrinted
  /\ pc \in Ended => PublicPrinted
  /\ DOMAIN printed = {"private", "public"}

\* fill_random knows nothing of the texts.
LEMMA FillKeepsPairInv == ASSUME PairInv, fill_random, UNCHANGED <<public, printed>> PROVE PairInv'
  <1>1. pc' \notin {"print_private", "print_public"} \cup Ended
    BY DEF fill_random, GetRandomFails, Filled, FillGoto, GetRandom, CallPrng, PrngWord,
           PrngTail, PrngReturn, Ended
  <1>2. QED
    BY <1>1 DEF PairInv

\* A key that cannot be paired is shifted before it is tried again.
LEMMA NextKeepsPairInv == PairInv /\ [Next]_vars => PairInv'
  <1> SUFFICES ASSUME PairInv, [Next]_vars PROVE PairInv'
    OBVIOUS
  <1>1. CASE fill_random /\ UNCHANGED <<public, printed, config>>
    BY <1>1, FillKeepsPairInv
  <1>2. CASE Pair
    <2>1. Key(buf)' = Key(buf) /\ DOMAIN printed' = DOMAIN printed
      BY <1>2 DEF Pair, Key
    <2>2. public' = privkey_to_pubkey(Key(buf))
          /\ pc' = IF privkey_to_pubkey(Key(buf)) = NoKey THEN "shift" ELSE "print_private"
      BY <1>2 DEF Pair, Goto
    <2>3. privkey_to_pubkey(Key(buf))' = privkey_to_pubkey(Key(buf))
      BY <2>1 DEF privkey_to_pubkey, seckey_verify, pubkey_create
    <2>4. QED
      BY <2>1, <2>2, <2>3 DEF PairInv, PairMade, Ended
  <1>3. CASE ShiftAndRepeat
    <2>1. Key(buf)' = Key(Halved(buf)) /\ DOMAIN printed' = DOMAIN printed
      BY <1>3 DEF ShiftAndRepeat, Key
    <2>2. public' = privkey_to_pubkey(Key(buf)')
          /\ pc' = IF privkey_to_pubkey(Key(buf)') = NoKey THEN "no_pair" ELSE "print_private"
      BY <1>3, <2>1 DEF ShiftAndRepeat, Goto, Key
    <2>3. privkey_to_pubkey(Key(buf))' = privkey_to_pubkey(Key(buf)')
      BY DEF privkey_to_pubkey, seckey_verify, pubkey_create
    <2>4. QED
      BY <2>1, <2>2, <2>3 DEF PairInv, PairMade, Ended
  <1>4. UNCHANGED <<buf, public>> => (PairMade <=> PairMade')
    BY DEF PairMade, Key, privkey_to_pubkey, seckey_verify, pubkey_create
  <1>5. CASE PrintPrivate
    <2>1. TextOf(printed'.private, Key(buf))
      BY <1>5 DEF PrintPrivate, TextOf, privkey_to_b58enc_form, PairInv
    <2>2. PrivatePrinted' /\ DOMAIN printed' = {"private", "public"}
      BY <2>1, <1>5 DEF PrintPrivate, PrivatePrinted, TextOf, Key, PairInv
    <2>3. QED
      BY <2>2, <1>4, <1>5 DEF PrintPrivate, Goto, PairInv, Ended
  <1>6. CASE PrintPublic
    <2>1. /\ TextOf(printed'.public, pubkey_serialize(public))
          /\ printed'.private = printed.private
          /\ DOMAIN printed' = {"private", "public"}
      BY <1>6 DEF PrintPublic, TextOf, pubkey_to_b58enc_form, PairInv
    <2>2. PublicPrinted'
      BY <2>1, <1>6 DEF PrintPublic, PublicPrinted, TextOf
    <2>3. PrivatePrinted => PrivatePrinted'
      BY <2>1, <1>6 DEF PrintPublic, PrivatePrinted, TextOf, Key
    <2>4. QED
      BY <2>1, <2>2, <2>3, <1>4, <1>6 DEF PrintPublic, Goto, PairInv, Ended
  <1>7. UNCHANGED <<buf, public, printed>> =>
          /\ PrivatePrinted <=> PrivatePrinted'
          /\ PublicPrinted <=> PublicPrinted'
    BY DEF PrivatePrinted, PublicPrinted, TextOf, Key
  <1>8. CASE FillFails \/ NoPair
    BY <1>8 DEF FillFails, NoPair, Goto, PairInv, Ended
  <1>9. CASE LoadKeys
    BY <1>4, <1>7, <1>9 DEF LoadKeys, Goto, PairInv, Ended
  <1>10. CASE UNCHANGED vars
    BY <1>4, <1>7, <1>10 DEF vars, fillVars, PairInv
  <1>11. QED
    BY <1>1, <1>2, <1>3, <1>5, <1>6, <1>8, <1>9, <1>10 DEF Next, keygen_display

THEOREM PairInvariance == Spec => []PairInv
  <1>1. Init => PairInv
    BY DEF Init, FillInit, Nothing, PairInv, Ended
  <1>2. QED
    BY <1>1, NextKeepsPairInv, PTL DEF Spec

(***************************************************************************)
(* keygen_display prints the text of a private key of the curve and that   *)
(* of its own public key, after a shift too; or none, when malloc fails.   *)
(***************************************************************************)
THEOREM KeygenPrintsAPair == Spec => []PairPrinted
  <1>1. PairInv => PairPrinted
    BY DEF PairInv, PairPrinted
  <1>2. QED
    BY <1>1, PairInvariance, PTL

-----------------------------------------------------------------------------
(* Giving up *)

WithKey == {"filled", "shift", "no_pair", "print_private", "print_public"} \cup Ended

(***************************************************************************)
(* The invariant: what is stored are bytes, before ptr + got while the     *)
(* buffer is being filled and all over it then, and a key that is going to *)
(* be shifted has been refused.                                            *)
(***************************************************************************)
BytesInv ==
  /\ DOMAIN buf = Memory
  /\ pc \in {"fill", "prng"} => \A i \in Memory : i < ptr + got => buf[i] \in SUBSET Positions
  /\ pc \in WithKey => FullOfBytes(buf)

Refused == pc = "shift" => ~ seckey_verify(Key(buf))

\* Bytes stored behind bytes.
LEMMA StoreBytes ==
  ASSUME NEW at \in Nat, NEW n \in Nat, NEW bytes, Store(at, n, bytes),
         \A i \in Memory : i < at => buf[i] \in SUBSET Positions,
         \A k \in 0 .. n - 1 : bytes[k] \in SUBSET Positions
  PROVE  DOMAIN buf' = Memory /\ \A i \in Memory : i < at + n => buf'[i] \in SUBSET Positions
  <1>1. buf' = [i \in Memory |-> IF i \in at .. at + n - 1 THEN bytes[i - at] ELSE buf[i]]
    BY DEF Store
  <1>2. ASSUME NEW i \in Memory, i < at + n PROVE buf'[i] \in SUBSET Positions
    <2>1. i \in Nat
      BY DEF Memory
    <2>2. CASE i < at
      <3>1. i \notin at .. at + n - 1
        BY <2>1, <2>2
      <3>2. QED
        BY <1>1, <2>2, <3>1
    <2>3. CASE i >= at
      <3>1. i \in at .. at + n - 1 /\ i - at \in 0 .. n - 1
        BY <1>2, <2>1, <2>3
      <3>2. QED
        BY <1>1, <3>1
    <2>4. QED
      BY <2>1, <2>2, <2>3
  <1>3. QED
    BY <1>1, <1>2

\* A key that makes no pair is refused.
LEMMA NoPairRefused ==
  ASSUME NEW m, FullOfBytes(m), privkey_to_pubkey(Key(m)) = NoKey
  PROVE  ~ seckey_verify(Key(m))
  <1> SUFFICES ASSUME seckey_verify(Key(m)) PROVE FALSE
    OBVIOUS
  <1>1. Key(m) \in KeyBytes
    BY KeyIs
  <1>2. privkey_to_pubkey(Key(m)) \in PublicKeys
    BY <1>1, CreatedIsPublic
  <1>3. QED
    BY <1>2, Serialized

\* fill_random stores bytes, and returns once it has stored all.
LEMMA FillKeepsBytes == ASSUME FillInv, BytesInv, fill_random PROVE BytesInv'
  <1> USE DEF FillGoto
  <1>1. pc \in {"fill", "prng"} /\ Places
        /\ \A i \in Memory : i < ptr + got => buf[i] \in SUBSET Positions
    <2>1. pc \in {"fill", "prng"}
      BY DEF fill_random, CallPrng, PrngWord, PrngTail, PrngReturn, GetRandom, GetRandomFails, Filled
    <2>2. QED
      BY <2>1 DEF FillInv, BytesInv
  <1>2. ASSUME NEW n \in Nat, NEW bytes, Store(ptr + got, n, bytes), pc' \in {"fill", "prng"},
               ptr' + got' = ptr + got + n, \A k \in 0 .. n - 1 : bytes[k] \in SUBSET Positions
        PROVE  BytesInv'
    <2> DEFINE at == ptr + got
    <2>1. at \in Nat
      BY <1>1 DEF Places
    <2>2. Store(at, n, bytes) /\ \A i \in Memory : i < at => buf[i] \in SUBSET Positions
      BY <1>1, <1>2
    <2>3. ptr' + got' = at + n
      BY <1>2
    <2> HIDE DEF at
    <2>4. DOMAIN buf' = Memory /\ \A i \in Memory : i < at + n => buf'[i] \in SUBSET Positions
      BY <1>2, <2>1, <2>2, StoreBytes
    <2>5. pc' \notin WithKey
      BY <1>2 DEF WithKey, Ended
    <2>6. QED
      BY <2>3, <2>4, <2>5 DEF BytesInv
  <1>3. ASSUME UNCHANGED buf, pc' \in {"fill", "prng"}, ptr' + got' = ptr + got PROVE BytesInv'
    <2>1. pc' \notin WithKey
      BY <1>3 DEF WithKey, Ended
    <2>2. QED
      BY <1>1, <1>3, <2>1 DEF BytesInv
  <1>4. ASSUME NEW n \in Nat, StoreWord(n), pc' = "prng", got' = got + n, ptr' = ptr PROVE BytesInv'
    <2> DEFINE bytes == [k \in 0 .. n - 1 |-> Byte(Output(state), k)]
    <2>1. Store(ptr + got, n, bytes)
      BY <1>4 DEF StoreWord
    <2>2. \A k \in 0 .. n - 1 : bytes[k] \in SUBSET Positions
      BY DEF Byte, Positions
    <2>3. ptr' + got' = ptr + got + n
      BY <1>1, <1>4 DEF Places
    <2> HIDE DEF bytes
    <2>4. QED
      BY <1>2, <1>4, <2>1, <2>2, <2>3
  <1>5. CASE CallPrng
    <2>1. got = 0
      BY <1>5 DEF CallPrng, FillInv
    <2>2. QED
      BY <1>3, <1>5, <2>1 DEF CallPrng
  <1>6. CASE PrngWord
    <2>1. WordBytes \in Nat
      BY WordAssumption
    <2>2. QED
      BY <1>4, <1>6, <2>1 DEF PrngWord
  <1>7. CASE PrngTail
    <2>1. Missing - got \in Nat /\ got + (Missing - got) = Missing
      BY <1>1, <1>7, GeneratorAssumption DEF PrngTail, Places, Missing
    <2>2. QED
      BY <1>4, <1>7, <2>1 DEF PrngTail
  <1>8. CASE PrngReturn
    <2>1. ptr' + got' = ptr + got
      BY <1>1, <1>8 DEF PrngReturn, Places
    <2>2. QED
      BY <1>3, <1>8, <2>1 DEF PrngReturn
  <1>9. CASE GetRandom
    <2>1. PICK n \in 1 .. Missing : \E bytes \in [0 .. n - 1 -> SUBSET (0 .. ByteBits - 1)] :
                                     Store(ptr, n, bytes) /\ ptr' = ptr + n
      BY <1>9 DEF GetRandom
    <2> PICK bytes \in [0 .. n - 1 -> SUBSET (0 .. ByteBits - 1)] :
           Store(ptr, n, bytes) /\ ptr' = ptr + n
      BY <2>1
    <2>2. got = 0 /\ got' = 0 /\ pc' = "fill" /\ ptr + got = ptr
      BY <1>1, <1>9 DEF GetRandom, FillInv, Places
    <2>3. n \in Nat /\ ptr' + got' = ptr + got + n
      BY <1>1, <2>1, <2>2, GeneratorAssumption DEF Places, Missing
    <2>4. \A k \in 0 .. n - 1 : bytes[k] \in SUBSET Positions
      BY DEF Positions
    <2>5. QED
      BY <1>2, <2>1, <2>2, <2>3, <2>4
  <1>10. CASE GetRandomFails
    BY <1>10 DEF GetRandomFails, BytesInv, WithKey, Ended
  <1>11. CASE Filled
    <2>1. pc' = "filled" /\ buf' = buf /\ filled >= Size
      BY <1>11 DEF Filled
    <2>2. ASSUME NEW i \in 0 .. Size - 1 PROVE buf[i] \in SUBSET Positions
      <3>1. i \in Memory /\ i < ptr + got
        BY <1>1, <2>1, GeneratorAssumption, WordAssumption DEF Places, Memory
      <3>2. QED
        BY <1>1, <3>1
    <2>3. QED
      BY <2>1, <2>2 DEF BytesInv, FullOfBytes
  <1>12. QED
    BY <1>5, <1>6, <1>7, <1>8, <1>9, <1>10, <1>11 DEF fill_random

\* The key is shifted once, after it has been refused.
LEMMA NextKeepsBytes == FillInv /\ BytesInv /\ Refused /\ [Next]_vars => BytesInv' /\ Refused'
  <1> SUFFICES ASSUME FillInv, BytesInv, Refused, [Next]_vars PROVE BytesInv' /\ Refused'
    OBVIOUS
  <1>1. UNCHANGED buf => (seckey_verify(Key(buf)) <=> seckey_verify(Key(buf))')
    BY DEF seckey_verify, Key
  <1>2. CASE fill_random
    <2>1. pc' # "shift"
      BY <1>2 DEF fill_random, CallPrng, PrngWord, PrngTail, PrngReturn, GetRandom, GetRandomFails,
                  Filled, FillGoto
    <2>2. QED
      BY <1>2, <2>1, FillKeepsBytes DEF Refused
  <1>3. CASE Pair
    <2>1. pc = "filled" /\ UNCHANGED buf /\ pc' \in WithKey \ {"fill", "prng"}
          /\ (pc' = "shift" => privkey_to_pubkey(Key(buf)) = NoKey)
      BY <1>3 DEF Pair, Goto, WithKey
    <2>2. FullOfBytes(buf)
      BY <2>1 DEF BytesInv, WithKey
    <2>3. pc' = "shift" => ~ seckey_verify(Key(buf))
      BY <2>1, <2>2, NoPairRefused
    <2>4. BytesInv'
      BY <2>1, <2>2 DEF BytesInv, FullOfBytes
    <2>5. QED
      BY <1>1, <2>1, <2>3, <2>4 DEF Refused
  <1>4. CASE ShiftAndRepeat
    <2>1. pc = "shift" /\ buf' = Halved(buf) /\ pc' \in {"no_pair", "print_private"}
      BY <1>4 DEF ShiftAndRepeat, Goto
    <2>2. DOMAIN buf = Memory /\ FullOfBytes(buf)
      BY <2>1 DEF BytesInv, WithKey
    <2>3. DOMAIN Halved(buf) = Memory /\ FullOfBytes(Halved(buf))
      BY <2>2, HalvedIs
    <2>4. DOMAIN buf' = Memory /\ FullOfBytes(buf')
      BY <2>1, <2>3
    <2>5. QED
      BY <2>1, <2>4 DEF BytesInv, FullOfBytes, Refused
  <1>5. CASE FillFails \/ NoPair \/ PrintPrivate \/ PrintPublic \/ LoadKeys
    <2>1. /\ UNCHANGED buf /\ pc' \notin {"fill", "prng", "shift"}
          /\ pc' \in WithKey => pc \in WithKey
      BY <1>5 DEF FillFails, NoPair, PrintPrivate, PrintPublic, LoadKeys, Goto, WithKey, Ended
    <2>2. QED
      BY <2>1 DEF BytesInv, FullOfBytes, Refused
  <1>6. CASE UNCHANGED vars
    BY <1>1, <1>6 DEF vars, fillVars, BytesInv, FullOfBytes, Refused
  <1>7. QED
    BY <1>2, <1>3, <1>4, <1>5, <1>6 DEF Next, keygen_display

THEOREM BytesInvariance == Spec => [](BytesInv /\ Refused)
  <1>1. Init => BytesInv /\ Refused
    <2> SUFFICES ASSUME Init PROVE BytesInv /\ Refused
      OBVIOUS
    <2>1. pc = "fill" /\ got = 0 /\ ptr = 0 /\ buf = [i \in Memory |-> Unset]
      BY DEF Init, FillInit
    <2>2. \A i \in Memory : ~ (i < 0 + 0)
      BY DEF Memory
    <2>3. QED
      BY <2>1, <2>2 DEF BytesInv, Refused, WithKey, Ended
  <1>2. QED
    BY <1>1, NextKeepsBytes, FillInvariance, PTL DEF Spec

(***************************************************************************)
(* Whatever the random bytes and the widths are: a key past the order of   *)
(* the curve has its top bit, so that after the shift of its first byte it *)
(* is below the order, and not zero; keygen gives up on zero alone.        *)
(***************************************************************************)
THEOREM ZeroAloneHasNoPair == Spec => GivesUpOnlyOnZero
  <1>1. ASSUME BytesInv, Refused, Next, pc = "shift", pc' = "no_pair"
        PROVE  \A i \in 0 .. Size - 1 : buf[i] = {}
    <2>1. privkey_to_pubkey(Key(Halved(buf))) = NoKey
      <3>1. ShiftAndRepeat
        BY <1>1 DEF Next, keygen_display, fill_random, CallPrng, PrngWord, PrngTail, PrngReturn,
                    GetRandom, GetRandomFails, Filled, FillGoto, Goto, FillFails, Pair, NoPair,
                    PrintPrivate, PrintPublic, LoadKeys, Done
      <3>2. QED
        BY <1>1, <3>1 DEF ShiftAndRepeat, Goto
    <2>2. DOMAIN buf = Memory /\ FullOfBytes(buf) /\ ~ seckey_verify(Key(buf))
      BY <1>1 DEF BytesInv, Refused, WithKey
    <2>3. FullOfBytes(Halved(buf))
      BY <2>2, HalvedIs
    <2>4. ~ seckey_verify(Key(Halved(buf)))
      BY <2>1, <2>3, NoPairRefused
    <2>5. QED
      BY <2>2, <2>4, RefusedTwice
  <1>2. BytesInv /\ Refused /\ [Next]_vars
          => [pc = "shift" /\ pc' = "no_pair" => \A i \in 0 .. Size - 1 : buf[i] = {}]_vars
    BY <1>1
  <1>3. QED
    BY <1>2, BytesInvariance, PTL DEF Spec, GivesUpOnlyOnZero

-----------------------------------------------------------------------------
(* Reading the keys back *)

\* A slip leaves a text of characters.
LEMMA SlipsAreTexts ==
  ASSUME NEW text \in Seq(0 .. DigitBase), NEW t \in Slips(text)
  PROVE  t \in Seq(0 .. DigitBase)
  <1> DEFINE D == 0 .. DigitBase
  <1>1. ASSUME NEW m \in Int, NEW n \in Int, m >= 1, n <= Len(text) PROVE SubSeq(text, m, n) \in Seq(D)
    <2>1. \A i \in m .. n : i \in 1 .. Len(text)
      BY <1>1
    <2>2. \A i \in m .. n : text[i] \in D
      BY <2>1, ElementOfSeq, Zenon
    <2>3. QED
      BY <2>2, SubSeqProperties, Zenon
  <1>2. ASSUME NEW i \in DOMAIN text, NEW d \in D PROVE [text EXCEPT ![i] = d] \in Seq(D)
    BY <1>2
  <1>3. ASSUME NEW i \in DOMAIN text PROVE RemoveAt(text, i) \in Seq(D)
    <2>1. i \in Int /\ i \in 1 .. Len(text) /\ Len(text) \in Int
      BY <1>3
    <2>2. SubSeq(text, 1, i - 1) \in Seq(D) /\ SubSeq(text, i + 1, Len(text)) \in Seq(D)
      BY <1>1, <2>1
    <2>3. QED
      BY <2>2, ConcatProperties, Zenon DEF RemoveAt
  <1>4. ASSUME NEW i \in 1 .. Len(text) + 1, NEW d \in D PROVE InsertAt(text, i, d) \in Seq(D)
    <2>1. i \in Int /\ i - 1 <= Len(text) /\ i >= 1 /\ Len(text) \in Int
      BY <1>4
    <2>2. SubSeq(text, 1, i - 1) \in Seq(D) /\ SubSeq(text, i, Len(text)) \in Seq(D)
      BY <1>1, <2>1
    <2>3. <<d>> \in Seq(D)
      OBVIOUS
    <2>4. SubSeq(text, 1, i - 1) \o <<d>> \in Seq(D)
      BY <2>2, <2>3, ConcatProperties, Zenon
    <2>5. QED
      BY <2>2, <2>4, ConcatProperties, Zenon DEF InsertAt
  <1>5. \/ \E i \in DOMAIN text, d \in D : t = [text EXCEPT ![i] = d]
        \/ \E i \in DOMAIN text : t = RemoveAt(text, i)
        \/ \E i \in 1 .. Len(text) + 1, d \in D : t = InsertAt(text, i, d)
    BY DEF Slips
  <1>6. QED
    BY <1>2, <1>3, <1>4, <1>5, Zenon

(***************************************************************************)
(* The invariant: config_load has read a copy of two texts that keygen has *)
(* printed, and refused the keys, or not, as they deserve.                 *)
(***************************************************************************)
ReadAs(keys, texts) ==
  /\ texts.private # NoText /\ texts.public # NoText
  /\ keys \in Copies(texts)
  /\ pc = "accepted" <=> Accepted(keys)

CopyInv ==
  /\ printed = [private |-> printed.private, public |-> printed.public]
  /\ pc \in {"accepted", "rejected"} =>
       \E keys, texts : config = keys /\ printed = texts /\ ReadAs(keys, texts)

LEMMA NextKeepsCopyInv == CopyInv /\ [Next]_vars => CopyInv'
  <1> SUFFICES ASSUME CopyInv, [Next]_vars PROVE CopyInv'
    OBVIOUS
  <1>1. CASE LoadKeys
    <2>1. PICK keys \in Copies(printed) :
            config' = keys /\ Goto("success", IF Accepted(keys) THEN "accepted" ELSE "rejected")
      BY <1>1 DEF LoadKeys
    <2>2. PICK texts : texts = printed
      OBVIOUS
    <2>3. printed' = texts /\ texts.private # NoText /\ texts.public # NoText /\ keys \in Copies(texts)
      BY <1>1, <2>1, <2>2 DEF LoadKeys
    <2>4. pc' = "accepted" <=> Accepted(keys)
      BY <2>1 DEF Goto
    <2>5. ReadAs(keys, texts)'
      BY <2>3, <2>4 DEF ReadAs
    <2>6. printed' = [private |-> printed'.private, public |-> printed'.public]
      BY <2>2, <2>3 DEF CopyInv
    <2>7. QED
      BY <2>1, <2>3, <2>5, <2>6 DEF CopyInv
  <1>2. CASE keygen_display
    <2>1. pc' \notin {"accepted", "rejected"}
      BY <1>2 DEF keygen_display, fill_random, CallPrng, PrngWord, PrngTail, PrngReturn, GetRandom,
                  GetRandomFails, Filled, FillGoto, Goto, FillFails, Pair, ShiftAndRepeat, NoPair,
                  PrintPrivate, PrintPublic
    <2>2. \/ printed' = printed
          \/ \E t : printed' = [printed EXCEPT !.private = t]
          \/ \E t : printed' = [printed EXCEPT !.public = t]
      BY <1>2 DEF keygen_display, FillFails, Pair, ShiftAndRepeat, NoPair, PrintPrivate, PrintPublic
    <2>3. printed' = [private |-> printed'.private, public |-> printed'.public]
      BY <2>2 DEF CopyInv
    <2>4. QED
      BY <2>1, <2>3 DEF CopyInv
  <1>3. CASE UNCHANGED vars
    BY <1>3 DEF vars, fillVars, CopyInv, ReadAs
  <1>4. QED
    BY <1>1, <1>2, <1>3 DEF Next

THEOREM CopyInvariance == Spec => []CopyInv
  <1>1. Init => CopyInv
    BY DEF Init, FillInit, Nothing, CopyInv
  <1>2. QED
    BY <1>1, NextKeepsCopyInv, PTL DEF Spec

\* What a configuration holds that has been read.
LEMMA KeysRead ==
  ASSUME BytesInv, PairInv, CopyInv, pc \in {"accepted", "rejected"}
  PROVE  /\ Key(buf) \in KeyBytes /\ seckey_verify(Key(buf))
         /\ public = pubkey_create(Key(buf)) /\ public \in PublicKeys
         /\ printed = [private |-> TextIn58(Key(buf)), public |-> TextIn58(pubkey_serialize(public))]
         /\ config \in Copies(printed) /\ (pc = "accepted" <=> Accepted(config))
  <1>1. printed.private # NoText /\ printed.public # NoText
        /\ config \in Copies(printed) /\ (pc = "accepted" <=> Accepted(config))
    BY DEF CopyInv, ReadAs
  <1>2. PairMade /\ PrivatePrinted /\ PublicPrinted /\ FullOfBytes(buf)
    BY DEF PairInv, BytesInv, WithKey, Ended
  <1>3. Key(buf) \in KeyBytes
    BY <1>2, KeyIs
  <1>4. seckey_verify(Key(buf))
    BY <1>2 DEF PairMade, privkey_to_pubkey
  <1>5. public = pubkey_create(Key(buf)) /\ public \in PublicKeys
    BY <1>2, <1>3, <1>4, CreatedIsPublic DEF PairMade
  <1>6. printed.private = TextIn58(Key(buf)) /\ printed.public = TextIn58(pubkey_serialize(public))
    BY <1>1, <1>2, <1>3, <1>5, PrivateText, PublicText
       DEF PrivatePrinted, PublicPrinted, TextOf, b58enc_data
  <1>7. printed = [private |-> TextIn58(Key(buf)), public |-> TextIn58(pubkey_serialize(public))]
    BY <1>6 DEF CopyInv
  <1>8. QED
    BY <1>1, <1>3, <1>4, <1>5, <1>7

(***************************************************************************)
(* For keys of any length, with any number of leading zeros, and any two   *)
(* bases, if only the limits on the digits hold for the largest keys:      *)
(* config_load accepts what keygen prints.                                 *)
(***************************************************************************)
THEOREM KeysAreReadBack == Spec => []OwnKeysAccepted
  <1>1. ASSUME BytesInv, PairInv, CopyInv PROVE OwnKeysAccepted
    <2> SUFFICES ASSUME pc = "rejected", config = printed PROVE FALSE
      BY DEF OwnKeysAccepted
    <2> DEFINE k == Key(buf)
    <2>1. /\ k \in KeyBytes /\ seckey_verify(k)
          /\ public = pubkey_create(k) /\ public \in PublicKeys
          /\ config.private = TextIn58(k) /\ config.public = TextIn58(pubkey_serialize(public))
          /\ ~ Accepted(config)
      BY <1>1, KeysRead
    <2> HIDE DEF k
    <2>2. decode_b58_privkey(config.private) = k /\ decode_b58_pubkey(config.public) = public
      BY <2>1, PrivateText, PublicText
    <2>3. privkey_to_pubkey(k) = public /\ public # NoKey
      BY <2>1, CreatedIsPublic, Serialized
    <2>4. k # NoKey
      BY <2>1, BytesAreNumbers, KeysAssumption DEF KeyBytes
    <2>5. Accepted(config)
      BY <2>2, <2>3, <2>4 DEF Accepted, check_pubkey_belongs_to_privkey
    <2>6. QED
      BY <2>1, <2>5
  <1>2. QED
    BY <1>1, PairInvariance, BytesInvariance, CopyInvariance, PTL

(***************************************************************************)
(* A text stands for one key only, and a public key belongs to one private *)
(* key only: the one of the two texts that was copied right determines the *)
(* other, whatever the slip in that was.                                   *)
(***************************************************************************)
THEOREM SlipsAreRefused == Spec => []MistakeCaught
  <1>1. ASSUME BytesInv, PairInv, CopyInv PROVE MistakeCaught
    <2> SUFFICES ASSUME pc = "accepted" PROVE config = printed
      BY DEF MistakeCaught
    <2> DEFINE k == Key(buf)
               s == TextIn58(k)
               u == TextIn58(pubkey_serialize(public))
    <2>1. /\ k \in KeyBytes /\ seckey_verify(k)
          /\ public = pubkey_create(k) /\ public \in PublicKeys
          /\ printed = [private |-> s, public |-> u]
          /\ config \in Copies(printed) /\ Accepted(config)
      BY <1>1, KeysRead
    <2>2. s \in Seq(0 .. DigitBase) /\ u \in Seq(0 .. DigitBase)
      <3>1. s \in Seq(DigitValues) /\ u \in Seq(DigitValues)
        BY <2>1, TextIs, Serialized DEF KeyBytes
      <3> HIDE DEF s, u
      <3>2. QED
        BY <3>1, KeysAssumption DEF DigitValues
    <2>3. decode_b58_privkey(s) = k /\ decode_b58_pubkey(u) = public
      BY <2>1, PrivateText, PublicText
    <2> DEFINE c == decode_b58_privkey(config.private)
               p == decode_b58_pubkey(config.public)
    <2>4. c # NoKey /\ p # NoKey /\ privkey_to_pubkey(c) = p
      BY <2>1 DEF Accepted, check_pubkey_belongs_to_privkey
    <2> HIDE DEF k
    <2>5. ASSUME NEW t \in Slips(s), config = [printed EXCEPT !.private = t] PROVE t = s
      <3>1. t \in Seq(0 .. DigitBase)
        BY <2>2, SlipsAreTexts
      <3>2. config.private = t /\ config.public = u
        BY <2>1, <2>5
      <3>3. c = decode_b58_privkey(t) /\ p = public
        BY <2>3, <3>2
      <3> HIDE DEF c, p, s, u
      <3>4. c \in KeyBytes /\ seckey_verify(c) /\ t = TextIn58(c)
        BY <2>4, <3>1, <3>3, PrivateBack
      <3>5. pubkey_create(c) = pubkey_create(k)
        BY <2>1, <2>4, <3>3, <3>4, CreatedIsPublic
      <3>6. c = k
        BY <2>1, <3>4, <3>5, PairUnique
      <3>7. QED
        BY <3>4, <3>6 DEF s
    <2>6. ASSUME NEW t \in Slips(u), config = [printed EXCEPT !.public = t] PROVE t = u
      <3>1. t \in Seq(0 .. DigitBase)
        BY <2>2, SlipsAreTexts
      <3>2. config.private = s /\ config.public = t
        BY <2>1, <2>6
      <3>3. c = k /\ p = decode_b58_pubkey(t)
        BY <2>3, <3>2
      <3> HIDE DEF c, p, s, u
      <3>4. p = public
        BY <2>1, <2>4, <3>3, CreatedIsPublic
      <3>5. t = TextIn58(pubkey_serialize(p))
        BY <2>4, <3>1, <3>3, PublicBack
      <3>6. QED
        BY <3>4, <3>5 DEF u
    <2> HIDE DEF s, u
    <2>7. \/ config = printed
          \/ \E t \in Slips(s) : config = [printed EXCEPT !.private = t]
          \/ \E t \in Slips(u) : config = [printed EXCEPT !.public = t]
      <3>1. printed.private = s /\ printed.public = u
        BY <2>1
      <3>2. QED
        BY <2>1, <3>1 DEF Copies
    <2>8. [printed EXCEPT !.private = s] = printed /\ [printed EXCEPT !.public = u] = printed
      BY <2>1
    <2>9. QED
      BY <2>5, <2>6, <2>7, <2>8
  <1>2. QED
    BY <1>1, PairInvariance, BytesInvariance, CopyInvariance, PTL

(***************************************************************************)
(* The buffers of b58enc_data, of twice the size of the data, have room    *)
(* for the text of every key: it only fails without memory.                *)
(***************************************************************************)
THEOREM TextsHaveRoom ==
  /\ \A key \in KeyBytes : privkey_to_b58enc_form(key, TRUE) = TextIn58(key)
  /\ \A p \in PublicKeys : pubkey_to_b58enc_form(p, TRUE) = TextIn58(pubkey_serialize(p))
  BY PrivateText, PublicText DEF privkey_to_b58enc_form, pubkey_to_b58enc_form

=============================================================================
