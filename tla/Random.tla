------------------------------- MODULE Random -------------------------------
(***************************************************************************)
(* Random bits for the alloc callbacks: theft_random_set_seed,             *)
(* theft_random_bits_bulk, theft_random_choice (src/src/theft_random.c),   *)
(* and, when a bit pool is injected, lazily_fill_bit_pool and fill_buf     *)
(* (src/src/theft_autoshrink.c).  One action is one iteration of a loop.   *)
(* A word is a function from bit numbers to bits; a buffer of several      *)
(* words is numbered through.                                              *)
(***************************************************************************)
EXTENDS Integers

CONSTANTS
  WordBits,      \* 64
  Seeds,
  Stream(_,_)    \* <seed, n>: 1 iff bit n of the generator's output is set

ASSUME RandomAssumption == WordBits \in Nat \ {0}

VARIABLES
  seed, drawn,         \* the generator's seed, and the words taken from it
  buf, bits_available, \* t->prng
  bit_pool,            \* t->prng.bit_pool, or NoPool
  at,                  \* "idle", or the loop a request is in
  want, rem,           \* bit_count, and the bits not yet copied
  shift, offset,       \* where the next bits go in the caller's buffer
  out,                 \* the caller's buffer
  word, start, before  \* history: the number of the word in buf; where in the
                       \* stream the request began; its buffer beforehand

prngVars == <<seed, drawn, buf, bits_available, word>>
requestVars == <<at, want, rem, shift, offset, out, start, before>>
randomVars == <<prngVars, bit_pool, requestVars>>

NoPool == [used |-> FALSE, base |-> 0, filled |-> 0, consumed |-> 0,
           bits |-> [j \in {} |-> 0]]
EmptyPool(n) == [NoPool EXCEPT !.base = n, !.used = TRUE]
Pooled == bit_pool.used

Bit(s, n) == IF Stream(s, n) = 1 THEN 1 ELSE 0
Or(a, b) == IF a = 1 \/ b = 1 THEN 1 ELSE 0
Least(m, n) == IF m < n THEN m ELSE n

BitsOfWords(n) == 0 .. n * WordBits - 1
WordsFor(n) == (n + WordBits - 1) \div WordBits
ZeroWord == [j \in 0 .. WordBits - 1 |-> 0]
Word(s, k) == [j \in 0 .. WordBits - 1 |-> Bit(s, k * WordBits + j)]

(* The bits of w >> n.                                                     *)
ShiftRight(w, n) ==
  [j \in 0 .. WordBits - 1 |-> IF j + n < WordBits THEN w[j + n] ELSE 0]

NoRequest ==
  /\ at = "idle" /\ want = 0 /\ rem = 0 /\ shift = 0 /\ offset = 0
  /\ out = ZeroWord /\ before = ZeroWord
  /\ start = [seed |-> seed, from |-> 0, left |-> 0, next |-> 0]

RandomInit(s) ==
  /\ seed = s /\ drawn = 0 /\ word = 0
  /\ buf = ZeroWord /\ bits_available = 0
  /\ bit_pool = NoPool
  /\ NoRequest

(* A bug: the buffered bits of the last seed stay.                         *)
SetSeedKeepsBits(s) ==
  /\ at = "idle"
  /\ seed' = s /\ drawn' = 0
  /\ bit_pool' = NoPool
  /\ UNCHANGED <<buf, bits_available, word, requestVars>>

(* Seed s, without what is left of the last one's bits.                    *)
SetSeed(s) ==
  /\ at = "idle"
  /\ seed' = s /\ drawn' = 0 /\ word' = 0
  /\ buf' = ZeroWord /\ bits_available' = 0
  /\ bit_pool' = NoPool
  /\ UNCHANGED requestVars

(* alloc_from_bit_pool, for a new pool; and after its alloc callback.      *)
InjectPool ==
  /\ at = "idle" /\ ~ Pooled
  /\ bit_pool' = EmptyPool(drawn)
  /\ UNCHANGED <<prngVars, requestVars>>

StopUsingPool ==
  /\ at = "idle" /\ Pooled
  /\ bit_pool' = NoPool
  /\ UNCHANGED <<prngVars, requestVars>>

(***************************************************************************)
(* Where the bits of the next request are in the stream: what is left of   *)
(* the buffered word, from bit number "from" on, and then from "next" on.  *)
(***************************************************************************)
NextBits(n) ==
  IF Pooled
  THEN [seed |-> seed, left |-> n, next |-> 0,
        from |-> bit_pool.base * WordBits + bit_pool.consumed]
  ELSE [seed |-> seed, left |-> bits_available, next |-> drawn * WordBits,
        from |-> (word + 1) * WordBits - bits_available]

(***************************************************************************)
(* A request for n bits, into a buffer that holds b.  With a pool, fill_buf*)
(* clears each word of the buffer before it fills it; without, nobody does.*)
(***************************************************************************)
Ask(n, b) ==
  /\ at = "idle"
  /\ want' = n /\ rem' = n
  /\ shift' = 0 /\ offset' = 0
  /\ start' = NextBits(n)
  /\ before' = IF Pooled THEN [j \in DOMAIN b |-> 0] ELSE b
  /\ out' = IF n = 0 \/ ~ Pooled THEN b
            ELSE [j \in DOMAIN b |-> IF j < WordBits THEN 0 ELSE b[j]]
  /\ at' = CASE n = 0 -> "idle" [] n > 0 /\ Pooled -> "fill" [] OTHER -> "take"
  /\ UNCHANGED <<prngVars, bit_pool>>

Copied(n) == rem' = rem - n /\ at' = IF rem = n THEN "idle" ELSE at

(* A bug: the buffered bits are not counted.                               *)
TakeSizeNoBuffer(available) == Least(WordBits - shift, rem)

(* How many bits one iteration takes, with so many in the PRNG's buffer.   *)
TakeSize(available) == Least(Least(WordBits - shift, rem), available)

(***************************************************************************)
(* The loop of theft_random_bits_bulk: bits from the PRNG's buffer, filled *)
(* with another word when it is empty, are or-ed into the caller's.        *)
(***************************************************************************)
Take ==
  LET empty == bits_available = 0
      source == IF empty THEN Word(seed, drawn) ELSE buf
      available == IF empty THEN WordBits ELSE bits_available
      take == TakeSize(available)
      first == offset * WordBits + shift IN
  /\ at = "take"
  /\ drawn' = IF empty THEN drawn + 1 ELSE drawn
  /\ word' = IF empty THEN drawn ELSE word
  /\ buf' = ShiftRight(source, take)
  /\ bits_available' = available - take
  /\ out' = [j \in DOMAIN out |->
               IF j \in first .. first + take - 1
               THEN Or(out[j], source[j - first]) ELSE out[j]]
  /\ shift' = (shift + take) % WordBits
  /\ offset' = offset + (shift + take) \div WordBits
  /\ Copied(take)
  /\ UNCHANGED <<seed, bit_pool, want, start, before>>

(* lazily_fill_bit_pool: words for the whole request.                      *)
FillPool ==
  /\ at = "fill"
  /\ IF bit_pool.consumed + want > bit_pool.filled
     THEN /\ bit_pool' =
               [bit_pool EXCEPT
                  !.filled = @ + WordBits,
                  !.bits = [j \in 0 .. bit_pool.filled + WordBits - 1 |->
                              IF j < bit_pool.filled THEN @[j]
                              ELSE Word(seed, drawn)[j - bit_pool.filled]]]
          /\ drawn' = drawn + 1
          /\ UNCHANGED at
     ELSE at' = "copy" /\ UNCHANGED <<bit_pool, drawn>>
  /\ UNCHANGED <<seed, buf, bits_available, word, want, rem, shift, offset,
                 out, start, before>>

(***************************************************************************)
(* The loop of fill_buf: up to the end of a word of the pool or of the     *)
(* buffer; the buffer's next word is cleared when it is begun.             *)
(***************************************************************************)
Copy ==
  LET i == want - rem
      src == bit_pool.consumed + i
      n == Least(Least(rem, WordBits - (i % WordBits)), WordBits - (src % WordBits))
      begun == (i + n) % WordBits = 0 /\ n < rem IN
  /\ at = "copy"
  /\ out' = [j \in DOMAIN out |->
               CASE j \in i .. i + n - 1 ->
                      Or(out[j], bit_pool.bits[bit_pool.consumed + j])
                 [] begun /\ j \in i + n .. i + n + WordBits - 1 -> 0
                 [] OTHER -> out[j]]
  /\ Copied(n)
  /\ bit_pool' = IF n = rem THEN [bit_pool EXCEPT !.consumed = @ + want] ELSE bit_pool
  /\ UNCHANGED <<prngVars, want, shift, offset, start, before>>

ServeStep == Take \/ FillPool \/ Copy

-----------------------------------------------------------------------------
(* theft_random_choice.                                                    *)

CONSTANTS
  Mantissa,                 \* 53
  SmallCeil, SmallBits,     \* UINT8_MAX and 16
  MediumCeil, MediumBits    \* UINT16_MAX and 32

(* The products of few bits and a small ceil are exact.                    *)
ASSUME ChoiceAssumption ==
  /\ {SmallBits, MediumBits} \subseteq 0 .. WordBits
  /\ Mantissa \in 1 .. WordBits
  /\ SmallCeil \in Nat /\ 2^SmallBits * SmallCeil <= 2^Mantissa
  /\ MediumCeil \in Nat /\ 2^MediumBits * MediumCeil <= 2^Mantissa

(* Arithmetic that the provers do not know.                                *)
ASSUME PowersAssumption ==
  \A n \in 0 .. Mantissa + 2 * WordBits :
    2^n \in Nat \ {0} /\ 2^(n + 1) = 2 * 2^n

PowerOfTwo(n) == \E k \in 0 .. WordBits : 2^k = n
Log2(n) == CHOOSE k \in 0 .. WordBits : 2^k = n

(* How many bits a choice below ceil asks for.                             *)
ChoiceBits(ceil) ==
  IF ceil < 2 THEN 0
  ELSE IF PowerOfTwo(ceil) THEN Log2(ceil)
  ELSE IF ceil < SmallCeil THEN SmallBits
  ELSE IF ceil < MediumCeil THEN MediumBits
  ELSE WordBits

(* The double nearest to n, even when there are two.                       *)
Rounded(n) ==
  IF n < 2^Mantissa THEN n
  ELSE LET e == CHOOSE k \in 1 .. 2 * WordBits : 2^(Mantissa + k - 1) <= n /\ n < 2^(Mantissa + k)
           low == n \div 2^e
           twice == 2 * (n % 2^e)
       IN  IF twice < 2^e \/ (twice = 2^e /\ low % 2 = 0)
           THEN low * 2^e ELSE (low + 1) * 2^e

(* A bug: the nearest integer.                                             *)
ChoiceNearest(ceil, bits) ==
  IF ceil < 2 THEN 0
  ELSE IF PowerOfTwo(ceil) THEN bits
  ELSE (2 * Rounded(Rounded(bits) * Rounded(ceil)) + 2^ChoiceBits(ceil))
         \div 2^(ChoiceBits(ceil) + 1)

(***************************************************************************)
(* The choice made of the bits: as doubles, bits / limit * ceil, cut to an *)
(* integer.  The limits are 2^16, 2^32 and, rounded, 2^64, so that the     *)
(* division is exact and may be done last.                                 *)
(***************************************************************************)
Choice(ceil, bits) ==
  IF ceil < 2 THEN 0
  ELSE IF PowerOfTwo(ceil) THEN bits
  ELSE Rounded(Rounded(bits) * Rounded(ceil)) \div 2^ChoiceBits(ceil)

-----------------------------------------------------------------------------
(* Properties.                                                             *)

(* The position in the stream of bit j of the last request.                *)
Position(j) == IF j < start.left THEN start.from + j
               ELSE start.next + (j - start.left)

(* The variables of the generator, the PRNG's buffer and a request.        *)
RandomTypeOK ==
  /\ seed \in Seeds /\ drawn \in Nat /\ word \in Nat
  /\ buf \in [0 .. WordBits - 1 -> {0, 1}]
  /\ bits_available \in 0 .. WordBits - 1
  /\ bit_pool.base \in Nat /\ bit_pool.filled \in Nat /\ bit_pool.consumed \in Nat
  /\ at \in {"idle", "take", "fill", "copy"}
  /\ want \in Nat /\ rem \in 0 .. want
  /\ shift \in 0 .. WordBits - 1 /\ offset \in 0 .. WordsFor(want)
  /\ \A j \in DOMAIN out : out[j] \in {0, 1}

(***************************************************************************)
(* A request that is served has got the next bits of the seed's stream, in *)
(* order and each once, wherever words of the generator, of the buffers    *)
(* and of the pool begin and end.  inc/theft.h:50 promises this of any     *)
(* buffer; the exception is a bit that the owner of the buffer of a bulk   *)
(* request left set.  Only fill_buf clears it (then before is 0); without  *)
(* a pool theft_random_bits_bulk ors the stream's bits to it.              *)
(***************************************************************************)
BitsAreStream ==
  at = "idle" =>
    \A j \in 0 .. want - 1 :
      before[j] = 0 => out[j] = Bit(start.seed, Position(j))
=============================================================================
