---------------------------- MODULE RandomProofs ----------------------------
(***************************************************************************)
(* Requests get the bits of the seed's stream, in order and each once, for *)
(* every width of a word: the invariant of Random, and one lemma for each  *)
(* of its actions.  Then powers of two, rounding to doubles, and what a    *)
(* choice is below.  EntryProofs cites them.                               *)
(***************************************************************************)
EXTENDS Random, Numbers

Pools == [used : BOOLEAN, base : Nat, filled : Nat, consumed : Nat,
          bits : UNION {[0 .. n - 1 -> {0, 1}] : n \in Nat}]

(* How many bits of the request are in the caller's buffer.                *)
Done == want - rem

NumberTypes ==
  /\ seed \in Seeds /\ drawn \in Nat /\ word \in Nat
  /\ bits_available \in 0 .. WordBits - 1
  /\ at \in {"idle", "take", "fill", "copy"}
  /\ want \in Nat /\ rem \in 0 .. want
  /\ shift \in 0 .. WordBits - 1 /\ offset \in Nat
  /\ start \in [seed : Seeds, from : Int, left : Nat, next : Nat]

(* The PRNG's buffer holds the last bits of the word it says.              *)
BufferFollows ==
  /\ buf \in [0 .. WordBits - 1 -> {0, 1}]
  /\ \A j \in 0 .. bits_available - 1 :
       buf[j] = Bit(seed, (word + 1) * WordBits - bits_available + j)

(* The pool holds the words drawn since it was injected.                   *)
PoolFollows ==
  /\ bit_pool \in Pools
  /\ Pooled =>
       /\ bit_pool.bits \in [0 .. bit_pool.filled - 1 -> {0, 1}]
       /\ \A j \in 0 .. bit_pool.filled - 1 :
            bit_pool.bits[j] = Bit(seed, bit_pool.base * WordBits + j)
       /\ bit_pool.base * WordBits + bit_pool.filled = drawn * WordBits

(* The caller's buffer, which has room for the request.                    *)
Buffers ==
  /\ DOMAIN before \subseteq Nat
  /\ before \in [DOMAIN before -> {0, 1}]
  /\ out \in [DOMAIN before -> {0, 1}]
  /\ 0 .. want - 1 \subseteq DOMAIN before

(* Where the request is.                                                   *)
RequestPoint ==
  /\ at = "idle" <=> rem = 0
  /\ offset * WordBits + shift <= want
  /\ at # "idle" => start.seed = seed

(* The next bit taken from the PRNG's buffer, or from its next word.       *)
Taking ==
  at = "take" =>
    /\ ~ Pooled
    /\ offset * WordBits + shift = Done
    /\ Done < start.left =>
         /\ bits_available = start.left - Done
         /\ (word + 1) * WordBits - bits_available = start.from + Done
         /\ start.next = drawn * WordBits
    /\ Done >= start.left =>
         /\ drawn * WordBits - bits_available = start.next + (Done - start.left)
         /\ bits_available > 0 => word + 1 = drawn
    /\ \A j \in DOMAIN out : j >= Done => out[j] = before[j]

(* The next bit copied from the pool, into a word that is cleared.         *)
Copying ==
  at \in {"fill", "copy"} =>
    /\ Pooled
    /\ start.left = want
    /\ start.from = bit_pool.base * WordBits + bit_pool.consumed
    /\ at = "fill" => rem = want
    /\ at = "copy" => bit_pool.consumed + want <= bit_pool.filled
    /\ \A j \in DOMAIN before : before[j] = 0
    /\ \A j \in DOMAIN out :
         Done <= j /\ j < Done + (WordBits - (Done % WordBits)) => out[j] = 0

(* What is copied is of the stream.                                        *)
Served ==
  \A j \in 0 .. Done - 1 :
    out[j] = Or(before[j], Bit(start.seed, Position(j)))

StreamInv ==
  /\ NumberTypes /\ BufferFollows /\ PoolFollows
  /\ Buffers /\ RequestPoint /\ Taking /\ Copying /\ Served

-----------------------------------------------------------------------------
(* Numbers.                                                                *)

LEMMA Width == WordBits \in Nat /\ WordBits > 0
  BY RandomAssumption

LEMMA BitIsBit == \A s, n : Bit(s, n) \in {0, 1}
  BY DEF Bit

LEMMA OrBits ==
  \A b \in {0, 1} : Or(0, b) = b /\ \A a \in {0, 1} : Or(a, b) \in {0, 1}
  BY DEF Or

LEMMA DivMod ==
  ASSUME NEW n \in Nat, NEW u \in Nat, u > 0
  PROVE  /\ n \div u \in Nat /\ n % u \in 0 .. u - 1
         /\ n = (n \div u) * u + (n % u)
OBVIOUS

LEMMA Division ==
  ASSUME NEW i \in Nat
  PROVE  /\ i \div WordBits \in Nat /\ i % WordBits \in 0 .. WordBits - 1
         /\ i = (i \div WordBits) * WordBits + (i % WordBits)
  BY Width, DivMod

(* A step that ends in the word it began in, or at its end.                *)
LEMMA WithinWord ==
  ASSUME NEW s \in Nat, s <= WordBits
  PROVE  /\ s < WordBits => s % WordBits = s /\ s \div WordBits = 0
         /\ s = WordBits => s % WordBits = 0 /\ s \div WordBits = 1
  BY Width, SMT

LEMMA StepInWord ==
  ASSUME NEW i \in Nat, NEW n \in Nat, n <= WordBits - (i % WordBits)
  PROVE  /\ n < WordBits - (i % WordBits) =>
              (i + n) % WordBits = (i % WordBits) + n
         /\ n = WordBits - (i % WordBits) => (i + n) % WordBits = 0
<1> DEFINE q == i \div WordBits
           r == i % WordBits
<1>1. q \in Nat /\ r \in 0 .. WordBits - 1 /\ i = q * WordBits + r
  BY Division
<1>2. ASSUME n < WordBits - r PROVE (i + n) % WordBits = r + n
  <2> HIDE DEF q, r
  <2>1. i + n = q * WordBits + (r + n) /\ r + n \in 0 .. WordBits - 1
    BY <1>1, <1>2, Width
  <2> QED
    BY <1>1, <2>1, Width, SMT
<1>3. ASSUME n = WordBits - r PROVE (i + n) % WordBits = 0
  <2> HIDE DEF q, r
  <2>1. i + n = (q + 1) * WordBits
    BY <1>1, <1>3, Width
  <2> QED
    BY <1>1, <2>1, Width, SMT
<1> QED
  BY <1>2, <1>3

LEMMA Leasts ==
  \A m, n \in Int : /\ Least(m, n) \in {m, n}
                    /\ Least(m, n) <= m /\ Least(m, n) <= n
  BY DEF Least

-----------------------------------------------------------------------------
(* The actions.                                                            *)

LEMMA StreamBegins ==
  ASSUME NEW s \in Seeds, RandomInit(s)
  PROVE  StreamInv
<1>1. NumberTypes /\ BufferFollows
  BY Width DEF RandomInit, NoRequest, NumberTypes, BufferFollows, ZeroWord
<1>2. PoolFollows
  <2>1. [j \in {} |-> 0] \in [0 .. 0 - 1 -> {0, 1}]
    OBVIOUS
  <2> QED
    BY <2>1 DEF RandomInit, PoolFollows, Pools, NoPool, Pooled
<1>3. Buffers /\ RequestPoint /\ Taking /\ Copying /\ Served
  BY Width DEF RandomInit, NoRequest, Buffers, RequestPoint, Taking, Copying, Served,
               Done, ZeroWord
<1> QED
  BY <1>1, <1>2, <1>3 DEF StreamInv

LEMMA RequestIsOver ==
  ASSUME StreamInv, at = "idle", at' = "idle", UNCHANGED requestVars
  PROVE  Buffers' /\ RequestPoint' /\ Taking' /\ Copying' /\ Served'
BY DEF StreamInv, requestVars, Buffers, RequestPoint, Taking, Copying, Served, Done,
       Position

LEMMA SetSeedKeeps ==
  ASSUME StreamInv, NEW s \in Seeds, SetSeed(s)
  PROVE  StreamInv'
<1>1. NumberTypes' /\ BufferFollows'
  BY Width DEF StreamInv, SetSeed, requestVars, NumberTypes, BufferFollows, ZeroWord
<1>2. PoolFollows'
  <2>1. [j \in {} |-> 0] \in [0 .. 0 - 1 -> {0, 1}]
    OBVIOUS
  <2> QED
    BY <2>1 DEF SetSeed, PoolFollows, Pools, NoPool, Pooled
<1>3. at = "idle" /\ at' = "idle" /\ UNCHANGED requestVars
  BY DEF SetSeed, requestVars
<1> QED
  BY <1>1, <1>2, <1>3, RequestIsOver DEF StreamInv

LEMMA PoolKeeps ==
  ASSUME StreamInv, InjectPool \/ StopUsingPool
  PROVE  StreamInv'
<1>1. at = "idle" /\ at' = "idle" /\ UNCHANGED <<prngVars, requestVars>>
  BY DEF InjectPool, StopUsingPool, requestVars
<1>2. NumberTypes' /\ BufferFollows'
  BY <1>1 DEF StreamInv, prngVars, requestVars, NumberTypes, BufferFollows
<1>3. PoolFollows'
  <2>1. [j \in {} |-> 0] \in [0 .. 0 - 1 -> {0, 1}]
    OBVIOUS
  <2>2. CASE StopUsingPool
    BY <2>1, <2>2 DEF StopUsingPool, PoolFollows, Pools, NoPool, Pooled
  <2>3. CASE InjectPool
    <3>1. bit_pool' = [used |-> TRUE, base |-> drawn, filled |-> 0, consumed |-> 0,
                       bits |-> [j \in {} |-> 0]]
      BY <2>3 DEF InjectPool, EmptyPool, NoPool
    <3>2. drawn \in Nat /\ drawn' = drawn
      BY <1>1 DEF StreamInv, NumberTypes, prngVars
    <3> QED
      BY <2>1, <3>1, <3>2, Width DEF PoolFollows, Pools, Pooled
  <2> QED
    BY <2>2, <2>3
<1> QED
  BY <1>1, <1>2, <1>3, RequestIsOver DEF StreamInv

LEMMA AskKeeps ==
  ASSUME StreamInv, NEW n \in Nat, NEW m \in Nat, n <= m,
         NEW b \in [0 .. m - 1 -> {0, 1}], Ask(n, b)
  PROVE  StreamInv'
<1> USE Width
<1>1. BufferFollows' /\ PoolFollows'
  BY DEF StreamInv, Ask, prngVars, BufferFollows, PoolFollows, Pooled
<1>2. start' \in [seed : Seeds, from : Int, left : Nat, next : Nat]
  <2>1. CASE Pooled
    <3>1. bit_pool.base \in Nat /\ bit_pool.consumed \in Nat /\ seed \in Seeds
      BY DEF StreamInv, NumberTypes, PoolFollows, Pools
    <3>2. bit_pool.base * WordBits + bit_pool.consumed \in Int
      BY <3>1
    <3>3. start' = [seed |-> seed, left |-> n, next |-> 0,
                    from |-> bit_pool.base * WordBits + bit_pool.consumed]
      BY <2>1 DEF Ask, NextBits
    <3> QED
      BY <3>1, <3>2, <3>3
  <2>2. CASE ~ Pooled
    <3>1. /\ bits_available \in Nat /\ drawn * WordBits \in Nat /\ seed \in Seeds
          /\ (word + 1) * WordBits - bits_available \in Int
      BY DEF StreamInv, NumberTypes
    <3>2. start' = [seed |-> seed, left |-> bits_available, next |-> drawn * WordBits,
                    from |-> (word + 1) * WordBits - bits_available]
      BY <2>2 DEF Ask, NextBits
    <3> QED
      BY <3>1, <3>2
  <2> QED
    BY <2>1, <2>2
<1>3. NumberTypes'
  BY <1>2 DEF StreamInv, Ask, prngVars, NumberTypes
<1>4. Buffers'
  BY DEF StreamInv, Ask, Buffers
<1>5. want' = n /\ rem' = n /\ Done' = 0
  BY DEF Ask, Done
<1>6. RequestPoint' /\ Served'
  BY <1>5 DEF StreamInv, Ask, NextBits, prngVars, RequestPoint, Served
<1>7. Taking'
  <2> SUFFICES ASSUME at' = "take" PROVE Taking'
    BY DEF Taking
  <2>1. ~ Pooled /\ bit_pool' = bit_pool /\ UNCHANGED prngVars /\ n > 0
    BY DEF Ask
  <2>2. /\ start'.left = bits_available /\ start'.next = drawn * WordBits
        /\ start'.from = (word + 1) * WordBits - bits_available
    BY <2>1 DEF Ask, NextBits
  <2>3. out' = b /\ before' = b /\ shift' = 0 /\ offset' = 0
    BY <2>1 DEF Ask
  <2>4. /\ bits_available \in Nat /\ word \in Nat /\ drawn \in Nat
        /\ (word + 1) * WordBits \in Nat /\ drawn * WordBits \in Nat
    BY DEF StreamInv, NumberTypes
  <2>5. bits_available' = bits_available /\ word' = word /\ drawn' = drawn
    BY <2>1 DEF prngVars
  <2>6. Done' = 0 /\ offset' * WordBits + shift' = 0
    BY <1>5, <2>3
  <2>7. 0 < start'.left \/ start'.left = 0
    BY <2>2, <2>4
  <2> QED
    BY <2>1, <2>2, <2>3, <2>4, <2>5, <2>6, <2>7 DEF Taking, Pooled
<1>8. Copying'
  <2>1. CASE n = 0 \/ ~ Pooled
    BY <2>1 DEF Ask, Copying
  <2>2. CASE n > 0 /\ Pooled
    <3>1. at' = "fill" /\ bit_pool' = bit_pool
      BY <2>2 DEF Ask
    <3>2. start'.left = want' /\ start'.from = bit_pool.base * WordBits + bit_pool.consumed
      BY <2>2 DEF Ask, NextBits
    <3>3. 0 % WordBits = 0
      BY WithinWord
    <3>4. \A j \in DOMAIN out' : j < WordBits => out'[j] = 0
      BY <2>2 DEF Ask
    <3>5. \A j \in DOMAIN before' : before'[j] = 0
      BY <2>2 DEF Ask
    <3> QED
      BY <1>5, <2>2, <3>1, <3>2, <3>3, <3>4, <3>5 DEF Copying, Pooled
  <2> QED
    BY <2>1, <2>2
<1> QED
  BY <1>1, <1>3, <1>4, <1>6, <1>7, <1>8 DEF StreamInv

LEMMA FunctionOfBits ==
  ASSUME NEW n \in Nat, NEW w \in [0 .. n - 1 -> {0, 1}]
  PROVE  w \in UNION {[0 .. m - 1 -> {0, 1}] : m \in Nat}
OBVIOUS

LEMMA FillKeeps ==
  ASSUME StreamInv, FillPool
  PROVE  StreamInv'
<1> USE Width
<1>1. /\ at = "fill" /\ Pooled /\ at' \in {"fill", "copy"}
      /\ UNCHANGED <<seed, buf, bits_available, word, want, rem, shift, offset,
                     out, start, before>>
  BY DEF FillPool, StreamInv, Copying
<1>2. /\ bit_pool.base \in Nat /\ bit_pool.filled \in Nat /\ bit_pool.consumed \in Nat
      /\ drawn \in Nat /\ want \in Nat
  BY DEF StreamInv, NumberTypes, PoolFollows, Pools
<1>3. CASE bit_pool.consumed + want <= bit_pool.filled
  <2>1. UNCHANGED <<bit_pool, drawn>> /\ at' = "copy"
    BY <1>2, <1>3 DEF FillPool
  <2>2. NumberTypes' /\ BufferFollows' /\ PoolFollows'
    BY <1>1, <2>1 DEF StreamInv, NumberTypes, BufferFollows, PoolFollows, Pooled
  <2>3. Buffers' /\ RequestPoint' /\ Taking' /\ Served'
    BY <1>1, <2>1 DEF StreamInv, Buffers, RequestPoint, Taking, Served, Done, Position
  <2>4. Copying'
    BY <1>1, <1>2, <1>3, <2>1 DEF StreamInv, Copying, Done, Pooled
  <2> QED
    BY <2>2, <2>3, <2>4 DEF StreamInv
<1>4. CASE ~ (bit_pool.consumed + want <= bit_pool.filled)
  <2> DEFINE f == bit_pool.filled
             filled == [j \in 0 .. f + WordBits - 1 |->
                          IF j < f THEN bit_pool.bits[j] ELSE Word(seed, drawn)[j - f]]
  <2>1. /\ bit_pool' = [bit_pool EXCEPT !.filled = f + WordBits, !.bits = filled]
        /\ drawn' = drawn + 1 /\ at' = at
    BY <1>2, <1>4 DEF FillPool
  <2>2. bit_pool \in Pools
    BY DEF StreamInv, PoolFollows
  <2>3. /\ bit_pool'.used = bit_pool.used /\ bit_pool'.base = bit_pool.base
        /\ bit_pool'.consumed = bit_pool.consumed
        /\ bit_pool'.filled = f + WordBits /\ bit_pool'.bits = filled
    BY <2>1, <2>2 DEF Pools
  <2>4. /\ bit_pool.bits \in [0 .. f - 1 -> {0, 1}]
        /\ \A j \in 0 .. f - 1 : bit_pool.bits[j] = Bit(seed, bit_pool.base * WordBits + j)
        /\ bit_pool.base * WordBits + f = drawn * WordBits
    BY <1>1 DEF StreamInv, PoolFollows
  <2>5. \A j \in f .. f + WordBits - 1 :
          Word(seed, drawn)[j - f] = Bit(seed, bit_pool.base * WordBits + j)
    <3> SUFFICES ASSUME NEW j \in f .. f + WordBits - 1
                 PROVE  Word(seed, drawn)[j - f] = Bit(seed, bit_pool.base * WordBits + j)
      OBVIOUS
    <3>1. j - f \in 0 .. WordBits - 1
      BY <1>2
    <3>2. Word(seed, drawn)[j - f] = Bit(seed, drawn * WordBits + (j - f))
      BY <3>1 DEF Word
    <3>3. drawn * WordBits + (j - f) = bit_pool.base * WordBits + j
      BY <1>2, <2>4
    <3> QED
      BY <3>2, <3>3
  <2>6. \A j \in 0 .. f + WordBits - 1 : filled[j] = Bit(seed, bit_pool.base * WordBits + j)
    <3> SUFFICES ASSUME NEW j \in 0 .. f + WordBits - 1
                 PROVE  filled[j] = Bit(seed, bit_pool.base * WordBits + j)
      OBVIOUS
    <3>1. j < f \/ j \in f .. f + WordBits - 1
      BY <1>2
    <3>2. j < f => j \in 0 .. f - 1
      BY <1>2
    <3>3. filled[j] = IF j < f THEN bit_pool.bits[j] ELSE Word(seed, drawn)[j - f]
      OBVIOUS
    <3>4. j \in f .. f + WordBits - 1 => ~ (j < f)
      BY <1>2
    <3> HIDE DEF filled, f
    <3> QED
      BY <2>4, <2>5, <3>1, <3>2, <3>3, <3>4
  <2>7. filled \in [0 .. f + WordBits - 1 -> {0, 1}]
    <3>1. \A j \in 0 .. f + WordBits - 1 : filled[j] \in {0, 1}
      BY <2>6, BitIsBit
    <3> QED
      BY <3>1
  <2>8. f + WordBits \in Nat /\ (drawn + 1) * WordBits = drawn * WordBits + WordBits
    BY <1>2
  <2> HIDE DEF filled
  <2>9. PoolFollows'
    <3>1. bit_pool' \in Pools
      <4>1. filled \in UNION {[0 .. n - 1 -> {0, 1}] : n \in Nat}
        <5>1. f + WordBits - 1 = (f + WordBits) - 1
          BY <1>2
        <5>2. filled \in [0 .. (f + WordBits) - 1 -> {0, 1}]
          BY <2>7, <5>1, Zenon
        <5> QED
          BY <2>8, <5>2, FunctionOfBits
      <4> HIDE DEF f
      <4> QED
        BY <2>1, <2>2, <2>8, <4>1 DEF Pools
    <3>2. seed' = seed /\ bit_pool'.base * WordBits + bit_pool'.filled = drawn' * WordBits
      BY <1>1, <1>2, <2>1, <2>3, <2>4, <2>8
    <3>3. bit_pool'.bits \in [0 .. bit_pool'.filled - 1 -> {0, 1}]
      BY <1>2, <2>3, <2>7
    <3>4. \A j \in 0 .. bit_pool'.filled - 1 :
            bit_pool'.bits[j] = Bit(seed', bit_pool'.base * WordBits + j)
      BY <1>2, <2>3, <2>6, <3>2
    <3> QED
      BY <3>1, <3>2, <3>3, <3>4 DEF PoolFollows
  <2>10. NumberTypes' /\ BufferFollows'
    BY <1>1, <2>1 DEF StreamInv, NumberTypes, BufferFollows
  <2>11. Buffers' /\ RequestPoint' /\ Taking' /\ Served'
    BY <1>1, <2>1 DEF StreamInv, Buffers, RequestPoint, Taking, Served, Done, Position
  <2>12. Copying'
    BY <1>1, <2>1, <2>3 DEF StreamInv, Copying, Done, Pooled
  <2> QED
    BY <2>9, <2>10, <2>11, <2>12 DEF StreamInv
<1> QED
  BY <1>3, <1>4

LEMMA CopyKeeps ==
  ASSUME StreamInv, Copy
  PROVE  StreamInv'
<1> USE Width
<1> DEFINE i == want - rem
           src == bit_pool.consumed + i
           n == Least(Least(rem, WordBits - (i % WordBits)), WordBits - (src % WordBits))
           begun == (i + n) % WordBits = 0 /\ n < rem
<1>1. /\ at = "copy" /\ Pooled
      /\ UNCHANGED <<prngVars, want, shift, offset, start, before>>
      /\ rem' = rem - n /\ at' = IF rem = n THEN "idle" ELSE at
      /\ bit_pool' = IF n = rem THEN [bit_pool EXCEPT !.consumed = @ + want] ELSE bit_pool
      /\ out' = [j \in DOMAIN out |->
                   CASE j \in i .. i + n - 1 ->
                          Or(out[j], bit_pool.bits[bit_pool.consumed + j])
                     [] begun /\ j \in i + n .. i + n + WordBits - 1 -> 0
                     [] OTHER -> out[j]]
  BY DEF Copy, Copied, StreamInv, Copying
<1>2. /\ bit_pool.base \in Nat /\ bit_pool.filled \in Nat /\ bit_pool.consumed \in Nat
      /\ bit_pool \in Pools /\ drawn \in Nat /\ want \in Nat /\ rem \in 1 .. want
  <2>1. drawn \in Nat /\ want \in Nat /\ rem \in 0 .. want /\ rem # 0
    BY <1>1 DEF StreamInv, NumberTypes, RequestPoint
  <2>2. bit_pool \in Pools
    BY DEF StreamInv, PoolFollows
  <2> QED
    BY <2>1, <2>2 DEF Pools
<1>3. i \in Nat /\ i = Done /\ src \in Nat
  BY <1>2 DEF Done
<1>4. i % WordBits \in 0 .. WordBits - 1 /\ src % WordBits \in 0 .. WordBits - 1
  BY <1>3, Division
<1>5. n \in 1 .. rem /\ n <= WordBits - (i % WordBits)
  <2> HIDE DEF i, src
  <2>1. Least(rem, WordBits - (i % WordBits)) \in 1 .. rem
    BY <1>2, <1>4 DEF Least
  <2>2. Least(rem, WordBits - (i % WordBits)) <= WordBits - (i % WordBits)
    BY <1>2, <1>4 DEF Least
  <2> QED
    BY <1>2, <1>4, <2>1, <2>2 DEF Least
<1>6. DOMAIN out = DOMAIN before /\ DOMAIN before \subseteq Nat
  BY DEF StreamInv, Buffers
<1> HIDE DEF n, src, begun
<1>7. i + n \in Nat /\ i + n <= want /\ Done' = i + n
  <2>1. rem' = rem - n /\ want' = want /\ n \in Nat
    BY <1>1, <1>2, <1>5
  <2> HIDE DEF n
  <2> QED
    BY <1>2, <1>5, <2>1 DEF Done
<1> DEFINE copied(j) == CASE j \in i .. i + n - 1 ->
                               Or(out[j], bit_pool.bits[bit_pool.consumed + j])
                          [] begun /\ j \in i + n .. i + n + WordBits - 1 -> 0
                          [] OTHER -> out[j]
<1>c. out' = [j \in DOMAIN out |-> copied(j)]
  BY <1>1
<1>n. /\ n < WordBits - (i % WordBits) => (i + n) % WordBits = (i % WordBits) + n
      /\ n = WordBits - (i % WordBits) => (i + n) % WordBits = 0
  <2>1. n \in Nat
    BY <1>2, <1>5
  <2> HIDE DEF i
  <2> QED
    BY <1>3, <1>5, <2>1, StepInWord
<1>8. \A j \in i .. i + n - 1 :
        /\ j \in DOMAIN out
        /\ out'[j] = Or(before[j], Bit(start.seed, Position(j)))
        /\ out'[j] \in {0, 1}
  <2> SUFFICES ASSUME NEW j \in i .. i + n - 1
               PROVE  /\ j \in DOMAIN out
                      /\ out'[j] = Or(before[j], Bit(start.seed, Position(j)))
                      /\ out'[j] \in {0, 1}
    OBVIOUS
  <2>1. j \in Nat /\ j < want /\ i <= j /\ j < i + (WordBits - (i % WordBits))
    BY <1>2, <1>3, <1>4, <1>5, <1>7
  <2>2. j \in DOMAIN out
    BY <1>2, <1>6, <2>1 DEF StreamInv, Buffers
  <2>3. out[j] = 0 /\ before[j] = 0
    BY <1>1, <1>3, <1>6, <2>1, <2>2 DEF StreamInv, Copying
  <2>4. out'[j] = Or(0, bit_pool.bits[bit_pool.consumed + j])
    <3>1. out'[j] = copied(j)
      BY <1>c, <2>2
    <3>2. copied(j) = Or(out[j], bit_pool.bits[bit_pool.consumed + j])
      <4> HIDE DEF i
      <4> QED
        BY <1>3, <1>5, <1>7
    <3> QED
      BY <2>3, <3>1, <3>2
  <2>5. bit_pool.consumed + j \in 0 .. bit_pool.filled - 1
    BY <1>1, <1>2, <2>1 DEF StreamInv, Copying
  <2>6. bit_pool.bits[bit_pool.consumed + j]
          = Bit(seed, bit_pool.base * WordBits + (bit_pool.consumed + j))
    BY <1>1, <2>5 DEF StreamInv, PoolFollows
  <2>7. Position(j) = start.from + j
    BY <1>1, <2>1 DEF Position, StreamInv, Copying
  <2>8. bit_pool.base * WordBits + (bit_pool.consumed + j) = Position(j)
    <3>1. start.from = bit_pool.base * WordBits + bit_pool.consumed
      BY <1>1 DEF StreamInv, Copying
    <3> QED
      BY <1>2, <2>1, <2>7, <3>1
  <2>9. start.seed = seed
    BY <1>1 DEF StreamInv, RequestPoint
  <2> QED
    BY <2>2, <2>3, <2>4, <2>6, <2>8, <2>9, BitIsBit, OrBits
<1>9. \A j \in DOMAIN out : j < i => out'[j] = out[j]
  BY <1>1, <1>3, <1>5, <1>6 DEF begun
<1>10. \A j \in DOMAIN out : j >= i + n => out'[j] \in {0, out[j]}
  BY <1>1, <1>3, <1>5, <1>6
<1>11. DOMAIN out' = DOMAIN out /\ \A j \in DOMAIN out : out'[j] \in {0, 1}
  <2>1. \A j \in DOMAIN out : out[j] \in {0, 1}
    BY <1>6 DEF StreamInv, Buffers
  <2>2. \A j \in DOMAIN out : j < i \/ j \in i .. i + n - 1 \/ j >= i + n
    BY <1>3, <1>5, <1>6
  <2> QED
    BY <1>1, <1>8, <1>9, <1>10, <2>1, <2>2
<1>12. NumberTypes' /\ BufferFollows'
  <2>1. rem' = rem - n /\ at' \in {"idle", "copy"} /\ rem' \in 0 .. want
    BY <1>1, <1>2, <1>5
  <2>2. UNCHANGED <<seed, drawn, buf, bits_available, word, want, shift, offset, start>>
    BY <1>1 DEF prngVars
  <2> QED
    BY <2>1, <2>2 DEF StreamInv, NumberTypes, BufferFollows
<1>13. PoolFollows'
  <2>1. /\ bit_pool' \in Pools /\ bit_pool'.used = bit_pool.used
        /\ bit_pool'.base = bit_pool.base /\ bit_pool'.filled = bit_pool.filled
        /\ bit_pool'.bits = bit_pool.bits
    BY <1>1, <1>2 DEF Pools
  <2>2. seed' = seed /\ drawn' = drawn
    BY <1>1 DEF prngVars
  <2> QED
    BY <2>1, <2>2 DEF StreamInv, PoolFollows, Pooled
<1>14. Buffers'
  <2>1. before' = before /\ want' = want
    BY <1>1
  <2>2. out' \in [DOMAIN before -> {0, 1}]
    BY <1>1, <1>6, <1>11
  <2> QED
    BY <2>1, <2>2 DEF StreamInv, Buffers
<1>15. RequestPoint' /\ Taking'
  BY <1>1, <1>2, <1>5 DEF StreamInv, RequestPoint, Taking, prngVars
<1>16. Served'
  <2> HIDE DEF i, copied
  <2> SUFFICES ASSUME NEW j \in 0 .. i + n - 1
               PROVE  out'[j] = Or(before[j], Bit(start.seed, Position(j)))
    <3>1. before' = before /\ start' = start
      BY <1>1
    <3>2. \A j : Position(j)' = Position(j)
      BY <3>1 DEF Position
    <3>3. Served' <=> \A j \in 0 .. Done' - 1 :
                        out'[j] = Or(before[j], Bit(start.seed, Position(j)))
      BY <3>1, <3>2, Zenon DEF Served
    <3>4. 0 .. Done' - 1 = 0 .. i + n - 1
      BY <1>2, <1>3, <1>5, <1>7
    <3> QED
      BY <3>3, <3>4
  <2>1. CASE j \in 0 .. i - 1
    <3>1. j \in DOMAIN out
      BY <1>2, <1>3, <1>5, <1>6, <1>7, <2>1 DEF StreamInv, Buffers
    <3>2. out[j] = Or(before[j], Bit(start.seed, Position(j)))
      BY <1>3, <2>1 DEF StreamInv, Served
    <3> QED
      BY <1>3, <1>9, <2>1, <3>1, <3>2
  <2>2. CASE j \in i .. i + n - 1
    BY <1>8, <2>2
  <2> QED
    BY <1>3, <1>5, <2>1, <2>2
<1>17. Copying'
  <2> SUFFICES ASSUME n # rem PROVE Copying'
    BY <1>1 DEF Copying
  <2>1. at' = "copy" /\ bit_pool' = bit_pool /\ n < rem
    BY <1>1, <1>2, <1>5
  <2>2. \A j \in DOMAIN out' :
          i + n <= j /\ j < i + n + (WordBits - ((i + n) % WordBits)) => out'[j] = 0
    <3> SUFFICES ASSUME NEW j \in DOMAIN out, i + n <= j,
                        j < i + n + (WordBits - ((i + n) % WordBits))
                 PROVE  out'[j] = 0
      BY <1>11
    <3>1. j \in Nat
      BY <1>6
    <3>2. CASE n = WordBits - (i % WordBits)
      <4>1. (i + n) % WordBits = 0
        BY <1>n, <3>2
      <4>2. begun /\ j \in i + n .. i + n + WordBits - 1
        BY <1>3, <1>5, <2>1, <3>1, <4>1 DEF begun
      <4>3. ~ (j \in i .. i + n - 1)
        BY <1>3, <1>5, <3>1
      <4> QED
        BY <1>1, <4>2, <4>3
    <3>3. CASE n < WordBits - (i % WordBits)
      <4>1. (i + n) % WordBits = (i % WordBits) + n
        BY <1>n, <3>3
      <4>2. i <= j /\ j < i + (WordBits - (i % WordBits))
        BY <1>3, <1>4, <1>5, <3>1, <4>1
      <4>3. out[j] = 0
        BY <1>1, <1>3, <4>2 DEF StreamInv, Copying
      <4> QED
        BY <1>10, <1>3, <1>5, <3>1, <4>3
    <3> QED
      BY <1>4, <1>5, <3>2, <3>3
  <2> QED
    BY <1>1, <1>7, <2>1, <2>2 DEF StreamInv, Copying, Pooled
<1> QED
  BY <1>12, <1>13, <1>14, <1>15, <1>16, <1>17 DEF StreamInv

LEMMA TakeKeeps ==
  ASSUME StreamInv, Take
  PROVE  StreamInv'
<1> USE Width
<1> DEFINE empty == bits_available = 0
           source == IF empty THEN Word(seed, drawn) ELSE buf
           available == IF empty THEN WordBits ELSE bits_available
           take == TakeSize(available)
           first == offset * WordBits + shift
           number == IF empty THEN drawn ELSE word
           draws == IF empty THEN drawn + 1 ELSE drawn
           left == start.left
           taken(j) == IF j \in first .. first + take - 1
                       THEN Or(out[j], source[j - first]) ELSE out[j]
<1>1. /\ at = "take" /\ ~ Pooled
      /\ drawn' = draws /\ word' = number
      /\ buf' = ShiftRight(source, take)
      /\ bits_available' = available - take
      /\ out' = [j \in DOMAIN out |-> taken(j)]
      /\ shift' = (shift + take) % WordBits
      /\ offset' = offset + ((shift + take) \div WordBits)
      /\ rem' = rem - take /\ at' = IF rem = take THEN "idle" ELSE at
      /\ UNCHANGED <<seed, bit_pool, want, start, before>>
  BY DEF Take, Copied, StreamInv, Taking
<1>2. /\ drawn \in Nat /\ word \in Nat /\ bits_available \in 0 .. WordBits - 1
      /\ want \in Nat /\ rem \in 1 .. want /\ shift \in 0 .. WordBits - 1
      /\ offset \in Nat /\ left \in Nat /\ start.next \in Nat /\ start.from \in Int
      /\ seed \in Seeds
  <2>1. rem # 0
    BY <1>1 DEF StreamInv, RequestPoint
  <2> QED
    BY <2>1 DEF StreamInv, NumberTypes
<1>3. /\ available \in 1 .. WordBits
      /\ draws \in Nat /\ number \in Nat
      /\ bits_available = 0 => available = WordBits /\ draws = drawn + 1 /\ number = drawn
      /\ bits_available > 0 =>
           available = bits_available /\ draws = drawn /\ number = word
  BY <1>2
<1>4. first = Done /\ Done = want - rem /\ Done \in Nat /\ start.seed = seed
  BY <1>1, <1>2 DEF StreamInv, Taking, RequestPoint, Done
<1>5. \A k \in 0 .. available - 1 :
        /\ source[k] = Bit(seed, (number + 1) * WordBits - available + k)
        /\ source[k] \in {0, 1}
  <2>1. CASE empty
    <3>1. \A k \in 0 .. WordBits - 1 : source[k] = Bit(seed, drawn * WordBits + k)
      BY <2>1 DEF Word
    <3>2. \A k \in Nat : (drawn + 1) * WordBits - WordBits + k = drawn * WordBits + k
      BY <1>2
    <3>3. available = WordBits /\ number = drawn
      BY <2>1
    <3> QED
      BY <3>1, <3>2, <3>3, BitIsBit
  <2>2. CASE ~ empty
    <3>1. source = buf /\ available = bits_available /\ number = word
      BY <2>2
    <3>2. \A k \in 0 .. bits_available - 1 :
            buf[k] = Bit(seed, (word + 1) * WordBits - bits_available + k)
      BY DEF StreamInv, BufferFollows
    <3> HIDE DEF source, available, number
    <3> QED
      BY <3>1, <3>2, BitIsBit
  <2> QED
    BY <2>1, <2>2
<1>6. /\ Done < left =>
           /\ available = left - Done
           /\ (number + 1) * WordBits - available = start.from + Done
           /\ start.next = draws * WordBits
      /\ Done >= left =>
           /\ draws * WordBits - available = start.next + (Done - left)
           /\ number + 1 = draws
  <2>1. CASE Done < left
    <3>1. bits_available = left - Done /\ bits_available > 0
      BY <1>1, <1>2, <1>4, <2>1 DEF StreamInv, Taking
    <3> QED
      BY <1>1, <1>2, <1>3, <1>4, <2>1, <3>1 DEF StreamInv, Taking
  <2>2. CASE Done >= left
    <3>1. /\ drawn * WordBits - bits_available = start.next + (Done - left)
          /\ bits_available > 0 => word + 1 = drawn
      BY <1>1, <2>2 DEF StreamInv, Taking
    <3>2. (drawn + 1) * WordBits = drawn * WordBits + WordBits
      BY <1>2
    <3>3. CASE bits_available = 0
      BY <1>2, <1>3, <1>4, <2>2, <3>1, <3>2, <3>3
    <3>4. CASE bits_available > 0
      BY <1>2, <1>3, <1>4, <2>2, <3>1, <3>4
    <3> QED
      BY <1>2, <3>3, <3>4
  <2> QED
    BY <1>2, <1>4, <2>1, <2>2
<1>7. take \in 1 .. rem /\ take <= available /\ take <= WordBits - shift
  <2> HIDE DEF available
  <2>1. Least(WordBits - shift, rem) \in 1 .. rem
    BY <1>2 DEF Least
  <2>2. Least(WordBits - shift, rem) <= WordBits - shift
    BY <1>2 DEF Least
  <2> QED
    BY <1>2, <1>3, <2>1, <2>2 DEF TakeSize, Least
<1> HIDE DEF take, available, source, number, draws, empty
<1>8. take \in Nat /\ Done' = Done + take /\ Done + take <= want
  <2>1. rem' = rem - take /\ want' = want
    BY <1>1
  <2> QED
    BY <1>2, <1>4, <1>7, <2>1 DEF Done
<1>9. offset' * WordBits + shift' = Done + take /\ shift' \in 0 .. WordBits - 1
      /\ offset' \in Nat
  <2>1. shift + take \in Nat /\ shift + take <= WordBits
    BY <1>2, <1>7, <1>8
  <2>2. CASE shift + take < WordBits
    <3>1. shift' = shift + take /\ offset' = offset + 0
      BY <1>1, <2>1, <2>2, WithinWord
    <3> QED
      BY <1>2, <1>4, <1>8, <2>1, <2>2, <3>1
  <2>3. CASE shift + take = WordBits
    <3>1. shift' = 0 /\ offset' = offset + 1
      BY <1>1, <2>1, <2>3, WithinWord
    <3>2. (offset + 1) * WordBits = offset * WordBits + WordBits
      BY <1>2
    <3> QED
      BY <1>2, <1>4, <1>8, <2>1, <2>3, <3>1, <3>2
  <2> QED
    BY <1>2, <1>8, <2>1, <2>2, <2>3
<1>10. ASSUME NEW j \in Done .. Done + take - 1
       PROVE  Bit(seed, (number + 1) * WordBits - available + (j - Done))
                = Bit(start.seed, Position(j))
  <2>1. (number + 1) * WordBits - available + (j - Done) = Position(j)
    <3>1. CASE Done < left
      <4>1. j < left
        BY <1>2, <1>3, <1>4, <1>6, <1>7, <1>8, <3>1 DEF available
      <4>2. Position(j) = start.from + j
        BY <4>1 DEF Position
      <4> QED
        BY <1>2, <1>3, <1>4, <1>6, <1>8, <3>1, <4>2
    <3>2. CASE Done >= left
      <4>1. ~ (j < left)
        BY <1>2, <1>4, <1>8, <3>2
      <4>2. Position(j) = start.next + (j - left)
        BY <4>1 DEF Position
      <4>3. (number + 1) * WordBits - available = start.next + (Done - left)
        BY <1>6, <3>2
      <4>4. (number + 1) * WordBits \in Int
        BY <1>3
      <4> HIDE DEF left
      <4> QED
        BY <1>2, <1>3, <1>4, <1>8, <4>2, <4>3, <4>4
    <3> QED
      BY <1>2, <1>4, <3>1, <3>2
  <2> QED
    BY <1>4, <2>1
<1>11. DOMAIN out = DOMAIN before /\ DOMAIN before \subseteq Nat
  BY DEF StreamInv, Buffers
<1> HIDE DEF first
<1>12. ASSUME NEW j \in Done .. Done + take - 1
       PROVE  /\ j \in DOMAIN out
              /\ out'[j] = Or(before[j], Bit(start.seed, Position(j)))
              /\ out'[j] \in {0, 1}
  <2>1. j \in Nat /\ j < want /\ Done <= j
    BY <1>2, <1>4, <1>8
  <2>2. j \in DOMAIN out
    BY <1>2, <1>11, <2>1 DEF StreamInv, Buffers
  <2>3. out[j] = before[j] /\ before[j] \in {0, 1}
    BY <1>1, <1>11, <2>1, <2>2 DEF StreamInv, Taking, Buffers
  <2>4. out'[j] = Or(out[j], source[j - first])
    <3>1. j \in first .. first + take - 1
      BY <1>4
    <3>2. out'[j] = taken(j)
      BY <1>1, <2>2
    <3> QED
      BY <3>1, <3>2
  <2>5. j - first \in 0 .. available - 1
    BY <1>3, <1>4, <1>7, <1>8, <2>1
  <2>6. /\ source[j - first] = Bit(seed, (number + 1) * WordBits - available + (j - first))
        /\ source[j - first] \in {0, 1}
    BY <1>5, <2>5
  <2>7. source[j - first] = Bit(start.seed, Position(j))
    BY <1>4, <1>10, <2>6
  <2> QED
    BY <2>2, <2>3, <2>4, <2>6, <2>7, OrBits
<1>13. \A j \in DOMAIN out : j < Done \/ j >= Done + take => out'[j] = out[j]
  <2> SUFFICES ASSUME NEW j \in DOMAIN out, j < Done \/ j >= Done + take
               PROVE  out'[j] = out[j]
    OBVIOUS
  <2>1. ~ (j \in first .. first + take - 1)
    BY <1>4, <1>8, <1>11
  <2>2. out'[j] = taken(j)
    BY <1>1
  <2> QED
    BY <2>1, <2>2
<1>14. DOMAIN out' = DOMAIN out /\ \A j \in DOMAIN out : out'[j] \in {0, 1}
  <2>1. \A j \in DOMAIN out : out[j] \in {0, 1}
    BY <1>11 DEF StreamInv, Buffers
  <2>2. \A j \in DOMAIN out : j < Done \/ j \in Done .. Done + take - 1 \/ j >= Done + take
    BY <1>4, <1>8, <1>11
  <2>3. DOMAIN out' = DOMAIN out
    BY <1>1
  <2> QED
    BY <1>12, <1>13, <2>1, <2>2, <2>3
<1>15. NumberTypes'
  <2>1. rem' \in 0 .. want /\ at' \in {"idle", "take"}
    BY <1>1, <1>2, <1>7
  <2>2. bits_available' \in 0 .. WordBits - 1
    BY <1>1, <1>3, <1>7, <1>8
  <2>3. start' \in [seed : Seeds, from : Int, left : Nat, next : Nat]
    BY <1>1 DEF StreamInv, NumberTypes
  <2> QED
    BY <1>1, <1>2, <1>3, <1>9, <2>1, <2>2, <2>3 DEF NumberTypes
<1>16. BufferFollows'
  <2>1. \A j \in 0 .. WordBits - 1 :
          buf'[j] = IF j + take < WordBits THEN source[j + take] ELSE 0
    BY <1>1 DEF ShiftRight
  <2>2. source \in [0 .. WordBits - 1 -> {0, 1}]
    <3>1. Word(seed, drawn) \in [0 .. WordBits - 1 -> {0, 1}]
      BY BitIsBit DEF Word
    <3> QED
      BY <3>1 DEF source, StreamInv, BufferFollows
  <2>3. buf' \in [0 .. WordBits - 1 -> {0, 1}]
    <3>1. \A j \in 0 .. WordBits - 1 : j + take < WordBits => j + take \in 0 .. WordBits - 1
      BY <1>8
    <3>2. \A j \in 0 .. WordBits - 1 : buf'[j] \in {0, 1}
      BY <2>1, <2>2, <3>1
    <3>3. buf' = [j \in 0 .. WordBits - 1 |-> buf'[j]]
      BY <1>1 DEF ShiftRight
    <3> QED
      BY <3>2, <3>3
  <2>4. ASSUME NEW j \in 0 .. available - take - 1
        PROVE  buf'[j] = Bit(seed, (number + 1) * WordBits - (available - take) + j)
    <3>1. j \in 0 .. WordBits - 1 /\ j + take < WordBits /\ j + take \in 0 .. available - 1
      BY <1>3, <1>7, <1>8
    <3>2. buf'[j] = source[j + take]
      BY <2>1, <3>1
    <3>3. source[j + take] = Bit(seed, (number + 1) * WordBits - available + (j + take))
      BY <1>5, <3>1
    <3>4. (number + 1) * WordBits - available + (j + take)
            = (number + 1) * WordBits - (available - take) + j
      BY <1>3, <1>8, <3>1
    <3> QED
      BY <3>2, <3>3, <3>4
  <2>5. bits_available' = available - take /\ word' = number /\ seed' = seed
    BY <1>1
  <2> QED
    BY <2>3, <2>4, <2>5 DEF BufferFollows
<1>17. PoolFollows'
  BY <1>1 DEF StreamInv, PoolFollows, Pooled
<1>18. Buffers'
  <2>1. before' = before /\ want' = want
    BY <1>1
  <2>2. out' \in [DOMAIN before -> {0, 1}]
    BY <1>1, <1>11, <1>14
  <2> QED
    BY <2>1, <2>2 DEF StreamInv, Buffers
<1>19. RequestPoint'
  <2>1. rem' = rem - take /\ at' = IF rem = take THEN "idle" ELSE "take"
    BY <1>1
  <2>2. want' = want /\ start' = start /\ seed' = seed
    BY <1>1
  <2>3. at' = "idle" <=> rem' = 0
    BY <1>2, <1>7, <1>8, <2>1
  <2> QED
    BY <1>4, <1>8, <1>9, <2>2, <2>3 DEF RequestPoint
<1>20. Copying'
  BY <1>1 DEF Copying
<1>21. Served'
  <2>1. \A j : Position(j)' = Position(j)
    BY <1>1 DEF Position
  <2>2. ASSUME NEW j \in 0 .. Done + take - 1
        PROVE  out'[j] = Or(before[j], Bit(start.seed, Position(j)))
    <3>1. CASE j < Done
      <4>1. j \in DOMAIN out
        BY <1>2, <1>4, <1>8, <1>11, <3>1 DEF StreamInv, Buffers
      <4>2. out[j] = Or(before[j], Bit(start.seed, Position(j)))
        BY <1>4, <3>1 DEF StreamInv, Served
      <4> QED
        BY <1>13, <3>1, <4>1, <4>2
    <3>2. CASE j >= Done
      BY <1>4, <1>8, <1>12, <3>2
    <3> QED
      BY <1>4, <1>8, <3>1, <3>2
  <2>3. before' = before /\ start' = start
    BY <1>1
  <2>4. Served' <=> \A j \in 0 .. Done' - 1 :
                      out'[j] = Or(before[j], Bit(start.seed, Position(j)))
    BY <2>1, <2>3, Zenon DEF Served
  <2>5. 0 .. Done' - 1 = 0 .. Done + take - 1
    BY <1>4, <1>8
  <2> QED
    BY <2>2, <2>4, <2>5
<1>22. Taking'
  <2>1. start'.left = left /\ start'.next = start.next /\ start'.from = start.from
    BY <1>1
  <2>2. /\ bits_available' = available - take /\ word' = number /\ drawn' = draws
        /\ bit_pool' = bit_pool
    BY <1>1
  <2>3. Done + take < left =>
          /\ available - take = left - (Done + take)
          /\ (number + 1) * WordBits - (available - take) = start.from + (Done + take)
          /\ start.next = draws * WordBits
    <3> SUFFICES ASSUME Done + take < left
                 PROVE  /\ available - take = left - (Done + take)
                        /\ (number + 1) * WordBits - (available - take)
                             = start.from + (Done + take)
                        /\ start.next = draws * WordBits
      OBVIOUS
    <3>1. Done < left
      BY <1>2, <1>4, <1>8
    <3>2. /\ available = left - Done
          /\ (number + 1) * WordBits - available = start.from + Done
          /\ start.next = draws * WordBits
      BY <1>6, <3>1
    <3>3. (number + 1) * WordBits \in Int
      BY <1>3
    <3> HIDE DEF left
    <3> QED
      BY <1>2, <1>3, <1>4, <1>8, <3>2, <3>3
  <2>4. Done + take >= left =>
          /\ draws * WordBits - (available - take) = start.next + ((Done + take) - left)
          /\ available - take > 0 => number + 1 = draws
    <3>1. CASE Done < left
      <4>1. take = left - Done \/ Done + take < left
        BY <1>2, <1>3, <1>4, <1>6, <1>7, <1>8, <3>1
      <4> QED
        BY <1>2, <1>3, <1>4, <1>6, <1>7, <1>8, <3>1, <4>1
    <3>2. CASE Done >= left
      <4>1. /\ draws * WordBits - available = start.next + (Done - left)
            /\ number + 1 = draws
        BY <1>6, <3>2
      <4>2. draws * WordBits \in Int
        BY <1>3
      <4> HIDE DEF left
      <4> QED
        BY <1>2, <1>3, <1>4, <1>8, <4>1, <4>2
    <3> QED
      BY <1>2, <1>4, <3>1, <3>2
  <2>5. \A j \in DOMAIN out' : j >= Done + take => out'[j] = before'[j]
    <3> SUFFICES ASSUME NEW j \in DOMAIN out, j >= Done + take PROVE out'[j] = before[j]
      BY <1>1, <1>14
    <3>1. j >= Done
      BY <1>4, <1>8, <1>11
    <3>2. out[j] = before[j]
      BY <1>1, <3>1 DEF StreamInv, Taking
    <3> QED
      BY <1>13, <3>2
  <2> QED
    BY <1>1, <1>8, <1>9, <2>1, <2>2, <2>3, <2>4, <2>5 DEF Taking, Pooled
<1> QED
  BY <1>15, <1>16, <1>17, <1>18, <1>19, <1>20, <1>21, <1>22 DEF StreamInv

LEMMA ServeKeeps ==
  ASSUME StreamInv, ServeStep
  PROVE  StreamInv'
BY TakeKeeps, FillKeeps, CopyKeeps DEF ServeStep

-----------------------------------------------------------------------------
(* What the invariant says of a request.                                   *)

LEMMA ServedIsStream ==
  ASSUME StreamInv
  PROVE  BitsAreStream
<1> SUFFICES ASSUME at = "idle", NEW j \in 0 .. want - 1, before[j] = 0
             PROVE  out[j] = Bit(start.seed, Position(j))
  BY DEF BitsAreStream
<1>1. Done = want
  BY DEF StreamInv, NumberTypes, RequestPoint, Done
<1>2. out[j] = Or(0, Bit(start.seed, Position(j)))
  BY <1>1 DEF StreamInv, Served
<1> QED
  BY <1>2, BitIsBit, OrBits

(* Words enough for n bits.                                                *)
LEMMA WordsEnough ==
  ASSUME NEW n \in Nat
  PROVE  /\ WordsFor(n) \in Nat /\ n <= WordsFor(n) * WordBits
         /\ \A k \in Nat : k * WordBits <= n => k <= WordsFor(n)
<1> DEFINE q == (n + WordBits - 1) \div WordBits
           r == (n + WordBits - 1) % WordBits
<1>1. n + WordBits - 1 \in Nat
  BY Width
<1>2. /\ q \in Nat /\ r \in 0 .. WordBits - 1
      /\ n + WordBits - 1 = q * WordBits + r
  BY <1>1, Division
<1>3. q = WordsFor(n)
  BY DEF WordsFor
<1> HIDE DEF q, r
<1>4. n <= q * WordBits
  BY <1>2, Width
<1>5. ASSUME NEW k \in Nat, k * WordBits <= n PROVE k <= q
  <2> SUFFICES ASSUME k >= q + 1 PROVE FALSE
    BY <1>2
  <2>1. k * WordBits >= (q + 1) * WordBits
    BY <1>2, Width
  <2>2. (q + 1) * WordBits = q * WordBits + WordBits
    BY <1>2, Width
  <2> QED
    BY <1>2, <1>5, <2>1, <2>2, Width
<1> QED
  BY <1>2, <1>3, <1>4, <1>5

LEMMA StreamTypes ==
  ASSUME StreamInv
  PROVE  RandomTypeOK
<1>1. offset \in 0 .. WordsFor(want)
  <2>1. offset \in Nat /\ want \in Nat /\ shift \in 0 .. WordBits - 1
    BY DEF StreamInv, NumberTypes
  <2>2. offset * WordBits <= want
    <3>1. offset * WordBits + shift <= want /\ offset * WordBits \in Nat
      BY <2>1, Width DEF StreamInv, RequestPoint
    <3> QED
      BY <2>1, <3>1
  <2> QED
    BY <2>1, <2>2, WordsEnough
<1>2. bit_pool.base \in Nat /\ bit_pool.filled \in Nat /\ bit_pool.consumed \in Nat
  BY DEF StreamInv, PoolFollows, Pools
<1>3. \A j \in DOMAIN out : out[j] \in {0, 1}
  BY DEF StreamInv, Buffers
<1> QED
  BY <1>1, <1>2, <1>3 DEF StreamInv, NumberTypes, BufferFollows, RandomTypeOK

-----------------------------------------------------------------------------
(* Powers of two.                                                          *)

TopPower == Mantissa + 2 * WordBits

LEMMA TopIs ==
  /\ TopPower \in Nat /\ TopPower = Mantissa + 2 * WordBits
  /\ Mantissa \in Nat /\ Mantissa > 0 /\ WordBits \in Nat /\ Mantissa <= WordBits
  BY ChoiceAssumption, Width DEF TopPower

LEMMA Powers ==
  /\ 2^0 = 1
  /\ \A n \in 0 .. TopPower : 2^n \in Nat /\ 2^n > 0 /\ 2^(n + 1) = 2 * 2^n
<1>1. 2^0 = 1
  OBVIOUS
<1> QED
  BY <1>1, PowersAssumption DEF TopPower

LEMMA Times ==
  ASSUME NEW a \in Int, NEW b \in Int, NEW c \in Int
  PROVE  /\ a * b \in Int /\ a * b = b * a /\ a * (b * c) = (a * b) * c
         /\ a * (b + c) = a * b + a * c /\ a * (b - c) = a * b - a * c
         /\ (b + c) * a = b * a + c * a /\ (b - c) * a = b * a - c * a
OBVIOUS

LEMMA TimesGrows ==
  ASSUME NEW a \in Int, NEW b \in Int, NEW c \in Nat, a <= b
  PROVE  a * c <= b * c /\ c * a <= c * b
OBVIOUS

LEMMA TimesGrowsMore ==
  ASSUME NEW a \in Int, NEW b \in Int, NEW c \in Nat, c > 0, a < b
  PROVE  a * c < b * c /\ c * a < c * b
OBVIOUS

LEMMA TimesOrder ==
  ASSUME NEW a \in Int, NEW b \in Int, NEW c \in Nat, c > 0
  PROVE  /\ a * c < b * c => a < b
         /\ a * c <= b * c => a <= b
OBVIOUS

LEMMA PowerSum ==
  ASSUME NEW a \in Nat, NEW b \in Nat, a + b <= TopPower
  PROVE  2^(a + b) = 2^a * 2^b
<1> DEFINE T == {n \in Nat : 2^(a + n) = 2^a * 2^n}
<1>1. a \in 0 .. TopPower /\ 2^a \in Nat
  BY Powers, TopIs
<1>2. 0 \in T
  BY <1>1, Powers
<1>3. ASSUME NEW n \in 0 .. b - 1, n \in T PROVE n + 1 \in T
  <2>1. n \in 0 .. TopPower /\ a + n \in 0 .. TopPower
    BY TopIs
  <2>2. 2^n \in Nat /\ 2^(a + n) \in Nat /\ 2^(n + 1) = 2 * 2^n
        /\ 2^((a + n) + 1) = 2 * 2^(a + n)
    BY <2>1, Powers
  <2>3. 2 * (2^a * 2^n) = 2^a * (2 * 2^n)
    BY <1>1, <2>2
  <2>4. a + (n + 1) = (a + n) + 1
    OBVIOUS
  <2> QED
    BY <1>3, <2>2, <2>3, <2>4
<1> HIDE DEF T
<1>4. 0 .. b \subseteq T
  BY <1>2, <1>3, UpTo
<1>5. b \in T
  BY <1>4
<1> QED
  BY <1>5 DEF T

LEMMA PowerGrows ==
  ASSUME NEW a \in Nat, NEW b \in Nat, a <= b, b <= TopPower
  PROVE  2^a <= 2^b
<1>1. b - a \in Nat /\ a + (b - a) = b
  OBVIOUS
<1>2. 2^b = 2^a * 2^(b - a)
  BY <1>1, PowerSum
<1>3. a \in 0 .. TopPower /\ b - a \in 0 .. TopPower
  BY TopIs
<1>4. 2^a \in Nat /\ 2^(b - a) \in Nat /\ 2^(b - a) >= 1
  BY <1>3, Powers
<1>5. 2^a * 1 <= 2^a * 2^(b - a)
  BY <1>4, TimesGrows
<1> QED
  BY <1>2, <1>4, <1>5

(* The least power of two that n does not exceed.                          *)
LEMMA PowerAbove ==
  ASSUME NEW n \in Nat, NEW t \in 0 .. TopPower, n <= 2^t
  PROVE  \E m \in 0 .. t : n <= 2^m /\ (m = 0 \/ 2^(m - 1) < n)
<1> DEFINE T == {m \in Nat : m <= t /\ n <= 2^m}
<1>1. T \subseteq Nat /\ t \in T
  BY TopIs
<1>2. PICK m \in T : \A k \in T : m <= k
  <2> HIDE DEF T
  <2> QED
    BY <1>1, LeastNumber
<1>3. ASSUME m # 0 PROVE 2^(m - 1) < n
  <2>1. m - 1 \in 0 .. TopPower /\ m - 1 <= t /\ m - 1 \in Nat
    BY <1>3, TopIs
  <2>2. m - 1 \notin T
    BY <1>2, <2>1
  <2>3. 2^(m - 1) \in Nat
    BY <2>1, Powers
  <2> QED
    BY <2>1, <2>2, <2>3
<1> QED
  BY <1>2, <1>3

-----------------------------------------------------------------------------
(* Floating point: integers of a mantissa and an exponent.                 *)

IsDouble(x) == \E l \in 0 .. 2^Mantissa, k \in 0 .. 2 * WordBits : x = l * 2^k

Dist(a, b) == IF a < b THEN b - a ELSE a - b

Scale(n) == CHOOSE k \in 1 .. 2 * WordBits :
              2^(Mantissa + k - 1) <= n /\ n < 2^(Mantissa + k)

LEMMA ScaleIs ==
  ASSUME NEW n \in Nat, 2^Mantissa <= n, n < 2^TopPower
  PROVE  /\ Scale(n) \in 1 .. 2 * WordBits
         /\ 2^(Mantissa + Scale(n) - 1) <= n /\ n < 2^(Mantissa + Scale(n))
<1> DEFINE Q(k) == 2^(Mantissa + k - 1) <= n /\ n < 2^(Mantissa + k)
<1>1. \E k \in 1 .. 2 * WordBits : Q(k)
  <2>1. TopPower \in 0 .. TopPower /\ n + 1 \in Nat /\ 2^TopPower \in Nat
    BY TopIs, Powers
  <2>2. n + 1 <= 2^TopPower
    BY <2>1
  <2>3. PICK m \in 0 .. TopPower : n + 1 <= 2^m /\ (m = 0 \/ 2^(m - 1) < n + 1)
    BY <2>1, <2>2, PowerAbove
  <2>4. m > Mantissa
    <3> SUFFICES ASSUME m <= Mantissa PROVE FALSE
      BY TopIs
    <3>1. 2^m <= 2^Mantissa
      BY TopIs, PowerGrows
    <3>2. 2^m \in Nat /\ 2^Mantissa \in Nat
      BY TopIs, Powers
    <3> QED
      BY <2>3, <3>1, <3>2
  <2>5. m - 1 \in 0 .. TopPower
    BY <2>4, TopIs
  <2>6. 2^(m - 1) \in Nat /\ 2^m \in Nat
    BY <2>5, Powers
  <2>7. m - Mantissa \in 1 .. 2 * WordBits /\ Mantissa + (m - Mantissa) - 1 = m - 1
        /\ Mantissa + (m - Mantissa) = m
    BY <2>4, TopIs
  <2>8. Q(m - Mantissa)
    BY <2>3, <2>4, <2>6, <2>7, TopIs
  <2> QED
    BY <2>7, <2>8
<1>2. Scale(n) = CHOOSE k \in 1 .. 2 * WordBits : Q(k)
  BY DEF Scale
<1> HIDE DEF Q
<1>3. Scale(n) \in 1 .. 2 * WordBits /\ Q(Scale(n))
  BY <1>1, <1>2, Zenon
<1> QED
  BY <1>3 DEF Q

(* Rounded, of a number too large to be exact.                             *)
RoundedAt(n, u) ==
  IF 2 * (n % u) < u \/ (2 * (n % u) = u /\ (n \div u) % 2 = 0)
  THEN (n \div u) * u ELSE ((n \div u) + 1) * u

LEMMA RoundedIs ==
  ASSUME NEW n \in Nat
  PROVE  /\ n < 2^Mantissa => Rounded(n) = n
         /\ ~ n < 2^Mantissa => Rounded(n) = RoundedAt(n, 2^Scale(n))
<1>1. n < 2^Mantissa => Rounded(n) = n
  BY DEF Rounded
<1>2. ~ n < 2^Mantissa => Rounded(n) = RoundedAt(n, 2^Scale(n))
  BY Zenon DEF Rounded, RoundedAt, Scale
<1> QED
  BY <1>1, <1>2


(* Rounding takes the nearest of the doubles.                              *)
LEMMA RoundedIsNearest ==
  ASSUME NEW n \in Nat, n < 2^TopPower
  PROVE  /\ Rounded(n) \in Nat /\ IsDouble(Rounded(n))
         /\ \A d \in Nat : IsDouble(d) => Dist(Rounded(n), n) <= Dist(d, n)
<1>1. 2^Mantissa \in Nat /\ 2^0 = 1
  BY Powers, TopIs
<1>2. CASE n < 2^Mantissa
  <2>1. Rounded(n) = n
    BY <1>2, RoundedIs
  <2>2. n = n * 2^0 /\ n \in 0 .. 2^Mantissa /\ 0 \in 0 .. 2 * WordBits
    BY <1>1, <1>2, TopIs
  <2>3. IsDouble(n)
    BY <2>2 DEF IsDouble
  <2> QED
    BY <2>1, <2>3 DEF Dist
<1>3. CASE ~ n < 2^Mantissa
  <2> DEFINE e == Scale(n)
             u == 2^e
             h == 2^Mantissa
             low == n \div u
             r == n % u
  <2>1. /\ e \in 1 .. 2 * WordBits
        /\ 2^(Mantissa + e - 1) <= n /\ n < 2^(Mantissa + e)
    BY <1>1, <1>3, ScaleIs
  <2>2. Rounded(n) = IF 2 * r < u \/ (2 * r = u /\ low % 2 = 0)
                     THEN low * u ELSE (low + 1) * u
    BY <1>3, RoundedIs DEF RoundedAt
  <2> HIDE DEF e
  <2>3. u \in Nat /\ u > 0 /\ 2^(e - 1) \in Nat /\ u = 2 * 2^(e - 1)
    <3>1. e - 1 \in 0 .. TopPower /\ e \in 0 .. TopPower /\ (e - 1) + 1 = e
      BY <2>1, TopIs
    <3> QED
      BY <3>1, Powers
  <2>4. 2^(Mantissa + e) = h * u
    BY <2>1, TopIs, PowerSum
  <2>5. 2^(Mantissa + e - 1) = h * 2^(e - 1)
    <3>1. e - 1 \in Nat /\ Mantissa + e - 1 = Mantissa + (e - 1)
          /\ Mantissa + (e - 1) <= TopPower
      BY <2>1, TopIs
    <3> QED
      BY <3>1, TopIs, PowerSum
  <2>6. low \in Nat /\ r \in 0 .. u - 1 /\ n = low * u + r
    <3> DEFINE v == u
    <3>1. v \in Nat /\ v > 0
      BY <2>3
    <3> HIDE DEF v
    <3>2. n \div v \in Nat /\ n % v \in 0 .. v - 1 /\ n = (n \div v) * v + (n % v)
      BY <3>1, DivMod
    <3> QED
      BY <3>2 DEF v
  <2> DEFINE z == 2^(e - 1)
  <2>7. z \in Nat /\ u = 2 * z /\ h * z <= n /\ n < h * u /\ h \in Nat
    BY <1>1, <2>1, <2>3, <2>4, <2>5
  <2> HIDE DEF u, h, low, r, z
  <2>8. low < h
    <3>1. low * u <= n /\ low * u \in Nat
      BY <2>3, <2>6
    <3>2. low * u < h * u
      BY <2>7, <3>1, <2>3
    <3> QED
      BY <2>3, <2>6, <2>7, <3>2, TimesOrder
  (* No double is between low * u and the next.                            *)
  <2>9. ASSUME NEW d \in Nat, IsDouble(d)
        PROVE  d <= low * u \/ d >= low * u + u
    <3>1. PICK l \in 0 .. h, k \in 0 .. 2 * WordBits : d = l * 2^k
      BY <2>9 DEF IsDouble, h
    <3>2. CASE k >= e
      <4>1. k - e \in 0 .. TopPower /\ e + (k - e) <= TopPower /\ e + (k - e) = k
            /\ e \in Nat /\ k - e \in Nat
        BY <2>1, <3>2, TopIs
      <4>2. 2^k = u * 2^(k - e) /\ 2^(k - e) \in Nat
        BY <4>1, PowerSum, Powers DEF u
      <4> DEFINE q == l * 2^(k - e)
      <4>3. q \in Nat /\ l \in Nat /\ d = q * u
        <5>1. l \in Nat
          BY <2>7
        <5>2. l * (u * 2^(k - e)) = (l * 2^(k - e)) * u
          BY <2>3, <4>2, <5>1, Times
        <5> QED
          BY <3>1, <4>2, <5>1, <5>2
      <4> HIDE DEF q
      <4>4. CASE q <= low
        BY <2>3, <2>6, <4>3, <4>4, TimesGrows
      <4>5. CASE q >= low + 1
        <5>1. (low + 1) * u <= q * u /\ (low + 1) * u = low * u + u
          BY <2>3, <2>6, <4>3, <4>5, TimesGrows
        <5> QED
          BY <4>3, <5>1
      <4> QED
        BY <2>6, <4>3, <4>4, <4>5
    <3>3. CASE k < e
      <4>1. 2^k <= z /\ 2^k \in Nat
        <5>1. k \in Nat /\ e - 1 \in Nat /\ k <= e - 1 /\ e - 1 <= TopPower
              /\ k \in 0 .. TopPower
          BY <2>1, <3>3, TopIs
        <5> QED
          BY <5>1, PowerGrows, Powers DEF z
      <4>2. l \in Nat /\ l * 2^k <= h * z
        <5>1. l * 2^k <= l * z /\ l * z <= h * z
          BY <2>7, <4>1, TimesGrows
        <5>2. l * 2^k \in Nat /\ l * z \in Nat /\ h * z \in Nat
          BY <2>7, <4>1
        <5> QED
          BY <2>7, <5>1, <5>2
      <4>3. h * z <= low * u
        <5> SUFFICES ASSUME ~ h * z <= low * u PROVE FALSE
          OBVIOUS
        <5>1. low * u = 2 * (low * z) /\ (2 * low) * z = 2 * (low * z) /\ low * z \in Nat
              /\ h * z \in Nat
          BY <2>6, <2>7
        <5>2. (2 * low) * z < h * z
          BY <5>1
        <5>3. 2 * low < h /\ z > 0
          BY <2>3, <2>6, <2>7, <5>2, TimesOrder
        <5>4. PICK g \in Nat : h = 2 * g
          <6>1. Mantissa - 1 \in 0 .. TopPower /\ (Mantissa - 1) + 1 = Mantissa
            BY TopIs
          <6> QED
            BY <6>1, Powers DEF h
        <5>5. low + 1 <= g
          BY <2>6, <5>3, <5>4
        <5>6. (low + 1) * u <= g * u /\ g * u = (2 * g) * z /\ (low + 1) * u = low * u + u
          <6>1. g * (2 * z) = (2 * g) * z
            BY <2>7, <5>4
          <6> QED
            BY <2>3, <2>6, <2>7, <5>4, <5>5, <6>1, TimesGrows
        <5>7. low * u + u <= h * z
          BY <5>4, <5>6
        <5> QED
          BY <2>6, <2>7, <5>1, <5>7
      <4> QED
        BY <2>6, <2>7, <3>1, <4>2, <4>3, <2>3
    <3> QED
      BY <2>1, <3>2, <3>3
  <2>10. low * u \in Nat /\ (low + 1) * u = low * u + u
    BY <2>3, <2>6
  <2>11. /\ Rounded(n) \in {low * u, low * u + u}
         /\ Rounded(n) = low * u => 2 * r <= u
         /\ Rounded(n) # low * u => 2 * r >= u
    BY <2>2, <2>3, <2>6, <2>10
  <2>12. IsDouble(Rounded(n))
    <3>1. e \in 0 .. 2 * WordBits /\ low \in 0 .. 2^Mantissa /\ low + 1 \in 0 .. 2^Mantissa
      BY <2>1, <2>6, <2>7, <2>8, TopIs DEF h
    <3>2. Rounded(n) = low * 2^e \/ Rounded(n) = (low + 1) * 2^e
      BY <2>10, <2>11 DEF u
    <3> QED
      BY <3>1, <3>2 DEF IsDouble
  <2>13. ASSUME NEW d \in Nat, IsDouble(d) PROVE Dist(Rounded(n), n) <= Dist(d, n)
    <3> DEFINE a == low * u
    <3>1. a \in Nat /\ (d <= a \/ d >= a + u) /\ n = a + r
      BY <2>6, <2>9, <2>10, <2>13
    <3>2. /\ Rounded(n) \in {a, a + u}
          /\ Rounded(n) = a => 2 * r <= u
          /\ Rounded(n) # a => 2 * r >= u
      BY <2>11
    <3> HIDE DEF a
    <3> QED
      BY <2>3, <2>6, <3>1, <3>2 DEF Dist
  <2> QED
    BY <2>3, <2>10, <2>11, <2>12, <2>13
<1> QED
  BY <1>2, <1>3

(* Fewer bits than a word, rounded, is 2^WordBits or no more than the      *)
(* double before it.                                                       *)
LEMMA WholeWord ==
  ASSUME NEW n \in Nat, n < 2^WordBits
  PROVE  /\ Rounded(n) \in Nat /\ IsDouble(Rounded(n))
         /\ \/ Rounded(n) = 2^WordBits
            \/ Rounded(n) <= 2^WordBits - 2^(WordBits - Mantissa)
<1> DEFINE w == 2^WordBits
           s == 2^(WordBits - Mantissa)
           h == 2^Mantissa
           x == Rounded(n)
<1>1. /\ WordBits - Mantissa \in Nat /\ WordBits - Mantissa \in 0 .. TopPower
      /\ WordBits \in 0 .. TopPower /\ Mantissa \in 0 .. TopPower
      /\ WordBits <= TopPower /\ Mantissa + (WordBits - Mantissa) = WordBits
  BY TopIs
<1>2. w \in Nat /\ s \in Nat /\ s > 0 /\ h \in Nat /\ w = h * s
  BY <1>1, TopIs, Powers, PowerSum
<1>3. h >= 2
  <2>1. Mantissa - 1 \in 0 .. TopPower /\ (Mantissa - 1) + 1 = Mantissa
    BY TopIs
  <2> QED
    BY <2>1, Powers
<1>4. n < 2^TopPower
  <2>1. 2^WordBits <= 2^TopPower
    BY TopIs, PowerGrows
  <2>2. 2^TopPower \in Nat
    BY TopIs, Powers
  <2> QED
    BY <1>2, <2>1, <2>2
<1>5. x \in Nat /\ IsDouble(x) /\ \A d \in Nat : IsDouble(d) => Dist(x, n) <= Dist(d, n)
  BY <1>4, RoundedIsNearest
<1>6. IsDouble(w)
  <2>1. w = 1 * 2^WordBits /\ 1 \in 0 .. 2^Mantissa /\ WordBits \in 0 .. 2 * WordBits
    BY <1>2, <1>3, TopIs
  <2> QED
    BY <2>1 DEF IsDouble
<1>7. PICK l \in 0 .. h, k \in 0 .. 2 * WordBits : x = l * 2^k
  BY <1>5 DEF IsDouble
<1>8. k \in 0 .. TopPower /\ k \in Nat /\ k <= TopPower
  BY TopIs
<1> HIDE DEF w, s, h, x
<1>9. n < w
  BY DEF w
<1>10. x <= w
  BY <1>2, <1>5, <1>6, <1>9 DEF Dist
<1>11. CASE k >= WordBits - Mantissa
  <2> DEFINE j == k - (WordBits - Mantissa)
             q == l * 2^j
  <2>1. j \in Nat /\ j \in 0 .. TopPower /\ (WordBits - Mantissa) + j = k
    BY <1>1, <1>8, <1>11, TopIs
  <2>2. 2^k = s * 2^j /\ 2^j \in Nat
    BY <1>1, <1>8, <2>1, PowerSum, Powers DEF s
  <2>3. q \in Nat /\ x = q * s
    <3>1. l * (s * 2^j) = (l * 2^j) * s /\ l \in Nat
      BY <1>2, <2>2
    <3> QED
      BY <1>7, <2>2, <3>1
  <2> HIDE DEF q, j
  <2>4. CASE x < w
    <3>1. q < h
      BY <1>2, <2>3, <2>4, TimesOrder
    <3>2. (q + 1) * s <= h * s /\ (q + 1) * s = q * s + s
      BY <1>2, <2>3, <3>1, TimesGrows
    <3>3. x <= w - s
      BY <1>2, <1>5, <2>3, <3>2
    <3> QED
      BY <1>5, <3>3 DEF x, w, s
  <2>5. CASE x = w
    BY <1>5, <2>5 DEF x, w
  <2> QED
    BY <1>2, <1>5, <1>10, <2>4, <2>5
<1>12. CASE k < WordBits - Mantissa
  <2>1. 2 * 2^k <= s /\ 2^k \in Nat
    <3>1. k + 1 \in Nat /\ k + 1 <= WordBits - Mantissa /\ WordBits - Mantissa <= TopPower
      BY <1>1, <1>8, <1>12
    <3>2. 2^(k + 1) <= s
      BY <1>1, <3>1, PowerGrows DEF s
    <3> QED
      BY <1>8, <3>2, Powers
  <2>2. l \in Nat /\ l * 2^k <= h * 2^k /\ h * (2 * 2^k) <= h * s
    BY <1>2, <2>1, TimesGrows
  <2>3. 2 * x <= w
    <3>1. h * (2 * 2^k) = 2 * (h * 2^k) /\ h * 2^k \in Nat
      BY <1>2, <2>1
    <3> QED
      BY <1>2, <1>5, <1>7, <2>1, <2>2, <3>1
  <2>4. 2 * s <= w
    BY <1>2, <1>3, TimesGrows
  <2>5. x <= w - s
    BY <1>2, <1>5, <2>3, <2>4
  <2> QED
    BY <1>5, <2>5 DEF x, w, s
<1> QED
  BY <1>1, <1>8, <1>11, <1>12

(* Below c * 2^WordBits there is a double not far from it.                 *)
LEMMA DoubleBelow ==
  ASSUME NEW c \in Nat, IsDouble(c), c > 0, c <= 2^WordBits
  PROVE  \E d \in Nat : /\ IsDouble(d) /\ d < c * 2^WordBits
                        /\ d > c * 2^WordBits - 2 * (c * 2^(WordBits - Mantissa))
<1>0. WordBits \in 0 .. TopPower
  BY TopIs
<1>1. PICK m \in 0 .. WordBits : c <= 2^m /\ (m = 0 \/ 2^(m - 1) < c)
  BY <1>0, PowerAbove
<1> DEFINE t == 2^(WordBits + m - Mantissa)
           w == 2^WordBits
           s == 2^(WordBits - Mantissa)
           h == 2^Mantissa
<1>2. /\ WordBits + m - Mantissa \in Nat /\ WordBits + m - Mantissa \in 0 .. TopPower
      /\ WordBits + m - Mantissa \in 0 .. 2 * WordBits
      /\ WordBits - Mantissa \in Nat /\ WordBits - Mantissa \in 0 .. TopPower
      /\ m \in 0 .. TopPower /\ m \in Nat /\ Mantissa \in 0 .. TopPower
  BY TopIs
<1>3. t \in Nat /\ t > 0 /\ w \in Nat /\ s \in Nat /\ s > 0 /\ h \in Nat /\ 2^m \in Nat
  BY <1>0, <1>2, Powers
<1>4. t = 2^m * s
  <2>1. m + (WordBits - Mantissa) = WordBits + m - Mantissa
        /\ m + (WordBits - Mantissa) <= TopPower
    BY <1>2, TopIs
  <2> QED
    BY <1>2, <2>1, PowerSum
(* c * 2^WordBits is a multiple of t.                                      *)
<1>5. \E l \in 1 .. h : c * w = l * t
  <2>1. CASE m <= Mantissa
    <3> DEFINE g == 2^(Mantissa - m)
               l == c * g
    <3>1. Mantissa - m \in Nat /\ Mantissa - m \in 0 .. TopPower /\ m + (Mantissa - m) = Mantissa
          /\ (Mantissa - m) + (WordBits + m - Mantissa) = WordBits
          /\ Mantissa <= TopPower /\ WordBits <= TopPower
      BY <1>2, <2>1, TopIs
    <3>2. g \in Nat /\ g > 0 /\ h = 2^m * g /\ w = g * t
      <4>1. m + (Mantissa - m) <= TopPower /\ m \in Nat
        BY <3>1
      <4>2. 2^(m + (Mantissa - m)) = 2^m * 2^(Mantissa - m)
        BY <3>1, <4>1, PowerSum
      <4>3. 2^((Mantissa - m) + (WordBits + m - Mantissa))
              = 2^(Mantissa - m) * 2^(WordBits + m - Mantissa)
        BY <1>2, <3>1, PowerSum
      <4>4. g \in Nat /\ g > 0
        BY <3>1, Powers
      <4> QED
        BY <3>1, <4>2, <4>3, <4>4
    <3> HIDE DEF g, t, w, h
    <3>3. l <= h
      BY <1>1, <1>3, <3>2, TimesGrows
    <3>4. c * (g * t) = (c * g) * t /\ l \in Nat /\ l > 0
      BY <1>3, <3>2
    <3> QED
      BY <1>3, <3>2, <3>3, <3>4
  <2>2. CASE m > Mantissa
    <3>1. PICK l \in 0 .. h, k \in 0 .. 2 * WordBits : c = l * 2^k
      BY DEF IsDouble
    <3>2. k \in Nat /\ k \in 0 .. TopPower /\ 2^k \in Nat /\ l \in Nat
      BY <1>3, TopIs, Powers
    <3>3. k >= m - Mantissa
      <4> SUFFICES ASSUME k < m - Mantissa PROVE FALSE
        BY <1>2, <3>2, TopIs
      <4>1. Mantissa + k <= m - 1 /\ m - 1 \in Nat /\ m - 1 <= TopPower /\ m # 0
            /\ Mantissa + k \in Nat /\ Mantissa + k <= TopPower /\ m - 1 \in 0 .. TopPower
        BY <1>2, <2>2, <3>2, TopIs
      <4>2. h * 2^k <= 2^(m - 1)
        <5>1. 2^(Mantissa + k) <= 2^(m - 1)
          BY <4>1, PowerGrows
        <5>2. 2^(Mantissa + k) = h * 2^k
          BY <3>2, <4>1, TopIs, PowerSum
        <5> QED
          BY <5>1, <5>2
      <4>3. l * 2^k <= h * 2^k
        BY <1>3, <3>2, TimesGrows
      <4>4. 2^(m - 1) \in Nat /\ h * 2^k \in Nat
        BY <1>3, <3>2, <4>1, Powers
      <4> QED
        BY <1>1, <3>1, <4>1, <4>2, <4>3, <4>4
    <3> DEFINE j == k - (m - Mantissa)
               g == 2^(m - Mantissa)
               i == l * 2^j
    <3>4. j \in Nat /\ j \in 0 .. TopPower /\ (m - Mantissa) + j = k /\ m - Mantissa \in Nat
          /\ m - Mantissa \in 0 .. TopPower /\ (m - Mantissa) + WordBits = WordBits + m - Mantissa
          /\ k <= TopPower /\ WordBits + m - Mantissa <= TopPower
          /\ Mantissa + (m - Mantissa) = m /\ m <= TopPower
      BY <1>2, <2>2, <3>2, <3>3, TopIs
    <3>5. 2^k = g * 2^j /\ 2^j \in Nat /\ t = g * w /\ 2^m = h * g /\ g \in Nat /\ g > 0
      <4>1. 2^k = g * 2^j
        BY <3>4, PowerSum
      <4>2. t = g * w
        BY <3>4, TopIs, PowerSum
      <4>3. 2^m = h * g
        BY <3>4, TopIs, PowerSum
      <4> QED
        BY <3>4, <4>1, <4>2, <4>3, Powers
    <3>6. i \in Nat /\ c = i * g
      <4>1. l * (g * 2^j) = (l * 2^j) * g
        BY <3>2, <3>5
      <4> QED
        BY <3>1, <3>2, <3>5, <4>1
    <3> HIDE DEF g, i, t, w, h, j
    <3>7. i <= h
      BY <1>1, <1>3, <3>5, <3>6, TimesOrder
    <3>8. i > 0
      BY <3>5, <3>6
    <3>9. c * w = i * t
      <4>1. (i * g) * w = i * (g * w)
        BY <1>3, <3>5, <3>6
      <4> QED
        BY <3>5, <3>6, <4>1
    <3> QED
      BY <1>3, <3>6, <3>7, <3>8, <3>9
  <2> QED
    BY <1>2, <2>1, <2>2, TopIs
<1>6. PICK l \in 1 .. h : c * w = l * t
  BY <1>5
<1> DEFINE d == (l - 1) * t
<1>7. IsDouble(d)
  <2>1. l - 1 \in 0 .. 2^Mantissa
    BY <1>3
  <2> QED
    BY <1>2, <2>1 DEF IsDouble
<1> HIDE DEF t, w, s, h
<1>8. d \in Nat /\ d = l * t - t
  BY <1>3
<1>9. t < 2 * (c * s)
  <2>1. 2^m < 2 * c
    <3>1. CASE m = 0
      BY <3>1, Powers
    <3>2. CASE m # 0
      <4>1. m - 1 \in 0 .. TopPower /\ (m - 1) + 1 = m
        BY <1>2, <3>2, TopIs
      <4>2. 2^m = 2 * 2^(m - 1) /\ 2^(m - 1) \in Nat
        BY <4>1, Powers
      <4> QED
        BY <1>1, <3>2, <4>2
    <3> QED
      BY <3>1, <3>2
  <2>2. 2^m * s < (2 * c) * s /\ (2 * c) * s = 2 * (c * s)
    BY <1>3, <2>1, TimesGrowsMore
  <2> QED
    BY <1>4, <2>2
<1> HIDE DEF d
<1>10. c * w \in Nat /\ c * s \in Nat
  BY <1>3
<1>11. d < c * w /\ d > c * w - 2 * (c * s)
  BY <1>3, <1>6, <1>8, <1>9, <1>10
<1> QED
  BY <1>7, <1>8, <1>11 DEF w, s

(* A product with what is below 2^WordBits is rounded below the limit.     *)
LEMMA ProductBelow ==
  ASSUME NEW c \in Nat, c > 0, c < 2^WordBits,
         NEW r \in Nat, r <= 2^WordBits - 2^(WordBits - Mantissa)
  PROVE  /\ Rounded(r * Rounded(c)) \in Nat
         /\ Rounded(r * Rounded(c)) < c * 2^WordBits
<1> DEFINE w == 2^WordBits
           s == 2^(WordBits - Mantissa)
           b == Rounded(c)
           x == b * w
           p == r * b
           q == Rounded(p)
<1>1. /\ WordBits - Mantissa \in 0 .. TopPower /\ WordBits \in 0 .. TopPower
      /\ Mantissa \in 0 .. TopPower
  BY TopIs
<1>2. w \in Nat /\ s \in Nat /\ s > 0 /\ w > 0 /\ 2^Mantissa \in Nat
  BY <1>1, Powers
<1>3. w * w <= 2^TopPower /\ w <= 2^TopPower /\ 2^TopPower \in Nat
  <2>1. 2^(WordBits + WordBits) = w * w
    BY TopIs, PowerSum
  <2>2. 2^(WordBits + WordBits) <= 2^TopPower /\ 2^WordBits <= 2^TopPower
    BY TopIs, PowerGrows
  <2> QED
    BY <2>1, <2>2, TopIs, Powers
<1>4. b \in Nat /\ IsDouble(b) /\ b <= w
  <2>1. c < 2^WordBits
    OBVIOUS
  <2>2. b \in Nat /\ IsDouble(b) /\ (b = w \/ b <= w - s)
    BY <2>1, WholeWord
  <2> QED
    BY <1>2, <2>2
<1>5. \A d \in Nat : IsDouble(d) => Dist(b, c) <= Dist(d, c)
  BY <1>2, <1>3, RoundedIsNearest
<1>6. b > 0
  <2>1. IsDouble(1)
    <3>1. 1 = 1 * 2^0 /\ 1 \in 0 .. 2^Mantissa /\ 0 \in 0 .. 2 * WordBits
      BY <1>1, Powers, TopIs
    <3> QED
      BY <3>1 DEF IsDouble
  <2>2. Dist(b, c) <= Dist(1, c)
    BY <1>5, <2>1
  <2> HIDE DEF b
  <2> QED
    BY <1>4, <2>2 DEF Dist
<1> HIDE DEF w, s, b
<1>7. r <= w - s /\ c < w
  BY DEF w, s
<1>8. p \in Nat /\ x \in Nat /\ b * s \in Nat /\ p <= x - b * s
  <2>1. r * b <= (w - s) * b
    BY <1>2, <1>4, <1>7, TimesGrows
  <2>2. (w - s) * b = b * w - b * s /\ b * w \in Nat /\ b * s \in Nat /\ r * b \in Nat
    BY <1>2, <1>4
  <2> QED
    BY <2>1, <2>2
<1>9. b * s > 0
  BY <1>2, <1>4, <1>6
<1>10. p < 2^TopPower
  <2>1. b * w <= w * w /\ w * w \in Nat
    BY <1>2, <1>4, TimesGrows
  <2> QED
    BY <1>3, <1>8, <1>9, <2>1
<1> HIDE DEF p
<1>11. q \in Nat /\ IsDouble(q) /\ \A d \in Nat : IsDouble(d) => Dist(q, p) <= Dist(d, p)
  BY <1>8, <1>10, RoundedIsNearest
<1>12. PICK d \in Nat : IsDouble(d) /\ d < x /\ d > x - 2 * (b * s)
  BY <1>2, <1>4, <1>6, DoubleBelow DEF w, s
<1> HIDE DEF q, x
<1>13. q < x
  <2>1. Dist(q, p) <= Dist(d, p)
    BY <1>11, <1>12
  <2> QED
    BY <1>8, <1>9, <1>11, <1>12, <2>1 DEF Dist
(* A double from c * 2^WordBits on, and below x, would be nearer to c.     *)
<1>14. q < c * w
  <2> SUFFICES ASSUME q >= c * w PROVE FALSE
    BY <1>2, <1>11
  <2>1. c * w \in Nat /\ x = b * w
    BY <1>2 DEF x
  <2>2. c < b
    BY <1>2, <1>4, <1>11, <1>13, <2>1, TimesOrder
  <2>3. ~ c < 2^Mantissa
    BY <1>2, <2>2, RoundedIs DEF b
  <2>4. PICK l \in 0 .. 2^Mantissa, k \in 0 .. 2 * WordBits : q = l * 2^k
    BY <1>11 DEF IsDouble
  <2>5. k \in Nat /\ k \in 0 .. TopPower /\ 2^k \in Nat /\ l \in Nat
    BY <1>2, TopIs, Powers
  <2>6. k >= WordBits
    <3> SUFFICES ASSUME k < WordBits PROVE FALSE
      BY <2>5, TopIs
    <3>1. 2^k < w
      <4>1. k + 1 \in Nat /\ k + 1 <= WordBits /\ WordBits <= TopPower
        BY <2>5, TopIs
      <4>2. 2^(k + 1) <= w
        BY <4>1, TopIs, PowerGrows DEF w
      <4>3. 2^(k + 1) = 2 * 2^k /\ 2^k > 0
        BY <2>5, Powers
      <4> QED
        BY <1>2, <2>5, <4>2, <4>3
    <3>2. l * 2^k <= 2^Mantissa * 2^k
      BY <1>2, <2>5, TimesGrows
    <3>3. 2^Mantissa * 2^k < 2^Mantissa * w
      <4>1. 2^Mantissa > 0
        BY <1>1, Powers
      <4> QED
        BY <1>2, <2>5, <3>1, <4>1, TimesGrowsMore
    <3>4. 2^Mantissa * w <= c * w
      BY <1>2, <2>3, TimesGrows
    <3>5. 2^Mantissa * 2^k \in Nat /\ 2^Mantissa * w \in Nat
      BY <1>2, <2>5
    <3> QED
      BY <1>11, <2>1, <2>4, <3>2, <3>3, <3>4, <3>5
  <2>7. k - WordBits \in Nat /\ k - WordBits \in 0 .. TopPower /\ WordBits + (k - WordBits) = k
        /\ k <= TopPower /\ k - WordBits \in 0 .. 2 * WordBits
    BY <2>5, <2>6, TopIs
  <2>8. 2^k = w * 2^(k - WordBits) /\ 2^(k - WordBits) \in Nat
    BY <2>7, TopIs, PowerSum, Powers DEF w
  <2> DEFINE y == l * 2^(k - WordBits)
  <2>9. y \in Nat /\ IsDouble(y)
    BY <2>5, <2>7, <2>8 DEF IsDouble
  <2>10. q = y * w
    <3>1. l * (w * 2^(k - WordBits)) = (l * 2^(k - WordBits)) * w
      BY <1>2, <2>5, <2>8
    <3> QED
      BY <2>4, <2>8, <3>1
  <2> HIDE DEF y
  <2>11. c <= y /\ y < b
    BY <1>2, <1>4, <1>13, <2>1, <2>9, <2>10, TimesOrder
  <2>12. Dist(b, c) <= Dist(y, c)
    BY <1>5, <2>9
  <2> QED
    BY <1>4, <2>2, <2>9, <2>11, <2>12 DEF Dist
<1> QED
  BY <1>11, <1>14 DEF q, p, b, w

LEMMA QuotientBelow ==
  ASSUME NEW a \in Nat, NEW b \in Nat, b > 0, NEW c \in Nat, a < c * b
  PROVE  a \div b < c
<1>1. a \div b \in Nat /\ (a \div b) * b <= a
  BY DivMod
<1>2. (a \div b) * b < c * b /\ c * b \in Nat
  BY <1>1
<1> QED
  BY <1>1, <1>2, TimesOrder

LEMMA ChoiceBitsAre ==
  ASSUME NEW c \in Nat
  PROVE  /\ ChoiceBits(c) \in 0 .. WordBits
         /\ c > 1 /\ PowerOfTwo(c) => c = 2^ChoiceBits(c)
<1>1. PowerOfTwo(c) => Log2(c) \in 0 .. WordBits /\ 2^Log2(c) = c
  BY Zenon DEF PowerOfTwo, Log2
<1>2. SmallBits \in 0 .. WordBits /\ MediumBits \in 0 .. WordBits
  BY ChoiceAssumption
<1>3. 0 \in 0 .. WordBits /\ WordBits \in 0 .. WordBits
  BY Width
<1>4. ChoiceBits(c) \in 0 .. WordBits
  BY <1>1, <1>2, <1>3, Zenon DEF ChoiceBits
<1> QED
  BY <1>1, <1>4 DEF ChoiceBits

(* theft_random_choice, of all the bits it may get.                        *)
LEMMA ChoiceIsBelow ==
  ASSUME NEW c \in Nat, c > 1, c < 2^WordBits,
         NEW n \in Nat, n < 2^ChoiceBits(c)
  PROVE  /\ Choice(c, n) < c
         \/ /\ ChoiceBits(c) = WordBits /\ ~ PowerOfTwo(c)
            /\ Rounded(n) = 2^WordBits
<1>1. CASE PowerOfTwo(c)
  BY <1>1, ChoiceBitsAre DEF Choice
<1>2. CASE ~ PowerOfTwo(c) /\ (c < SmallCeil \/ c < MediumCeil)
  <2> DEFINE k == ChoiceBits(c)
  <2>1. PICK top \in Nat : c < top /\ 2^k * top <= 2^Mantissa
    <3>1. CASE c < SmallCeil
      BY <1>2, <3>1, ChoiceAssumption DEF ChoiceBits
    <3>2. CASE ~ c < SmallCeil
      BY <1>2, <3>2, ChoiceAssumption DEF ChoiceBits
    <3> QED
      BY <3>1, <3>2
  <2>2. k \in 0 .. WordBits
    BY ChoiceBitsAre
  <2> HIDE DEF k
  <2>3. 2^k \in Nat /\ 2^k > 0 /\ 2^Mantissa \in Nat
    <3>1. k \in 0 .. TopPower /\ Mantissa \in 0 .. TopPower
      BY <2>2, TopIs
    <3> QED
      BY <3>1, Powers
  <2>4. n < 2^k
    BY DEF k
  <2> DEFINE p == 2^k
             h == 2^Mantissa
  <2>5. p \in Nat /\ p > 0 /\ h \in Nat /\ n < p /\ p * top <= h
    BY <2>1, <2>3, <2>4
  <2> HIDE DEF p, h
  <2>6. n * c < c * p /\ c * p <= h /\ n * c \in Nat /\ c * p \in Nat
    <3>1. n * c < p * c
      BY <2>5, TimesGrowsMore
    <3>2. p * c <= p * top
      BY <2>1, <2>5, TimesGrows
    <3>3. n * c \in Nat /\ p * c \in Nat /\ p * top \in Nat /\ p * c = c * p
      BY <2>5
    <3> QED
      BY <2>5, <3>1, <3>2, <3>3
  <2>7. n < h /\ c < h
    <3>1. n * 1 <= n * c /\ 1 * top <= p * top
      BY <2>5, TimesGrows
    <3>2. p * top \in Nat
      BY <2>5
    <3> QED
      BY <2>1, <2>5, <2>6, <3>1, <3>2
  <2>8. Rounded(n) = n /\ Rounded(c) = c /\ Rounded(n * c) = n * c
    BY <2>5, <2>6, <2>7, RoundedIs DEF h
  <2>9. Choice(c, n) = (n * c) \div p
    BY <1>2, <2>8 DEF Choice, p, k
  <2>10. (n * c) \div p < c
    <3> DEFINE a == n * c
    <3>1. a \in Nat /\ a < c * p
      BY <2>6
    <3> HIDE DEF a
    <3>2. a \div p < c
      BY <2>5, <3>1, QuotientBelow
    <3> QED
      BY <3>2 DEF a
  <2> QED
    BY <2>9, <2>10
<1>3. CASE ~ PowerOfTwo(c) /\ ~ c < MediumCeil /\ ~ c < SmallCeil
  <2>1. ChoiceBits(c) = WordBits
    BY <1>3 DEF ChoiceBits
  <2>2. CASE Rounded(n) = 2^WordBits
    BY <1>3, <2>1, <2>2
  <2>3. CASE Rounded(n) # 2^WordBits
    <3> DEFINE a == Rounded(Rounded(n) * Rounded(c))
               w == 2^WordBits
    <3>1. Rounded(n) \in Nat /\ Rounded(n) <= 2^WordBits - 2^(WordBits - Mantissa)
      BY <2>1, <2>3, WholeWord
    <3>2. a \in Nat /\ a < c * w
      BY <3>1, ProductBelow
    <3>3. w \in Nat /\ w > 0
      <4>1. WordBits \in 0 .. TopPower
        BY TopIs
      <4> QED
        BY <4>1, Powers
    <3>4. Choice(c, n) = a \div w
      BY <1>3, <2>1 DEF Choice
    <3> HIDE DEF a, w
    <3>5. a \div w < c
      BY <3>2, <3>3, QuotientBelow
    <3> QED
      BY <3>4, <3>5
  <2> QED
    BY <2>2, <2>3
<1> QED
  BY <1>1, <1>2, <1>3
=============================================================================
