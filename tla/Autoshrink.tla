----------------------------- MODULE Autoshrink -----------------------------
(***************************************************************************)
(* Autoshrinking of one argument (src/src/theft_autoshrink.c): an alloc    *)
(* callback draws its random bits from a pool that records the requests;   *)
(* shrinking drops or mutates requests in a copy of the pool and lets the  *)
(* callback build another instance from the copy.  The instance is         *)
(* represented by the bits the callback was handed, in one sequence.       *)
(***************************************************************************)
EXTENDS Integers, Sequences

CONSTANTS
  WordBits,       \* 64: bits in a word of the PRNG, the pool and a buffer
  ByteBits,       \* 8: bits in a byte of the pool
  PoolSize,       \* bits of the first allocation, a multiple of WordBits
  PoolLimit,      \* DEF_POOL_LIMIT
  Words,          \* the words the PRNG may give
  Wants(_),       \* the bits the callback asks for, given those it has; 0: done
  Bulk(_),        \* it asks for them with theft_random_bits_bulk
  Gives,          \* what the callback may return: "OK", "SKIP", "ERROR"
  Garbage,        \* what the bits of the callback's buffer may be beforehand
  MaxFailed,      \* max_failed_shrinks
  MaxChanges,     \* 5: least max_changes of mutate_bit_pool
  Retries,        \* 10: tries for each change
  MaxShift,       \* 4: most bits of one shift
  WeightWidth,    \* 8: bits of a weight
  Least, Most, First,  \* per action: MODEL_MIN, MODEL_MAX, init_model's weight
  SmallStep, BigStep   \* 3 and 8: theft_shrink's calls of update_model

Kinds == {"SHIFT", "MASK", "SWAP", "SUB"}
Actions == Kinds \union {"DROP"}
Strings(n) == [1 .. n -> {0, 1}]

ASSUME PoolAssumption ==
  /\ ByteBits \in Nat \ {0} /\ WordBits \in Nat \ {0}
  /\ WordBits % ByteBits = 0
  /\ PoolSize \in Nat \ {0} /\ PoolSize % WordBits = 0
  /\ PoolLimit \in Nat \ {0}
  /\ Words \subseteq Strings(WordBits) /\ Garbage \subseteq {0, 1}
  /\ Gives \subseteq {"OK", "SKIP", "ERROR"}
  /\ {MaxFailed, MaxChanges, Retries, MaxShift, WeightWidth} \subseteq Nat

(* No step from a weight in its range leaves uint8_t.                      *)
ASSUME WeightAssumption ==
  /\ {SmallStep, BigStep} \subseteq Nat \ {0}
  /\ \A a \in Actions :
       /\ {Least[a], Most[a], First[a]} \subseteq Nat \ {0}
       /\ First[a] \in Least[a] .. Most[a]
       /\ BigStep <= Least[a] /\ Most[a] + BigStep < 2^WeightWidth
  /\ SmallStep <= BigStep /\ 2^WeightWidth \in Nat

VARIABLES
  pc,        \* where theft is: see TypeOK
  pool,      \* env->bit_pool, or the pool that is being filled at first
  inst,      \* the instance built from it
  work,      \* the copy being shrunk; outside a shrink step, no other pool
  got,       \* the bits handed to the alloc callback so far
  tactic,    \* attempts since the last that made progress
  todo,      \* changes still to be made to the copy
  tries,     \* tries left to make them
  weights, tried, set   \* env->model: weights, cur_tried and cur_set

modelVars == <<weights, tried, set>>
vars == <<pc, pool, inst, work, got, tactic, todo, tries, weights, tried, set>>

Zeros(n) == [j \in 1 .. n |-> 0]
Lesser(m, n) == IF m < n THEN m ELSE n
RoundUp(n, unit) == ((n + unit - 1) \div unit) * unit

NewPool(bits, ceil, limit) ==
  [bits |-> bits, ceil |-> ceil, limit |-> limit, consumed |-> 0,
   requests |-> <<>>]

Init ==
  /\ pc = "gen"
  /\ pool = NewPool(<<>>, PoolSize, PoolLimit)
  /\ work = pool
  /\ inst = <<>> /\ got = <<>>
  /\ tactic = 0 /\ todo = 0 /\ tries = 0
  /\ weights = [a \in Actions |-> 0] /\ tried = {} /\ set = {}

-----------------------------------------------------------------------------
(* theft_autoshrink_bit_pool_random: the callback asks for bits.           *)

(* Twice, and twice again, until there is room for need bits.              *)
Grown(ceil, need) ==
  LET twice[k \in 0 .. need] == IF k = 0 THEN ceil ELSE 2 * twice[k - 1]
  IN  CHOOSE c \in {twice[k] : k \in 0 .. need} :
        c >= need /\ (c > ceil => c \div 2 < need)

(* lazily_fill_bit_pool: one more word, when not shrinking.                *)
FillWord(w) ==
  LET need == pool.consumed + Wants(got) IN
  /\ pc = "gen"
  /\ Wants(got) > 0
  /\ need > Len(pool.bits)
  /\ pool' = [pool EXCEPT !.bits = @ \o w, !.ceil = Grown(@, need)]
  /\ UNCHANGED <<pc, inst, work, got, tactic, todo, tries, modelVars>>

Wide(size) == size > WordBits

(***************************************************************************)
(* What the buffer of the next request may hold.  theft_random_bits serves *)
(* a word at most, and from a word of its own that is zero; a bulk request *)
(* of any size, and each one for more, is into the callback's buffer.      *)
(***************************************************************************)
Buffers == IF Bulk(got) \/ Wide(Wants(got)) THEN Garbage ELSE {0}

(* The bits of a request for n that are inside the pool's limit.           *)
Grant(p, n) == Lesser(n, p.limit - p.consumed)

(* A bug: the copy begins at the start of the pool.                        *)
AnswerFromStart(p, n, held) ==
  [j \in 1 .. n |-> IF j <= Grant(p, n) THEN p.bits[j] ELSE 0]

(***************************************************************************)
(* What a request for n bits leaves in a buffer.  fill_buf clears the words*)
(* it copies granted bits to, and only those.  At the end of the pool      *)
(* memset is told the number of words, and clears as many bytes: the rest  *)
(* is what the buffer held.                                                *)
(***************************************************************************)
Answer(p, n, held) ==
  LET m == Grant(p, n)
      words == RoundUp(IF m = 0 THEN n ELSE m, WordBits) \div WordBits
      cleared == words * (IF m = 0 THEN ByteBits ELSE WordBits)
  IN  [j \in 1 .. n |->
         IF j <= m THEN p.bits[p.consumed + j]
         ELSE IF j <= cleared THEN 0 ELSE held]

(* A bug: the request is recorded as it was made, beyond the limit.        *)
ServeWhole(p, n) ==
  IF Grant(p, n) = 0 THEN p
  ELSE [p EXCEPT !.requests = Append(@, n), !.consumed = @ + Grant(p, n)]

(* append_request and fill_buf; past the limit nothing is recorded.        *)
Serve(p, n) ==
  LET m == Grant(p, n) IN
  IF m = 0 THEN p
  ELSE [p EXCEPT !.requests = Append(@, m), !.consumed = @ + m]

Request(held) ==
  LET n == Wants(got) IN
  /\ n > 0
  /\ \/ /\ pc = "gen"
        /\ pool.consumed + n <= Len(pool.bits)
        /\ got' = got \o Answer(pool, n, held)
        /\ pool' = Serve(pool, n)
        /\ UNCHANGED work
     \/ /\ pc = "regen"
        /\ got' = got \o Answer(work, n, held)
        /\ work' = Serve(work, n)
        /\ UNCHANGED pool
  /\ UNCHANGED <<pc, inst, tactic, todo, tries, modelVars>>

(* No callback is running, and p is the only pool.                         *)
Only(p) == work' = p /\ got' = <<>>

(* theft_autoshrink_alloc returns; ERROR too when there is no memory.      *)
Generated(r) ==
  /\ pc = "gen"
  /\ r = "OK" => Wants(got) = 0
  /\ IF r = "OK" THEN pc' = "ready" /\ inst' = got
                 ELSE pc' = "over" /\ UNCHANGED inst
  /\ Only(pool)
  /\ UNCHANGED <<pool, tactic, todo, tries, modelVars>>

-----------------------------------------------------------------------------
(* theft_autoshrink_shrink.                                                *)

(* build_index: where each request begins, and where the last one ends.    *)
Index(p) ==
  LET at[k \in 1 .. Len(p.requests) + 1] ==
        IF k = 1 THEN 0 ELSE at[k - 1] + p.requests[k - 1]
  IN  at

Span(p, k) == Index(p)[k] + 1 .. Index(p)[k + 1]

NoMoreTactics ==
  /\ pc = "ready"
  /\ tactic >= MaxFailed
  /\ pc' = "over"
  /\ UNCHANGED <<pool, inst, work, got, tactic, todo, tries, modelVars>>

(* No memory for the index or the copy: THEFT_SHRINK_ERROR.                *)
CopyFails ==
  /\ pc = "ready"
  /\ tactic < MaxFailed
  /\ pc' = "over"
  /\ UNCHANGED <<pool, inst, work, got, tactic, todo, tries, modelVars>>

(* init_model, when there are no weights yet, and the flags cleared.       *)
InitModel ==
  /\ weights' = IF weights["DROP"] = 0 THEN First ELSE weights
  /\ tried' = {}

(* A bug: the last byte that is not zero goes too.                         *)
TruncateMore(p) ==
  LET ones == {j \in 1 .. Len(p.bits) : p.bits[j] = 1}
      last == IF ones = {} THEN 0 ELSE CHOOSE j \in ones : \A k \in ones : k <= j
      size == ((last - 1) \div ByteBits) * ByteBits
  IN  IF ones = {} THEN [p EXCEPT !.bits = <<>>, !.limit = 0]
      ELSE [p EXCEPT !.bits = SubSeq(@, 1, size), !.limit = Lesser(@, size)]

(***************************************************************************)
(* truncate_trailing_zero_bytes.  The copy's memory was cleared, so that   *)
(* the rest of its last byte is zero.                                      *)
(***************************************************************************)
Truncate(p) ==
  LET ones == {j \in 1 .. Len(p.bits) : p.bits[j] = 1}
      last == IF ones = {} THEN 0 ELSE CHOOSE j \in ones : \A k \in ones : k <= j
      size == RoundUp(last, ByteBits)
  IN  [p EXCEPT !.bits = [j \in 1 .. size |-> IF j <= Len(@) THEN @[j] ELSE 0],
                !.limit = Lesser(@, size)]

(* The callback builds another instance from p: alloc_from_bit_pool.       *)
Rebuild(p) == pc' = "regen" /\ work' = Truncate(p) /\ got' = <<>>

(* A copy of the pool with other bits and nothing consumed.                *)
Copy(bits) == NewPool(bits, RoundUp(Len(pool.bits), WordBits), pool.limit)

(* The positions dropped of request k: all, or a piece of a wide one.      *)
Cuts(p, k) ==
  LET size == p.requests[k]
      off == Index(p)[k]
  IN  IF ~ Wide(size) THEN {Span(p, k)}
      ELSE {off + o + 1 .. off + Lesser(o + s + 1, size) :
              o \in 0 .. size - 1, s \in 0 .. size - 1}

(* The consumed bits that are not dropped.                                 *)
Kept(p, gone) ==
  LET upTo[j \in 0 .. p.consumed] ==
        IF j = 0 THEN <<>>
        ELSE IF j \in gone THEN upTo[j - 1] ELSE Append(upTo[j - 1], p.bits[j])
  IN  upTo[p.consumed]

(* should_drop: by chance, with odds above 0 when there are requests.      *)
MayDrop(ws) == ws["DROP"] > 0 /\ pool.requests # <<>>

(***************************************************************************)
(* drop_from_bit_pool: requests, or pieces of them.  One is always chosen, *)
(* but for the draw that is DO_NOT_DROP, so it may be none at all.         *)
(***************************************************************************)
Drop(D) ==
  /\ pc = "ready"
  /\ tactic < MaxFailed
  /\ D \subseteq 1 .. Len(pool.requests)
  /\ InitModel
  /\ MayDrop(weights')
  /\ set' = {"DROP"}
  /\ \E cut \in [D -> UNION {Cuts(pool, k) : k \in D}] :
       /\ \A k \in D : cut[k] \in Cuts(pool, k)
       /\ Rebuild(Copy(Kept(pool, UNION {cut[k] : k \in D})))
  /\ UNCHANGED <<pool, inst, tactic, todo, tries>>

(* How many changes mutate_bit_pool may choose to make.                    *)
ChangeCounts(p) ==
  LET n == Len(p.requests)
      most == CHOOSE m \in MaxChanges .. MaxChanges + n :
                2^m >= n /\ \A l \in MaxChanges .. m - 1 : 2^l < n
      small == \A k \in 1 .. n : ~ Wide(p.requests[k])
  IN  {IF small THEN Lesser(c, n) ELSE c : c \in 1 .. most + 1}

MutateBegins(c) ==
  /\ pc = "ready"
  /\ tactic < MaxFailed
  /\ c \in ChangeCounts(pool)
  /\ InitModel
  /\ set' = {}
  /\ work' = Copy(pool.bits)
  /\ todo' = c /\ tries' = Retries * c
  /\ pc' = "mutate"
  /\ UNCHANGED <<pool, inst, got, tactic>>

(* Half of the bits that were not consumed stay available.                 *)
MutateEnds ==
  /\ pc = "mutate"
  /\ todo = 0 \/ tries = 0
  /\ Rebuild([work EXCEPT !.limit = Lesser(@,
                pool.consumed + (Len(pool.bits) - pool.consumed) \div 2)])
  /\ todo' = 0 /\ tries' = 0
  /\ UNCHANGED <<pool, inst, tactic, modelVars>>

-----------------------------------------------------------------------------
(* choose_and_mutate_request.                                              *)

(* As numbers, least significant bit first.                                *)
Less(a, b) ==
  \E j \in 1 .. Len(a) :
    a[j] < b[j] /\ \A k \in j + 1 .. Len(a) : a[k] = b[k]

(* The bits as they were, or with those after off replaced.                *)
Read(bits, off, len) == SubSeq(bits, off + 1, off + len)
Write(bits, off, new) ==
  [j \in 1 .. Len(bits) |->
     IF j \in off + 1 .. off + Len(new) THEN new[j - off] ELSE bits[j]]

(* The part of a request that is changed: all, or less than a word of it.  *)
Regions(size) ==
  IF ~ Wide(size) THEN {<<0, size>>}
  ELSE {<<o, Lesser(n, size - o)>> : o \in 0 .. size - 1, n \in 0 .. WordBits - 1}

(* bits >> shift.                                                          *)
Shifted(b) ==
  {[j \in 1 .. Len(b) |-> IF j + s <= Len(b) THEN b[j + s] ELSE 0] :
     s \in 1 .. MaxShift}

(***************************************************************************)
(* The or of two random masks; one that is all ones, which only a mask of  *)
(* a whole word can be, is anded with -(1 << one_bit).                     *)
(***************************************************************************)
ClearLowBits(n) ==
  {[j \in 1 .. n |-> IF j <= o THEN 0 ELSE 1] : o \in 0 .. n - 1}
Masks(n) ==
  IF n < WordBits THEN Strings(n)
  ELSE {m \in Strings(n) : \E j \in 1 .. n : m[j] = 0} \union ClearLowBits(n)

Masked(b, size) ==
  {[j \in 1 .. Len(b) |-> b[j] * m[j]] : m \in Masks(Lesser(size, WordBits))}

(* bits - (sub % bits), or one less when that is no change; zero stays.    *)
Subtracted(b) ==
  LET zero == Zeros(Len(b))
      one == [zero EXCEPT ![1] = 1]
  IN  IF b = zero THEN {b}
      ELSE {c \in Strings(Len(b)) : Less(c, b) /\ (c = zero => b = one)}

(* Shift, mask or subtract in a region of request k.                       *)
Altered(bits, k, kind) ==
  LET size == pool.requests[k]
      off == Index(pool)[k]
      New(b) == IF b = <<>> THEN {b}
                ELSE CASE kind = "SHIFT" -> Shifted(b)
                       [] kind = "MASK"  -> Masked(b, size)
                       [] OTHER          -> Subtracted(b)
  IN  UNION {{Write(bits, off + r[1], c) : c \in New(Read(bits, off + r[1], r[2]))} :
               r \in Regions(size)}

(* A bug: the first request of the same size is swapped, larger or not.    *)
FirstOfSize(bits, k) ==
  {i \in k + 1 .. Len(pool.requests) : pool.requests[i] = pool.requests[k]}

(* The later requests of the same size as k that have a smaller value.     *)
SmallerLater(bits, k) ==
  LET at == Index(pool)
      size == pool.requests[k]
  IN  {i \in k + 1 .. Len(pool.requests) :
         /\ pool.requests[i] = size
         /\ Less(Read(bits, at[i], size), Read(bits, at[k], size))}

SwapAt(bits, a, b, len) ==
  Write(Write(bits, a, Read(bits, b, len)), b, Read(bits, a, len))

(***************************************************************************)
(* Swap request k with the first smaller one behind it, if any, or two     *)
(* separate pieces of a wide request, if the second is the smaller one.    *)
(***************************************************************************)
Swapped(bits, k) ==
  LET at == Index(pool)
      size == pool.requests[k]
      later == SmallerLater(bits, k)
      Pieces(n) == {q \in (0 .. size - n - 1) \X (0 .. size - 2 * n - 1) :
                      /\ q[1] + n <= q[2] \/ q[2] + n <= q[1]
                      /\ Less(Read(bits, at[k] + q[2], n), Read(bits, at[k] + q[1], n))}
  IN  CASE Wide(size) ->
             {bits} \union UNION {
               {SwapAt(bits, at[k] + q[1], at[k] + q[2], n) : q \in Pieces(n)} :
               n \in {m \in 1 .. WordBits - 1 : 2 * m < size}}
        [] ~ Wide(size) /\ later = {} -> {bits}
        [] OTHER ->
             {SwapAt(bits, at[k], at[i], size) :
                i \in {x \in later : \A y \in later : x <= y}}

(* get_weighted_mutation: any kind that has weight.                        *)
MayPick(kind) == weights[kind] > 0

(* One try: some request, some kind of mutation.                           *)
MutateTry(kind) ==
  /\ pc = "mutate"
  /\ todo > 0 /\ tries > 0
  /\ MayPick(kind)
  /\ tries' = tries - 1
  /\ tried' = tried \union {kind}
  /\ \E k \in 1 .. Len(pool.requests) :
       \E new \in (IF kind = "SWAP" THEN Swapped(work.bits, k)
                                    ELSE Altered(work.bits, k, kind)) :
         /\ work' = [work EXCEPT !.bits = new]
         /\ IF new = work.bits
            THEN UNCHANGED <<todo, set>>
            ELSE todo' = todo - 1 /\ set' = set \union {kind}
  /\ UNCHANGED <<pc, pool, inst, got, tactic, weights>>

-----------------------------------------------------------------------------
(* What becomes of the copy.                                               *)

(* attempt_to_shrink_arg: no progress, the next tactic.                    *)
NextTactic == pc' = "ready" /\ tactic' = tactic + 1

(***************************************************************************)
(* The callback returns: an instance to be tried, a dead end, an error.    *)
(***************************************************************************)
Rebuilt(r) ==
  /\ pc = "regen"
  /\ r = "OK" => Wants(got) = 0
  /\ CASE r = "OK"   -> pc' = "try" /\ UNCHANGED <<tactic, work, got>>
       [] r = "SKIP" -> NextTactic /\ Only(pool)
       [] OTHER      -> pc' = "over" /\ Only(pool) /\ UNCHANGED tactic
  /\ UNCHANGED <<pool, inst, todo, tries, modelVars>>

(* A duplicate, by its hash: the property is not called.                   *)
Duplicate ==
  /\ pc = "try"
  /\ NextTactic
  /\ Only(pool)
  /\ UNCHANGED <<pool, inst, todo, tries, modelVars>>

(* A bug: the weights are not kept within their range.                     *)
AdjustUnclamped(w, a, delta) ==
  LET mod == 2^WeightWidth IN
  IF a \in set THEN (w + delta) % mod
  ELSE IF a \in tried /\ delta > 0 THEN (w - delta) % mod ELSE w

(* A bug: what had no effect is made more likely by a passing instance.    *)
AdjustEitherWay(w, a, delta) ==
  LET mod == 2^WeightWidth
      nv == IF a \in set THEN (w + delta) % mod
            ELSE IF a \in tried THEN (w - delta) % mod ELSE 0
  IN  IF nv = 0 THEN w
      ELSE IF nv > Most[a] THEN Most[a]
      ELSE IF nv < Least[a] THEN Least[a] ELSE nv

(* adjust, in the arithmetic of uint8_t; 0 stands for "no change".         *)
Adjust(w, a, delta) ==
  LET mod == 2^WeightWidth
      nv == IF a \in set THEN (w + delta) % mod
            ELSE IF a \in tried /\ delta > 0 THEN (w - delta) % mod ELSE 0
  IN  IF nv = 0 THEN w
      ELSE IF nv > Most[a] THEN Most[a]
      ELSE IF nv < Least[a] THEN Least[a] ELSE nv

(* theft_autoshrink_update_model: nothing to learn from what had no effect.*)
Update(ws, delta) ==
  IF set = {} THEN ws ELSE [a \in Actions |-> Adjust(ws[a], a, delta)]

(***************************************************************************)
(* The property is called on the instance, and once more if a hook wants a *)
(* repetition: update_model hears of a first FAIL and of the last result.  *)
(***************************************************************************)
Judge(first, last) ==
  /\ pc = "try"
  /\ LET ws == IF first = "FAIL" THEN Update(weights, SmallStep) ELSE weights
     IN  weights' = Update(ws, IF last = "FAIL" THEN BigStep ELSE - BigStep)
  /\ IF last = "FAIL"
     THEN pool' = work /\ inst' = got /\ tactic' = 0 /\ pc' = "ready"
     ELSE NextTactic /\ UNCHANGED <<pool, inst>>
  /\ Only(IF last = "FAIL" THEN work ELSE pool)
  /\ UNCHANGED <<todo, tries, tried, set>>

-----------------------------------------------------------------------------
Over == pc = "over" /\ UNCHANGED vars

Next ==
  \/ \E w \in Words : FillWord(w)
  \/ \E held \in Buffers : Request(held)
  \/ \E r \in Gives : Generated(r) \/ Rebuilt(r)
  \/ NoMoreTactics \/ CopyFails
  \/ \E D \in SUBSET (1 .. Len(pool.requests)) : Drop(D)
  \/ \E c \in ChangeCounts(pool) : MutateBegins(c)
  \/ \E kind \in Kinds : MutateTry(kind)
  \/ MutateEnds
  \/ Duplicate
  \/ \E first, last \in {"PASS", "FAIL"} : Judge(first, last)
  \/ Over

Spec == Init /\ [][Next]_vars

-----------------------------------------------------------------------------
(* Properties.                                                             *)

(* No more is consumed of a pool than it has, nor more filled than fits.   *)
PoolOK(p) ==
  /\ p.bits \in Seq({0, 1}) /\ p.requests \in Seq(Nat \ {0})
  /\ p.consumed <= Len(p.bits) /\ Len(p.bits) <= p.ceil
  /\ p.consumed <= p.limit /\ p.limit <= PoolLimit

(***************************************************************************)
(* Every variable has its type, no request reads or writes outside a pool, *)
(* and weights that are set keep their range.                              *)
(***************************************************************************)
TypeOK ==
  /\ pc \in {"gen", "ready", "mutate", "regen", "try", "over"}
  /\ PoolOK(pool) /\ PoolOK(work)
  /\ inst \in Seq({0, 1}) /\ got \in Seq({0, 1})
  /\ tactic \in 0 .. MaxFailed
  /\ todo \in Nat /\ tries \in Nat
  /\ \/ \A a \in Actions : weights[a] = 0
     \/ \A a \in Actions : weights[a] \in Least[a] .. Most[a]
  /\ tried \subseteq Kinds /\ set \subseteq Actions

(* What theft_autoshrink_hash hashes: the consumed bits, then zeros.       *)
Hashed(p, j) == IF j <= p.consumed THEN p.bits[j] ELSE 0

(***************************************************************************)
(* An instance depends on nothing but the bits that its hash is made of:   *)
(* so a pool with the hash of one already tried builds the same instance,  *)
(* and may be skipped as a duplicate.                                      *)
(***************************************************************************)
InstanceIsHashed ==
  /\ pc \in {"ready", "mutate", "regen", "try"} =>
       \A j \in 1 .. Len(inst) : inst[j] = Hashed(pool, j)
  /\ pc \in {"regen", "try"} =>
       \A j \in 1 .. Len(got) : got[j] = Hashed(work, j)

(***************************************************************************)
(* The recorded requests cover exactly the consumed bits, which is what    *)
(* drops and mutations are aligned to (the assertion of                    *)
(* theft_autoshrink_shrink).                                               *)
(***************************************************************************)
RequestsCover ==
  \A p \in {pool, work} : Index(p)[Len(p.requests) + 1] = p.consumed

(***************************************************************************)
(* A copy that no mutation changed builds the instance again, although     *)
(* unconsumed bits and trailing zero bytes were cut off its pool: it has   *)
(* the same hash, and the filter keeps it from being called again.         *)
(***************************************************************************)
UnchangedRebuilds == pc = "try" /\ set = {} => got = inst

(***************************************************************************)
(* Mutations of requests of at most a word make the values of the requests *)
(* smaller, the first one that differs counting most.                      *)
(***************************************************************************)
MutationsDecrease ==
  LET Value(p, k) == Read(p.bits, Index(pool)[k], pool.requests[k])
      n == Len(pool.requests)
  IN  pc = "mutate" /\ set # {} /\ (\A k \in 1 .. n : ~ Wide(pool.requests[k])) =>
        \E k \in 1 .. n :
          /\ Less(Value(work, k), Value(pool, k))
          /\ \A l \in 1 .. k - 1 : Value(work, l) = Value(pool, l)

(***************************************************************************)
(* What the model learns has the right sign.  When the instance fails, the *)
(* actions that changed its bits become more likely, unless they are as    *)
(* likely as can be; nothing else ever does: not an action that came to    *)
(* nothing, nor one whose instance passed, be it after a first FAIL that   *)
(* was rewarded before a hook had the call repeated.                       *)
(***************************************************************************)
Learns ==
  pc = "try" /\ pc' # pc =>
    \A a \in Actions :
      IF a \in set /\ tactic' = 0
      THEN weights'[a] > weights[a] \/ weights[a] = Most[a]
      ELSE weights'[a] <= weights[a]
RewardsAreNotPenalties == [][Learns]_vars

(***************************************************************************)
(* Claimed by inc/theft.h of theft_random_bits_bulk: the buffer is zeroed  *)
(* before any bits are copied to it.                                       *)
(***************************************************************************)
BufferZeroed ==
  pc = "regen" => \A j \in work.consumed + 1 .. Len(got) : got[j] = 0

(***************************************************************************)
(* Claimed by a comment in choose_and_mutate_request: a mask of a whole    *)
(* word always clears at least one bit.  So it changes bits that are ones. *)
(***************************************************************************)
MaskClearsABit ==
  [][tried' \ tried = {"MASK"} /\ work.bits = [j \in 1 .. WordBits |-> 1]
       /\ pool.requests = <<WordBits>> => "MASK" \in set']_vars
=============================================================================
