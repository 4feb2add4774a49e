------------------------------- MODULE Bloom -------------------------------
(***************************************************************************)
(* The dynamic blocked bloom filter (src/src/theft_bloom.c) that remembers *)
(* which argument tuples the property was called on.  The data marked and  *)
(* checked is represented by its hash; a filter's bits by the set of those *)
(* that are set; a block's linked list by a sequence, oldest filter first, *)
(* so that its last element is the head of the list.                       *)
(***************************************************************************)
EXTENDS Integers, Sequences

CONSTANTS
  HashBits,      \* width of the hash: 64
  TopBlock2,     \* bits that choose the block: DEF_TOP_BLOCK_BITS
  MinFilter2,    \* bits of the first filter: DEF_MIN_FILTER_BITS
  HashCount,     \* HASH_COUNT
  Hashes,        \* the hashes of the tuples that occur
  MallocFails    \* TRUE iff malloc may return NULL

ASSUME WidthAssumption ==
  /\ HashBits \in Nat /\ TopBlock2 \in Nat /\ MinFilter2 \in Nat \ {0}
  /\ HashCount \in Nat \ {0}
  /\ HashBits - TopBlock2 - HashCount * MinFilter2 > 0
  /\ Hashes \subseteq Nat
  /\ MallocFails \in BOOLEAN

(* What 1 << n is, for any shift there is: the provers know no powers.     *)
ASSUME PowersAssumption == \A n \in 0 .. HashBits : 2^n \in Nat \ {0}

VARIABLES
  blocks,    \* the filters of each block
  marked,    \* history: the hashes marked
  asked,     \* the hash last marked or checked
  aborted    \* an assertion of theft_bloom_mark failed

vars == <<blocks, marked, asked, aborted>>

BlockIds == 0 .. 2^TopBlock2 - 1

(* A bug: the hash is shifted but not masked.                              *)
BitsUnmasked(h, size2) ==
  {h \div 2^(TopBlock2 + k * size2) : k \in 0 .. HashCount - 1}

(* The block, and the bits of a filter of 2^size2 bits, that a hash selects.*)
BlockOf(h) == h % 2^TopBlock2
BitsOf(h, size2) ==
  {(h \div 2^(TopBlock2 + k * size2)) % 2^size2 : k \in 0 .. HashCount - 1}

Init ==
  /\ blocks = [b \in BlockIds |-> <<>>]
  /\ marked = {}
  /\ asked = 0
  /\ aborted = FALSE

(* alloc_filter: all bits are clear.                                       *)
NewFilter(bits) == [size2 |-> bits, bits |-> {}]

Head2(chain) == chain[Len(chain)]

(* The filter has all the bits that h selects in it.                       *)
Matches(f, h) == BitsOf(h, f.size2) \subseteq f.bits

(* theft_bloom_check: some filter of the block matches.                    *)
Check(h) ==
  \E k \in 1 .. Len(blocks[BlockOf(h)]) : Matches(blocks[BlockOf(h)][k], h)

(* A bug: the assertion asks for the bits of the next size.                *)
FitsNext(size2) == HashBits - TopBlock2 - HashCount * (size2 + 1) > 0

(* "Must be able to do all checks with one 64 bit hash": the assertion.    *)
Fits(size2) == HashBits - TopBlock2 - HashCount * size2 > 0

(* A bug: the guard looks at the old size.                                 *)
MayGrowOld(size2) == TopBlock2 + HashCount * size2 <= HashBits

(* The guard of growing by one more bit.                                   *)
MayGrow(size2) == TopBlock2 + HashCount * (size2 + 1) <= HashBits

(* A bug: the oldest filter is the one that is marked.                     *)
SetBitsBehind(chain, h) ==
  [chain EXCEPT ![1] =
    [size2 |-> chain[1].size2,
     bits  |-> chain[1].bits \union BitsOf(h, chain[1].size2)]]

(* The front filter of chain with h's bits set.                            *)
SetBits(chain, h) ==
  [chain EXCEPT ![Len(chain)] =
    [size2 |-> Head2(chain).size2,
     bits  |-> Head2(chain).bits \union BitsOf(h, Head2(chain).size2)]]

(* A bug: the larger filter replaces the list.                             *)
GrowReplaces(chain, h) ==
  IF Matches(Head2(chain), h) /\ MayGrow(Head2(chain).size2)
  THEN <<NewFilter(Head2(chain).size2 + 1)>>
  ELSE SetBits(chain, h)

(* Marking changed nothing: a larger, empty filter goes in front.          *)
Grow(chain, h) ==
  IF Matches(Head2(chain), h) /\ MayGrow(Head2(chain).size2)
  THEN Append(SetBits(chain, h), NewFilter(Head2(chain).size2 + 1))
  ELSE SetBits(chain, h)

(* The block's filters when marking begins: the first is allocated lazily. *)
Chain(h) ==
  IF blocks[BlockOf(h)] = <<>> THEN <<NewFilter(MinFilter2)>>
                               ELSE blocks[BlockOf(h)]

(* theft_bloom_mark.                                                       *)
Mark(h) ==
  /\ ~ aborted
  /\ asked' = h
  /\ IF Fits(Head2(Chain(h)).size2)
     THEN /\ blocks' = [blocks EXCEPT ![BlockOf(h)] = Grow(Chain(h), h)]
          /\ marked' = marked \union {h}
          /\ UNCHANGED aborted
     ELSE /\ blocks' = [blocks EXCEPT ![BlockOf(h)] = Chain(h)]
          /\ aborted' = TRUE
          /\ UNCHANGED marked

(***************************************************************************)
(* theft_bloom_mark when malloc returns NULL: for the first filter nothing *)
(* is marked; for a larger one the bits are set all the same.              *)
(***************************************************************************)
MarkNoMemory(h) ==
  /\ MallocFails
  /\ ~ aborted
  /\ asked' = h
  /\ \/ /\ blocks[BlockOf(h)] = <<>>
        /\ UNCHANGED <<blocks, marked>>
     \/ /\ Fits(Head2(Chain(h)).size2)
        /\ Grow(Chain(h), h) # SetBits(Chain(h), h)
        /\ blocks' = [blocks EXCEPT ![BlockOf(h)] = SetBits(Chain(h), h)]
        /\ marked' = marked \union {h}
  /\ UNCHANGED aborted

(***************************************************************************)
(* What the callers do (run_step with theft_trial_run, and                 *)
(* attempt_to_shrink_arg): check first, and mark only what is not known.   *)
(***************************************************************************)
Ask(h) ==
  IF Check(h)
  THEN ~ aborted /\ asked' = h /\ UNCHANGED <<blocks, marked, aborted>>
  ELSE Mark(h)

Next == \E h \in Hashes : Mark(h) \/ MarkNoMemory(h)

(* Marks in any order, as the interface allows.                            *)
Spec == Init /\ [][Next]_vars

(* Marks as theft makes them; every tuple keeps coming up.                 *)
UseNext == \E h \in Hashes : Ask(h)
UseSpec == Init /\ [][UseNext]_vars
FairUseSpec == UseSpec /\ \A h \in Hashes : WF_vars(Ask(h))

-----------------------------------------------------------------------------
(* Properties.                                                             *)

(* A filter's bits lie inside its array of 2^size2 bits.                   *)
Filters == [size2 : 0 .. HashBits, bits : SUBSET Nat]
InBounds(f) == \A x \in f.bits : x < 2^f.size2

(* The blocks hold sequences of filters, marked inside their bounds.       *)
TypeOK ==
  /\ blocks \in [BlockIds -> Seq(Filters)]
  /\ \A b \in BlockIds : \A k \in 1 .. Len(blocks[b]) : InBounds(blocks[b][k])
  /\ marked \subseteq Hashes
  /\ asked \in Hashes \union {0}
  /\ aborted \in BOOLEAN

(***************************************************************************)
(* What was marked is found again, however the filters have grown since:   *)
(* the shrinker relies on it to end (test: "marked became unmarked").      *)
(***************************************************************************)
NoFalseNegatives == \A h \in marked : Check(h)

(***************************************************************************)
(* Along a block's list each filter is one bit larger than the next, from  *)
(* MinFilter2, and the hash has bits enough for all of them.               *)
(***************************************************************************)
ChainGrowsByOne ==
  \A b \in BlockIds : \A k \in 1 .. Len(blocks[b]) :
    /\ blocks[b][k].size2 = MinFilter2 + k - 1
    /\ TopBlock2 + HashCount * blocks[b][k].size2 <= HashBits

(***************************************************************************)
(* The assertion of theft_bloom_mark holds, if the bits after TopBlock2    *)
(* cannot be divided evenly among the hashes (55 bits for 4, by default).  *)
(***************************************************************************)
AssertionHolds == (HashBits - TopBlock2) % HashCount # 0 => ~ aborted

(***************************************************************************)
(* Only the front filter of a block changes; the ones behind are as they   *)
(* were when they were replaced, and none disappears.                      *)
(***************************************************************************)
OnlyFrontChanges ==
  [][\A b \in BlockIds :
       /\ Len(blocks[b]) <= Len(blocks'[b])
       /\ \A k \in 1 .. Len(blocks[b]) - 1 : blocks'[b][k] = blocks[b][k]]_vars

(***************************************************************************)
(* Used as theft uses it, a block never has a second filter: what is marked*)
(* was just found not to match, so that marking always changes a bit.      *)
(***************************************************************************)
NeverGrows == \A b \in BlockIds : Len(blocks[b]) <= 1

(* Every bit of the block's front filter is set, and it could be larger.   *)
Full(b) ==
  /\ blocks[b] # <<>>
  /\ 0 .. 2^Head2(blocks[b]).size2 - 1 \subseteq Head2(blocks[b]).bits
  /\ MayGrow(Head2(blocks[b]).size2)

(***************************************************************************)
(* Claimed by CHANGELOG.md: "the Bloom filter now resizes automatically".  *)
(* So a full block, where every tuple would be taken for a duplicate, does *)
(* not stay full while trials go on.                                       *)
(***************************************************************************)
ResizesWhenFull == \A b \in BlockIds : Full(b) ~> ~ Full(b)
=============================================================================
