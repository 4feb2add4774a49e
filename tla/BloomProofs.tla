---------------------------- MODULE BloomProofs ----------------------------
(***************************************************************************)
(* Proofs of the safety properties of Bloom, for every width of hash,      *)
(* block index and filter, and of why the filter never grows in use.       *)
(***************************************************************************)
EXTENDS Bloom, SequenceTheorems, TLAPS

(* The list of a block, as TypeOK and ChainGrowsByOne have it.             *)
GoodChain(c) ==
  /\ c \in Seq(Filters)
  /\ \A k \in 1 .. Len(c) :
       /\ InBounds(c[k])
       /\ c[k].size2 = MinFilter2 + k - 1
       /\ TopBlock2 + HashCount * c[k].size2 <= HashBits

(* Filters are never removed, shrunk or cleared.                           *)
Extends(old, new) ==
  /\ Len(old) <= Len(new)
  /\ \A k \in 1 .. Len(old) :
       /\ new[k].size2 = old[k].size2
       /\ old[k].bits \subseteq new[k].bits

Inv ==
  /\ blocks \in [BlockIds -> Seq(Filters)]
  /\ \A b \in BlockIds : GoodChain(blocks[b])
  /\ marked \subseteq Hashes
  /\ asked \in Hashes \union {0}
  /\ aborted \in BOOLEAN
  /\ NoFalseNegatives

(* A size for which the hash has bits enough is a size at all.             *)
LEMMA SizeFits ==
  ASSUME NEW s \in Nat, TopBlock2 + HashCount * s <= HashBits
  PROVE  /\ s \in 0 .. HashBits
         /\ \A k \in 0 .. HashCount - 1 : TopBlock2 + k * s \in 0 .. HashBits
<1>1. HashCount * s >= s
  BY WidthAssumption
<1>2. ASSUME NEW k \in 0 .. HashCount - 1
      PROVE  TopBlock2 + k * s \in 0 .. HashBits
  <2>1. k \in Nat /\ HashCount - k \in Nat
    BY WidthAssumption
  <2>2. k * s \in Nat /\ (HashCount - k) * s \in Nat
    BY <2>1
  <2>3. HashCount * s = k * s + (HashCount - k) * s
    BY <2>1, WidthAssumption
  <2> QED
    BY <2>2, <2>3, WidthAssumption
<1> QED
  BY <1>1, <1>2, WidthAssumption

(* The bits that a hash selects lie inside the filter, and there are some. *)
LEMMA BitsInside ==
  ASSUME NEW h \in Nat, NEW s \in Nat, TopBlock2 + HashCount * s <= HashBits
  PROVE  /\ BitsOf(h, s) \subseteq Nat
         /\ \A x \in BitsOf(h, s) : x < 2^s
         /\ BitsOf(h, s) # {}
<1>1. 2^s \in Nat \ {0}
  BY SizeFits, PowersAssumption
<1>2. ASSUME NEW k \in 0 .. HashCount - 1
      PROVE  /\ (h \div 2^(TopBlock2 + k * s)) % 2^s \in Nat
             /\ (h \div 2^(TopBlock2 + k * s)) % 2^s < 2^s
  <2>1. TopBlock2 + k * s \in 0 .. HashBits
    BY SizeFits
  <2> DEFINE d == 2^(TopBlock2 + k * s)
  <2>2. d \in Nat \ {0}
    BY <2>1, PowersAssumption
  <2>3. h \div d \in Nat
    <3> HIDE DEF d
    <3> QED
      BY <2>2
  <2> DEFINE q == h \div d
             m == 2^s
  <2> SUFFICES q % m \in Nat /\ q % m < m
    OBVIOUS
  <2>4. q \in Nat /\ m \in Nat \ {0}
    BY <2>3, <1>1
  <2> HIDE DEF q, m
  <2> QED
    BY <2>4
<1>3. 0 \in 0 .. HashCount - 1
  BY WidthAssumption
<1> QED
  BY <1>2, <1>3 DEF BitsOf

-----------------------------------------------------------------------------
(* The list that marking works on is good, and not empty.                  *)
LEMMA ChainGood ==
  ASSUME Inv, NEW h \in Hashes
  PROVE  /\ BlockOf(h) \in BlockIds
         /\ GoodChain(Chain(h))
         /\ Len(Chain(h)) \in Nat \ {0}
         /\ Extends(blocks[BlockOf(h)], Chain(h))
<1> DEFINE b == BlockOf(h)
           f == NewFilter(MinFilter2)
<1>1. b \in BlockIds
  <2> DEFINE n == 2^TopBlock2
  <2>1. n \in Nat \ {0} /\ h \in Nat
    BY PowersAssumption, SizeFits, WidthAssumption
  <2> SUFFICES h % n \in 0 .. n - 1
    BY DEF BlockOf, BlockIds
  <2> HIDE DEF n
  <2> QED
    BY <2>1
<1>2. GoodChain(blocks[b]) /\ blocks[b] \in Seq(Filters)
  BY <1>1 DEF Inv, GoodChain
<1>3. f \in Filters /\ f.size2 = MinFilter2 /\ InBounds(f)
  <2>1. MinFilter2 \in 0 .. HashBits
    BY SizeFits, WidthAssumption
  <2> QED
    BY <2>1 DEF NewFilter, Filters, InBounds
<1>4. CASE blocks[b] = <<>>
  <2>1. Chain(h) = <<f>>
    BY <1>4 DEF Chain
  <2>2. /\ <<f>> \in Seq(Filters)
        /\ Len(<<f>>) = 1
        /\ <<f>>[1] = f
    BY <1>3
  <2>3. GoodChain(<<f>>)
    BY <2>2, <1>3, WidthAssumption DEF GoodChain
  <2> QED
    BY <1>1, <1>4, <2>1, <2>2, <2>3 DEF Extends
<1>5. CASE blocks[b] # <<>>
  <2>1. Chain(h) = blocks[b]
    BY <1>5 DEF Chain
  <2>2. Len(blocks[b]) \in Nat \ {0}
    BY <1>5, <1>2
  <2> QED
    BY <1>1, <1>2, <2>1, <2>2 DEF Extends
<1> QED
  BY <1>4, <1>5

(* Setting bits keeps the list, and makes its head match.                  *)
LEMMA SetBitsGood ==
  ASSUME NEW c, GoodChain(c), Len(c) \in Nat \ {0}, NEW h \in Nat
  PROVE  /\ GoodChain(SetBits(c, h))
         /\ Len(SetBits(c, h)) = Len(c)
         /\ Extends(c, SetBits(c, h))
         /\ Matches(SetBits(c, h)[Len(c)], h)
         /\ \A k \in 1 .. Len(c) - 1 : SetBits(c, h)[k] = c[k]
<1> DEFINE n == Len(c)
           s == c[n].size2
           g == [size2 |-> s, bits |-> c[n].bits \union BitsOf(h, s)]
           d == SetBits(c, h)
<1>1. /\ c \in Seq(Filters) /\ n \in 1 .. Len(c)
      /\ c[n] \in Filters /\ InBounds(c[n])
      /\ TopBlock2 + HashCount * s <= HashBits
  BY DEF GoodChain
<1>2. s \in Nat /\ s \in 0 .. HashBits /\ c[n].bits \subseteq Nat
  BY <1>1 DEF Filters
<1>3. /\ BitsOf(h, s) \subseteq Nat
      /\ \A x \in BitsOf(h, s) : x < 2^s
  BY <1>1, <1>2, BitsInside
<1>4. g \in Filters
  BY <1>2, <1>3 DEF Filters
<1>5. InBounds(g)
  BY <1>1, <1>3 DEF InBounds
<1>6. d = [c EXCEPT ![n] = g]
  BY DEF SetBits, Head2
<1>7. /\ d \in Seq(Filters) /\ Len(d) = n
      /\ d[n] = g
      /\ \A k \in 1 .. n : k # n => d[k] = c[k]
  <2> HIDE DEF g, s, d
  <2> QED
    BY <1>1, <1>4, <1>6, ExceptSeq
<1>8. GoodChain(d)
  BY <1>1, <1>5, <1>7 DEF GoodChain
<1>9. Extends(c, d)
  BY <1>7 DEF Extends
<1>10. Matches(d[n], h)
  BY <1>7 DEF Matches
<1> QED
  BY <1>7, <1>8, <1>9, <1>10

(* So does growing, and some filter of the list matches.                   *)
LEMMA GrowGood ==
  ASSUME NEW c, GoodChain(c), Len(c) \in Nat \ {0}, NEW h \in Nat
  PROVE  /\ GoodChain(Grow(c, h))
         /\ Extends(c, Grow(c, h))
         /\ Matches(Grow(c, h)[Len(c)], h)
         /\ \A k \in 1 .. Len(c) - 1 : Grow(c, h)[k] = c[k]
<1> DEFINE n == Len(c)
           d == SetBits(c, h)
           f == NewFilter(c[n].size2 + 1)
<1>1. /\ GoodChain(d) /\ Len(d) = n /\ Extends(c, d)
      /\ Matches(d[n], h)
      /\ \A k \in 1 .. n - 1 : d[k] = c[k]
  BY SetBitsGood
<1>2. CASE Grow(c, h) = d
  BY <1>1, <1>2
<1>3. CASE MayGrow(c[n].size2) /\ Grow(c, h) = Append(d, f)
  <2> DEFINE e == Append(d, f)
  <2>1. /\ d \in Seq(Filters) /\ c[n].size2 = MinFilter2 + n - 1
        /\ c[n].size2 \in Nat
    BY <1>1, WidthAssumption DEF GoodChain
  <2>2. TopBlock2 + HashCount * (c[n].size2 + 1) <= HashBits
    BY <1>3 DEF MayGrow
  <2>3. c[n].size2 + 1 \in 0 .. HashBits
    BY <2>1, <2>2, SizeFits
  <2>4. f \in Filters /\ InBounds(f) /\ f.size2 = c[n].size2 + 1
    BY <2>3 DEF NewFilter, Filters, InBounds
  <2>5. /\ e \in Seq(Filters) /\ Len(e) = n + 1
        /\ e[n + 1] = f
        /\ \A k \in 1 .. n : e[k] = d[k]
    BY <2>1, <2>4, <1>1
  <2>6. GoodChain(e)
    <3> SUFFICES ASSUME NEW k \in 1 .. n + 1
                 PROVE  /\ InBounds(e[k])
                        /\ e[k].size2 = MinFilter2 + k - 1
                        /\ TopBlock2 + HashCount * e[k].size2 <= HashBits
      BY <2>5 DEF GoodChain
    <3>1. CASE k = n + 1
      <4>1. e[k] = f
        BY <3>1, <2>5
      <4>2. c[n].size2 + 1 = MinFilter2 + k - 1
        BY <3>1, <2>1, WidthAssumption
      <4> HIDE DEF e, f
      <4> QED
        BY <4>1, <4>2, <2>2, <2>4
    <3>2. CASE k \in 1 .. n
      <4> HIDE DEF e, d
      <4> QED
        BY <3>2, <2>5, <1>1 DEF GoodChain
    <3>3. k = n + 1 \/ k \in 1 .. n
      OBVIOUS
    <3> HIDE DEF e
    <3> QED
      BY <3>1, <3>2, <3>3
  <2>7. Extends(c, e)
    BY <1>1, <2>5 DEF Extends
  <2> QED
    BY <1>1, <1>3, <2>5, <2>6, <2>7
<1> QED
  BY <1>2, <1>3 DEF Grow, Head2

-----------------------------------------------------------------------------
(* Replacing a block's list by an extension of it loses nothing marked.    *)
LEMMA BlockExtended ==
  ASSUME Inv, NEW b \in BlockIds, NEW c, GoodChain(c), Extends(blocks[b], c),
         blocks' = [blocks EXCEPT ![b] = c]
  PROVE  /\ blocks' \in [BlockIds -> Seq(Filters)]
         /\ \A a \in BlockIds : GoodChain(blocks[a])'
         /\ \A h \in marked : Check(h)'
<1>1. /\ blocks' \in [BlockIds -> Seq(Filters)]
      /\ blocks'[b] = c
      /\ \A a \in BlockIds : a # b => blocks'[a] = blocks[a]
  BY DEF Inv, GoodChain
<1>2. \A a \in BlockIds : GoodChain(blocks[a])'
  BY <1>1 DEF Inv, GoodChain
<1>3. ASSUME NEW h \in marked
      PROVE  Check(h)'
  <2> DEFINE a == BlockOf(h)
  <2>1. Check(h) /\ h \in Hashes
    BY DEF Inv, NoFalseNegatives
  <2>2. a \in BlockIds
    BY <2>1, ChainGood
  <2>3. PICK k \in 1 .. Len(blocks[a]) : Matches(blocks[a][k], h)
    BY <2>1 DEF Check
  <2>4. CASE a # b
    BY <2>2, <2>3, <2>4, <1>1 DEF Check
  <2>5. CASE a = b
    <3>1. blocks[b] \in Seq(Filters) /\ c \in Seq(Filters)
      BY DEF Inv, GoodChain
    <3>2. k \in 1 .. Len(c) /\ Matches(c[k], h)
      BY <2>3, <2>5, <3>1 DEF Extends, Matches
    <3> QED
      BY <3>2, <2>5, <1>1 DEF Check
  <2> QED
    BY <2>4, <2>5
<1> QED
  BY <1>1, <1>2, <1>3

(* Before the first mark nothing is allocated.                             *)
LEMMA InitInv == Init => Inv
<1> SUFFICES ASSUME Init PROVE Inv
  OBVIOUS
<1>1. \A b \in BlockIds : blocks[b] = <<>> /\ GoodChain(blocks[b])
  BY DEF Init, GoodChain
<1>2. blocks \in [BlockIds -> Seq(Filters)]
  <2>1. <<>> \in Seq(Filters)
    OBVIOUS
  <2> QED
    BY <2>1, Zenon DEF Init
<1> QED
  BY <1>1, <1>2 DEF Init, Inv, NoFalseNegatives

(* Whatever is marked, the invariant is kept.                              *)
LEMMA MarkStep == ASSUME Inv, NEW h \in Hashes, Mark(h) PROVE Inv'
<1> DEFINE b == BlockOf(h)
           c == Chain(h)
           g == Grow(c, h)
<1>1. /\ b \in BlockIds /\ GoodChain(c) /\ Len(c) \in Nat \ {0}
      /\ Extends(blocks[b], c)
  BY ChainGood
<1>2. h \in Nat
  BY WidthAssumption
<1>3. /\ GoodChain(g) /\ Extends(c, g) /\ Matches(g[Len(c)], h)
  BY <1>1, <1>2, GrowGood
<1>4. CASE ~ Fits(Head2(c).size2)
  <2>1. /\ blocks' = [blocks EXCEPT ![b] = c] /\ marked' = marked
        /\ aborted' = TRUE /\ asked' = h
    BY <1>4 DEF Mark
  <2> QED
    BY <1>1, <2>1, BlockExtended DEF Inv, NoFalseNegatives
<1>5. CASE Fits(Head2(c).size2)
  <2>1. /\ blocks' = [blocks EXCEPT ![b] = g] /\ marked' = marked \union {h}
        /\ aborted' = aborted /\ asked' = h
    BY <1>5 DEF Mark
  <2>2. Extends(blocks[b], g)
    <3>1. /\ blocks[b] \in Seq(Filters) /\ c \in Seq(Filters)
          /\ g \in Seq(Filters)
      BY <1>1, <1>3 DEF Inv, GoodChain
    <3> HIDE DEF c, g
    <3> QED
      BY <1>1, <1>3, <3>1 DEF Extends
  <2>3. /\ blocks' \in [BlockIds -> Seq(Filters)]
        /\ \A a \in BlockIds : GoodChain(blocks[a])'
        /\ \A x \in marked : Check(x)'
    BY <1>1, <1>3, <2>1, <2>2, BlockExtended
  <2>4. Check(h)'
    <3>1. blocks'[b] = g
      BY <1>1, <2>1 DEF Inv
    <3>2. Len(c) \in 1 .. Len(g)
      BY <1>1, <1>3 DEF Extends, GoodChain
    <3> QED
      BY <1>3, <3>1, <3>2 DEF Check
  <2> QED
    BY <2>1, <2>3, <2>4 DEF Inv, NoFalseNegatives
<1> QED
  BY <1>4, <1>5

(* Neither does a malloc that fails break it.                              *)
LEMMA MarkNoMemoryStep ==
  ASSUME Inv, NEW h \in Hashes, MarkNoMemory(h) PROVE Inv'
<1> DEFINE b == BlockOf(h)
           c == Chain(h)
           d == SetBits(c, h)
<1>1. /\ b \in BlockIds /\ GoodChain(c) /\ Len(c) \in Nat \ {0}
      /\ Extends(blocks[b], c)
  BY ChainGood
<1>2. h \in Nat
  BY WidthAssumption
<1>3. /\ GoodChain(d) /\ Len(d) = Len(c) /\ Extends(c, d)
      /\ Matches(d[Len(c)], h)
  BY <1>1, <1>2, SetBitsGood
<1>4. CASE UNCHANGED <<blocks, marked>>
  BY <1>4 DEF MarkNoMemory, Inv, NoFalseNegatives, Check
<1>5. CASE /\ blocks' = [blocks EXCEPT ![b] = d]
           /\ marked' = marked \union {h}
  <2>1. Extends(blocks[b], d)
    <3>1. /\ blocks[b] \in Seq(Filters) /\ c \in Seq(Filters)
          /\ d \in Seq(Filters)
      BY <1>1, <1>3 DEF Inv, GoodChain
    <3> HIDE DEF c, d
    <3> QED
      BY <1>1, <1>3, <3>1 DEF Extends
  <2>2. /\ blocks' \in [BlockIds -> Seq(Filters)]
        /\ \A a \in BlockIds : GoodChain(blocks[a])'
        /\ \A x \in marked : Check(x)'
    BY <1>1, <1>3, <1>5, <2>1, BlockExtended
  <2>3. Check(h)'
    <3>1. blocks'[b] = d /\ Len(c) \in 1 .. Len(d)
      BY <1>1, <1>3, <1>5 DEF Inv
    <3> QED
      BY <1>3, <3>1 DEF Check
  <2>4. asked' = h /\ aborted' = aborted
    BY DEF MarkNoMemory
  <2> QED
    BY <1>5, <2>2, <2>3, <2>4 DEF Inv, NoFalseNegatives
<1> QED
  BY <1>4, <1>5 DEF MarkNoMemory

-----------------------------------------------------------------------------
(* Every step keeps the invariant.                                         *)
LEMMA InvStep == Inv /\ [Next]_vars => Inv'
<1> SUFFICES ASSUME Inv, [Next]_vars PROVE Inv'
  OBVIOUS
<1>1. ASSUME NEW h \in Hashes, Mark(h) PROVE Inv'
  BY <1>1, MarkStep
<1>2. ASSUME NEW h \in Hashes, MarkNoMemory(h) PROVE Inv'
  BY <1>2, MarkNoMemoryStep
<1>3. CASE UNCHANGED vars
  BY <1>3 DEF vars, Inv, NoFalseNegatives, Check
<1> QED
  BY <1>1, <1>2, <1>3 DEF Next

(* So it holds whatever is marked, and in whatever order.                  *)
LEMMA Invariance == Spec => []Inv
  BY InitInv, InvStep, PTL DEF Spec

(***************************************************************************)
(* The variables of the filter keep their types, and no bit outside a      *)
(* filter's array is ever set by theft_bloom_mark.                         *)
(***************************************************************************)
THEOREM BloomTypeCorrect == Spec => []TypeOK
<1>1. Inv => TypeOK
  BY DEF Inv, TypeOK, GoodChain
<1> QED
  BY Invariance, <1>1, PTL

(***************************************************************************)
(* theft_bloom_check finds everything that theft_bloom_mark has marked,    *)
(* however often the filters have grown and malloc has failed.             *)
(***************************************************************************)
THEOREM MarkedIsFound == Spec => []NoFalseNegatives
<1>1. Inv => NoFalseNegatives
  BY DEF Inv
<1> QED
  BY Invariance, <1>1, PTL

(***************************************************************************)
(* The filters of a block have the sizes theft_bloom_mark means them to    *)
(* have, and the hash has bits for all the checks.                         *)
(***************************************************************************)
THEOREM ChainsGrowByOne == Spec => []ChainGrowsByOne
<1>1. Inv => ChainGrowsByOne
  BY DEF Inv, GoodChain, ChainGrowsByOne
<1> QED
  BY Invariance, <1>1, PTL

(***************************************************************************)
(* With widths like the default ones the assertion of theft_bloom_mark     *)
(* holds, although the guard of growing is weaker than it by one.          *)
(***************************************************************************)
THEOREM AssertionNeverFails == Spec => []AssertionHolds
<1>1. Init => AssertionHolds
  BY DEF Init, AssertionHolds
<1>2. Inv /\ AssertionHolds /\ [Next]_vars => AssertionHolds'
  <2> SUFFICES ASSUME Inv, AssertionHolds, [Next]_vars,
                      (HashBits - TopBlock2) % HashCount # 0
               PROVE  ~ aborted'
    BY DEF AssertionHolds
  <2>1. ~ aborted
    BY DEF AssertionHolds
  <2>2. ASSUME NEW h \in Hashes, Mark(h) PROVE ~ aborted'
    <3> DEFINE c == Chain(h)
               s == c[Len(c)].size2
    <3>1. GoodChain(c) /\ Len(c) \in Nat \ {0}
      BY ChainGood
    <3>2. s \in Nat /\ TopBlock2 + HashCount * s <= HashBits
      BY <3>1, WidthAssumption DEF GoodChain
    <3>3. HashBits - TopBlock2 # HashCount * s
      <4>1. \A q \in Nat : (HashCount * q) % HashCount = 0
        BY WidthAssumption
      <4> HIDE DEF s
      <4> QED
        BY <4>1, <3>2
    <3>4. Fits(s)
      <4> HIDE DEF s
      <4> QED
        BY <3>2, <3>3, WidthAssumption DEF Fits
    <3> QED
      BY <2>1, <2>2, <3>4 DEF Mark, Head2
  <2>3. ASSUME NEW h \in Hashes, MarkNoMemory(h) PROVE ~ aborted'
    BY <2>1, <2>3 DEF MarkNoMemory
  <2>4. CASE UNCHANGED vars
    BY <2>1, <2>4 DEF vars
  <2> QED
    BY <2>2, <2>3, <2>4 DEF Next
<1> QED
  BY Invariance, <1>1, <1>2, PTL DEF Spec

(***************************************************************************)
(* theft_bloom_mark writes to no filter but the first of a block's list,   *)
(* and unlinks none.                                                       *)
(***************************************************************************)
THEOREM OnlyTheFrontChanges == Spec => OnlyFrontChanges
<1> DEFINE Kept(b) == /\ Len(blocks[b]) <= Len(blocks'[b])
                      /\ \A k \in 1 .. Len(blocks[b]) - 1 :
                           blocks'[b][k] = blocks[b][k]
<1>1. Inv /\ [Next]_vars => [\A b \in BlockIds : Kept(b)]_vars
  <2> SUFFICES ASSUME Inv, Next, NEW a \in BlockIds PROVE Kept(a)
    BY Zenon
  <2>0. blocks[a] \in Seq(Filters)
    BY DEF Inv
  <2>1. CASE blocks'[a] = blocks[a]
    BY <2>0, <2>1
  <2>2. ASSUME NEW h \in Hashes, Mark(h) \/ MarkNoMemory(h) PROVE Kept(a)
    <3> DEFINE b == BlockOf(h)
               c == Chain(h)
    <3>1. /\ b \in BlockIds /\ GoodChain(c) /\ Len(c) \in Nat \ {0}
          /\ h \in Nat
      BY ChainGood, WidthAssumption
    <3>2. CASE a # b \/ UNCHANGED blocks
      BY <2>1, <2>2, <3>1, <3>2 DEF Mark, MarkNoMemory, Inv
    <3>3. ASSUME NEW d \in {c, SetBits(c, h), Grow(c, h)}, a = b, blocks'[b] = d
          PROVE  Kept(a)
      <4>1. /\ d \in Seq(Filters) /\ Len(c) <= Len(d)
            /\ \A k \in 1 .. Len(c) - 1 : d[k] = c[k]
        <5>1. d = c \/ (d = SetBits(c, h)) \/ (d = Grow(c, h))
          BY <3>3
        <5>2. GoodChain(d) /\ Extends(c, d) /\ \A k \in 1 .. Len(c) - 1 : d[k] = c[k]
          <6>1. CASE d = c
            BY <3>1, <6>1 DEF Extends, GoodChain
          <6>2. CASE d = SetBits(c, h)
            BY <3>1, <6>2, SetBitsGood
          <6>3. CASE d = Grow(c, h)
            BY <3>1, <6>3, GrowGood
          <6> QED
            BY <5>1, <6>1, <6>2, <6>3
        <5> QED
          BY <5>2 DEF Extends, GoodChain
      <4>2. CASE blocks[b] = <<>>
        BY <3>3, <4>1, <4>2
      <4>3. CASE blocks[b] = c
        BY <3>3, <4>1, <4>3
      <4> QED
        BY <4>2, <4>3 DEF Chain
    <3>4. CASE a = b /\ ~ UNCHANGED blocks
      <4>1. \/ blocks' = [blocks EXCEPT ![b] = c]
            \/ blocks' = [blocks EXCEPT ![b] = SetBits(c, h)]
            \/ blocks' = [blocks EXCEPT ![b] = Grow(c, h)]
        BY <2>2, <3>4 DEF Mark, MarkNoMemory
      <4>2. blocks'[b] \in {c, SetBits(c, h), Grow(c, h)}
        BY <3>1, <4>1 DEF Inv
      <4> QED
        BY <3>3, <3>4, <4>2
    <3> QED
      BY <3>2, <3>4
  <2> QED
    BY <2>2 DEF Next
<1> QED
  BY Invariance, <1>1, PTL DEF Spec, OnlyFrontChanges

-----------------------------------------------------------------------------
(***************************************************************************)
(* Marking what theft_bloom_check has just not found changes a bit of the  *)
(* front filter, so that a block never gets a second one.                  *)
(***************************************************************************)
THEOREM FilterNeverGrows == UseSpec => []NeverGrows
<1> DEFINE UseInv == Inv /\ NeverGrows
<1>1. Init => UseInv
  BY InitInv DEF Init, NeverGrows
<1>2. UseInv /\ [UseNext]_vars => UseInv'
  <2> SUFFICES ASSUME Inv, NeverGrows, [UseNext]_vars PROVE UseInv'
    OBVIOUS
  <2>1. ASSUME NEW h \in Hashes, Check(h), Ask(h) PROVE UseInv'
    BY <2>1 DEF Ask, Inv, NoFalseNegatives, Check, NeverGrows
  <2>2. ASSUME NEW h \in Hashes, ~ Check(h), Mark(h) PROVE UseInv'
    <3> DEFINE b == BlockOf(h)
               c == Chain(h)
    <3>1. Inv'
      BY <2>2, MarkStep
    <3>2. /\ b \in BlockIds /\ GoodChain(c) /\ Len(c) \in Nat \ {0}
          /\ h \in Nat /\ blocks[b] \in Seq(Filters)
      BY ChainGood, WidthAssumption DEF Inv
    <3>3. Len(c) = 1
      BY <3>2 DEF Chain, NeverGrows
    <3>4. ~ Matches(Head2(c), h)
      <4>1. CASE blocks[b] = <<>>
        <5>1. Head2(c) = NewFilter(MinFilter2)
          BY <4>1 DEF Chain, Head2
        <5>2. BitsOf(h, MinFilter2) # {}
          <6>1. MinFilter2 \in Nat /\ TopBlock2 + HashCount * MinFilter2 <= HashBits
            BY WidthAssumption
          <6> QED
            BY <3>2, <6>1, BitsInside
        <5> QED
          BY <5>1, <5>2 DEF NewFilter, Matches
      <4>2. CASE blocks[b] # <<>>
        BY <2>2, <3>2, <3>3, <4>2 DEF Chain, Head2, Check
      <4> QED
        BY <4>1, <4>2
    <3>5. Grow(c, h) = SetBits(c, h) /\ Len(SetBits(c, h)) = 1
      BY <3>2, <3>3, <3>4, SetBitsGood DEF Grow
    <3>6. \/ blocks' = [blocks EXCEPT ![b] = c]
          \/ blocks' = [blocks EXCEPT ![b] = SetBits(c, h)]
      BY <2>2, <3>5 DEF Mark
    <3>7. NeverGrows'
      <4> SUFFICES ASSUME NEW a \in BlockIds PROVE Len(blocks'[a]) <= 1
        BY DEF NeverGrows
      <4>1. CASE a = b
        <5>1. blocks'[b] \in {c, SetBits(c, h)}
          BY <3>2, <3>6 DEF Inv
        <5>2. \A d \in {c, SetBits(c, h)} : Len(d) = 1
          BY <3>3, <3>5
        <5>3. Len(blocks'[a]) = 1
          BY <4>1, <5>1, <5>2, Zenon
        <5> QED
          BY <5>3
      <4>2. CASE a # b
        BY <3>6, <4>2 DEF NeverGrows, Inv
      <4> QED
        BY <4>1, <4>2
    <3> QED
      BY <3>1, <3>7
  <2>3. CASE UNCHANGED vars
    BY <2>3 DEF vars, Inv, NoFalseNegatives, Check, NeverGrows
  <2> QED
    BY <2>1, <2>2, <2>3 DEF UseNext, Ask
<1> QED
  BY <1>1, <1>2, PTL DEF UseSpec
=============================================================================
