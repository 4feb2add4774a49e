-------------------------- MODULE AutoshrinkProofs --------------------------
(***************************************************************************)
(* Autoshrinking: the weights of its actions stay in their range; the      *)
(* requests cover what is consumed of a pool, so that everything is read   *)
(* and written inside it; mutations make the requests' values smaller; and *)
(* an instance is a function of the bits that are hashed.                  *)
(***************************************************************************)
EXTENDS Autoshrink, Numbers, SequenceTheorems

-----------------------------------------------------------------------------
(* The weights.                                                            *)

InRange(ws) == \A a \in Actions : ws[a] \in Least[a] .. Most[a]

(* There are no weights yet, and nothing was tried that could change them. *)
WeightsInv ==
  /\ tactic \in Nat
  /\ set \subseteq Actions
  /\ InRange(weights) \/ (set = {} /\ \A a \in Actions : weights[a] = 0)

-----------------------------------------------------------------------------
(* adjust.                                                                 *)

(* The numbers of an action: its range, and no step leaves the width.      *)
LEMMA Steps ==
  ASSUME NEW a \in Actions
  PROVE  /\ Least[a] \in Nat \ {0} /\ Most[a] \in Nat /\ First[a] \in Least[a] .. Most[a]
         /\ \A d \in {SmallStep, BigStep} :
              d \in Nat /\ d <= Least[a] /\ Most[a] + d < 2^WeightWidth
         /\ 2^WeightWidth \in Nat
<1>1. /\ Least[a] \in Nat \ {0} /\ Most[a] \in Nat /\ First[a] \in Least[a] .. Most[a]
      /\ BigStep <= Least[a] /\ Most[a] + BigStep < 2^WeightWidth
  BY WeightAssumption
<1>2. SmallStep \in Nat /\ BigStep \in Nat /\ SmallStep <= BigStep /\ 2^WeightWidth \in Nat
  BY WeightAssumption
<1> DEFINE mod == 2^WeightWidth
<1> HIDE DEF mod
<1>3. Most[a] + BigStep < mod /\ mod \in Nat
  BY <1>1, <1>2 DEF mod
<1>4. Most[a] + SmallStep < mod /\ SmallStep <= Least[a]
  BY <1>1, <1>2, <1>3
<1> QED
  BY <1>1, <1>2, <1>3, <1>4 DEF mod

(* What adjust returns, up by d and down by d.                             *)
LEMMA Adjusted ==
  ASSUME NEW a \in Actions, NEW w \in Least[a] .. Most[a],
         NEW d \in {SmallStep, BigStep}
  PROVE  /\ Adjust(w, a, d) \in Least[a] .. Most[a]
         /\ Adjust(w, a, - d) \in Least[a] .. Most[a]
         /\ a \in set => Adjust(w, a, d) > w \/ (w = Most[a] /\ Adjust(w, a, d) = w)
         /\ a \in set => Adjust(w, a, d) <= w + d
         /\ a \notin set => Adjust(w, a, d) <= w
         /\ Adjust(w, a, - d) <= w
         /\ a \in set => Adjust(w, a, - d) <= w - d \/ Adjust(w, a, - d) = Least[a]
<1> DEFINE mod == 2^WeightWidth
<1>1. /\ Least[a] \in Nat \ {0} /\ Most[a] \in Nat /\ d \in Nat
      /\ d <= Least[a] /\ Most[a] + d < mod /\ mod \in Nat
  BY Steps
<1> DEFINE Clamped(nv) == IF nv = 0 THEN w
                        ELSE IF nv > Most[a] THEN Most[a]
                        ELSE IF nv < Least[a] THEN Least[a] ELSE nv
<1>2. \A delta : Adjust(w, a, delta) =
        Clamped(IF a \in set THEN (w + delta) % mod
             ELSE IF a \in tried /\ delta > 0 THEN (w - delta) % mod ELSE 0)
  BY Zenon DEF Adjust
<1> HIDE DEF mod
<1>3. w \in Nat /\ Least[a] <= w /\ w <= Most[a]
  BY <1>1
<1>4. w + d \in 0 .. mod - 1 /\ w - d \in 0 .. mod - 1 /\ w + (- d) = w - d
  BY <1>1, <1>3
<1>5. (w + d) % mod = w + d /\ (w - d) % mod = w - d
  BY <1>1, <1>4
<1>6. ~ (- d > 0)
  BY <1>1
<1>7. d > 0
  BY WeightAssumption
<1> DEFINE up == Adjust(w, a, d)
           down == Adjust(w, a, - d)
<1>8. CASE a \in set
  <2>1. up = Clamped(w + d) /\ down = Clamped(w - d)
    BY <1>2, <1>4, <1>5, <1>8
  <2>2. /\ Clamped(w + d) \in Least[a] .. Most[a] /\ Clamped(w + d) <= w + d
        /\ Clamped(w + d) > w \/ (w = Most[a] /\ Clamped(w + d) = w)
    BY <1>1, <1>3, <1>7
  <2>3. /\ Clamped(w - d) \in Least[a] .. Most[a] /\ Clamped(w - d) <= w
        /\ Clamped(w - d) <= w - d \/ Clamped(w - d) = Least[a]
    BY <1>1, <1>3, <1>7
  <2> HIDE DEF Clamped, up, down
  <2> QED
    BY <1>8, <2>1, <2>2, <2>3 DEF up, down
<1>9. CASE a \notin set
  <2>1. up \in {Clamped(w - d), Clamped(0)} /\ down = Clamped(0)
    BY <1>2, <1>5, <1>6, <1>9
  <2>2. Clamped(0) = w
    OBVIOUS
  <2>3. Clamped(w - d) \in Least[a] .. Most[a] /\ Clamped(w - d) <= w
    BY <1>1, <1>3, <1>7
  <2> HIDE DEF Clamped, up, down
  <2> QED
    BY <1>1, <1>3, <1>9, <2>1, <2>2, <2>3 DEF up, down
<1> QED
  BY <1>8, <1>9

LEMMA Updated ==
  ASSUME NEW ws, InRange(ws), NEW d \in {SmallStep, BigStep}
  PROVE  /\ InRange(Update(ws, d)) /\ InRange(Update(ws, - d))
         /\ \A a \in Actions :
              /\ a \in set => \/ Update(ws, d)[a] > ws[a]
                              \/ ws[a] = Most[a] /\ Update(ws, d)[a] = ws[a]
              /\ a \in set => Update(ws, d)[a] <= ws[a] + d
              /\ a \notin set => Update(ws, d)[a] <= ws[a]
              /\ Update(ws, - d)[a] <= ws[a]
              /\ a \in set => \/ Update(ws, - d)[a] <= ws[a] - d
                              \/ Update(ws, - d)[a] = Least[a]
<1>1. CASE set = {}
  <2>1. Update(ws, d) = ws /\ Update(ws, - d) = ws
    BY <1>1 DEF Update
  <2>2. \A a \in Actions : ws[a] \in Nat
    BY Steps DEF InRange
  <2> QED
    BY <1>1, <2>1, <2>2
<1>2. CASE set # {}
  <2>1. \A a \in Actions : /\ Update(ws, d)[a] = Adjust(ws[a], a, d)
                           /\ Update(ws, - d)[a] = Adjust(ws[a], a, - d)
    BY <1>2 DEF Update
  <2> QED
    BY <2>1, Adjusted DEF InRange
<1> QED
  BY <1>1, <1>2

-----------------------------------------------------------------------------
(* The steps.                                                              *)

LEMMA Begins == Init => WeightsInv
  BY DEF Init, WeightsInv

(* Judge changes the weights in their range, and in the right direction.   *)
LEMMA Judged ==
  ASSUME WeightsInv, NEW first \in {"PASS", "FAIL"}, NEW last \in {"PASS", "FAIL"},
         Judge(first, last)
  PROVE  /\ WeightsInv'
         /\ \A a \in Actions :
              IF a \in set /\ last = "FAIL"
              THEN weights'[a] > weights[a] \/ weights[a] = Most[a]
              ELSE weights'[a] <= weights[a]
<1> DEFINE ws == IF first = "FAIL" THEN Update(weights, SmallStep) ELSE weights
<1>1. /\ weights' = Update(ws, IF last = "FAIL" THEN BigStep ELSE - BigStep)
      /\ set' = set /\ tactic' \in {0, tactic + 1}
  BY DEF Judge, NextTactic
<1>2. WeightsInv /\ tactic' \in Nat
  BY <1>1 DEF WeightsInv
<1>3. CASE set = {}
  <2>1. weights' = weights
    BY <1>1, <1>3 DEF Update
  <2>2. \A a \in Actions : weights[a] \in Nat
    BY <1>2, Steps DEF WeightsInv, InRange
  <2> QED
    BY <1>1, <1>2, <1>3, <2>1, <2>2 DEF WeightsInv, InRange
<1>4. CASE set # {}
  <2>1. InRange(weights) /\ set \subseteq Actions
    BY <1>2, <1>4 DEF WeightsInv
  <2>2. /\ InRange(ws)
        /\ \A a \in Actions :
             /\ a \in set => ws[a] >= weights[a] /\ ws[a] <= weights[a] + SmallStep
             /\ a \notin set => ws[a] <= weights[a]
    <3>1. \A a \in Actions : weights[a] \in Nat /\ SmallStep \in Nat
      BY <2>1, Steps DEF InRange
    <3>2. CASE first = "FAIL"
      <4>1. ws = Update(weights, SmallStep)
        BY <3>2
      <4>2. \A a \in Actions : ws[a] \in Nat
        BY <2>1, <4>1, Updated, Steps DEF InRange
      <4> HIDE DEF ws
      <4> QED
        BY <2>1, <3>1, <4>1, <4>2, Updated
    <3>3. CASE first # "FAIL"
      BY <2>1, <3>1, <3>3
    <3> QED
      BY <3>2, <3>3
  <2> HIDE DEF ws
  <2>3. InRange(weights')
    BY <1>1, <2>2, Updated
  <2>4. ASSUME NEW a \in Actions
        PROVE  IF a \in set /\ last = "FAIL"
               THEN weights'[a] > weights[a] \/ weights[a] = Most[a]
               ELSE weights'[a] <= weights[a]
    <3>1. /\ weights[a] \in Nat /\ ws[a] \in Nat /\ weights'[a] \in Nat
          /\ Most[a] \in Nat /\ ws[a] <= Most[a] /\ weights[a] <= Most[a]
          /\ Least[a] \in Nat /\ Least[a] <= weights[a]
          /\ SmallStep \in Nat /\ BigStep \in Nat /\ SmallStep <= BigStep
      BY <2>1, <2>2, <2>3, Steps, WeightAssumption DEF InRange
    <3>2. CASE last = "FAIL"
      <4>1. weights' = Update(ws, BigStep)
        BY <1>1, <3>2
      <4> QED
        BY <2>2, <3>1, <3>2, <4>1, Updated
    <3>3. CASE last = "PASS"
      <4>1. weights' = Update(ws, - BigStep)
        BY <1>1, <3>3
      <4>2. weights'[a] <= ws[a]
        BY <2>2, <4>1, Updated
      <4>3. a \in set => weights'[a] <= ws[a] - BigStep \/ weights'[a] = Least[a]
        BY <2>2, <4>1, Updated
      <4> QED
        BY <2>2, <3>1, <3>3, <4>2, <4>3
    <3> QED
      BY <3>2, <3>3
  <2> QED
    BY <1>1, <1>2, <2>1, <2>3, <2>4 DEF WeightsInv
<1> QED
  BY <1>3, <1>4

LEMMA ModelKept ==
  ASSUME WeightsInv, UNCHANGED modelVars, tactic' \in {tactic, tactic + 1}
  PROVE  WeightsInv'
BY DEF WeightsInv, modelVars, InRange

(* The first weights are in their range.                                   *)
LEMMA ModelInitialised ==
  ASSUME WeightsInv, InitModel, UNCHANGED tactic, set' \subseteq Actions
  PROVE  WeightsInv'
<1>1. InRange(First)
  BY Steps DEF InRange
<1>2. weights["DROP"] # 0 => InRange(weights)
  BY DEF WeightsInv, Actions
<1>3. InRange(weights')
  BY <1>1, <1>2 DEF InitModel
<1> QED
  BY <1>3 DEF WeightsInv

LEMMA TryKeeps ==
  ASSUME WeightsInv, NEW kind \in Kinds, MutateTry(kind)
  PROVE  WeightsInv'
<1>1. /\ weights[kind] > 0 /\ UNCHANGED <<weights, tactic>>
      /\ set' \in {set, set \union {kind}}
  BY DEF MutateTry, MayPick
<1>2. InRange(weights)
  BY <1>1 DEF WeightsInv, Actions
<1> QED
  BY <1>1, <1>2 DEF WeightsInv, Actions, InRange

LEMMA WeightsKeep == WeightsInv /\ [Next]_vars => WeightsInv'
<1> SUFFICES ASSUME WeightsInv, [Next]_vars PROVE WeightsInv'
  OBVIOUS
<1>1. ASSUME NEW w, FillWord(w) PROVE WeightsInv'
  BY <1>1, ModelKept DEF FillWord
<1>2. ASSUME NEW g, Request(g) PROVE WeightsInv'
  BY <1>2, ModelKept DEF Request
<1>3. ASSUME NEW r, Generated(r) \/ Rebuilt(r) PROVE WeightsInv'
  BY <1>3, ModelKept DEF Generated, Rebuilt, NextTactic
<1>4. CASE NoMoreTactics \/ CopyFails \/ MutateEnds \/ Duplicate \/ UNCHANGED vars
  BY <1>4, ModelKept
     DEF NoMoreTactics, CopyFails, MutateEnds, Duplicate, NextTactic, vars, modelVars
<1>5. ASSUME NEW D, Drop(D) PROVE WeightsInv'
  BY <1>5, ModelInitialised DEF Drop, Actions
<1>6. ASSUME NEW c, MutateBegins(c) PROVE WeightsInv'
  BY <1>6, ModelInitialised DEF MutateBegins
<1> QED
  BY <1>1, <1>2, <1>3, <1>4, <1>5, <1>6, TryKeeps, Judged DEF Next, Over

(***************************************************************************)
(* theft_autoshrink_update_model makes the actions whose effect is in the  *)
(* instance more likely when it fails, up to their greatest weight, and    *)
(* nothing more likely otherwise: adjust does not wrap around, and the step*)
(* for the last result outweighs that for a first FAIL, for any weights'   *)
(* ranges, steps and width like those of theft_autoshrink.h.               *)
(***************************************************************************)
THEOREM RewardsAreRewards == Spec => RewardsAreNotPenalties
<1>1. WeightsInv /\ [Next]_vars => [Learns]_vars
  <2> SUFFICES ASSUME WeightsInv, Next, pc = "try", pc' # pc
               PROVE  \A a \in Actions :
                        IF a \in set /\ tactic' = 0
                        THEN weights'[a] > weights[a] \/ weights[a] = Most[a]
                        ELSE weights'[a] <= weights[a]
    BY DEF Learns
  <2>1. tactic \in Nat
    BY DEF WeightsInv
  <2>2. CASE \E first, last \in {"PASS", "FAIL"} : Judge(first, last)
    <3>1. PICK first \in {"PASS", "FAIL"}, last \in {"PASS", "FAIL"} : Judge(first, last)
      BY <2>2
    <3>2. last = "FAIL" <=> tactic' = 0
      BY <2>1, <3>1 DEF Judge, NextTactic
    <3> QED
      BY <3>1, <3>2, Judged
  <2>3. CASE ~ \E first, last \in {"PASS", "FAIL"} : Judge(first, last)
    <3>1. Duplicate
      BY <2>3 DEF Next, FillWord, Request, Generated, Rebuilt, NoMoreTactics,
             CopyFails, Drop, MutateBegins, MutateTry, MutateEnds, Over, vars
    <3>2. UNCHANGED weights /\ tactic' # 0
      BY <2>1, <3>1 DEF Duplicate, NextTactic, modelVars
    <3>3. \A a \in Actions : weights[a] \in Nat
      BY Steps DEF WeightsInv, InRange
    <3> QED
      BY <3>2, <3>3
  <2> QED
    BY <2>2, <2>3
<1> QED
  BY Begins, WeightsKeep, <1>1, PTL DEF Spec, RewardsAreNotPenalties

-----------------------------------------------------------------------------
(* build_index, and rounding.                                              *)

(* What build_index computes of the requests r.                            *)
IsIndex(h, r) ==
  h = [k \in 1 .. Len(r) + 1 |-> IF k = 1 THEN 0 ELSE h[k - 1] + r[k - 1]]

LEMMA IndexExists ==
  ASSUME NEW r \in Seq(Nat)
  PROVE  \E h : IsIndex(h, r)
<1> DEFINE n == Len(r)
           G == [k \in 1 .. n |-> [v \in Nat |-> v + r[k]]]
<1>1. n \in Nat /\ \A k \in 1 .. n : r[k] \in Nat
  OBVIOUS
<1>2. G \in [1 .. n -> [Nat -> Nat]]
  BY <1>1
<1>3. \A k \in 1 .. n : \A v \in Nat : G[k][v] = v + r[k]
  OBVIOUS
<1> HIDE DEF G, n
<1>4. PICK f \in [0 .. n -> Nat] : Iterates(f, 0, G, n)
  BY <1>1, <1>2, IteratesExist
<1>5. f[0] = 0 /\ \A k \in 1 .. n : f[k - 1] \in Nat /\ f[k] = f[k - 1] + r[k]
  <2>1. \A k \in 1 .. n : f[k - 1] \in Nat
    BY <1>1, <1>4
  <2> QED
    BY <1>3, <1>4, <2>1 DEF Iterates
<1> DEFINE g == [k \in 1 .. n + 1 |-> f[k - 1]]
<1>6. ASSUME NEW k \in 1 .. n + 1
      PROVE  g[k] = IF k = 1 THEN 0 ELSE g[k - 1] + r[k - 1]
  <2>1. CASE k = 1
    BY <1>1, <1>5, <2>1
  <2>2. CASE k # 1
    <3>1. k - 1 \in 1 .. n /\ k - 1 \in 1 .. n + 1
      BY <1>1, <2>2
    <3> QED
      BY <1>5, <2>2, <3>1
  <2> QED
    BY <2>1, <2>2
<1>7. IsIndex(g, r)
  BY <1>6 DEF IsIndex, n
<1> QED
  BY <1>7

LEMMA IndexSums ==
  ASSUME NEW r \in Seq(Nat), NEW h, IsIndex(h, r)
  PROVE  /\ h \in [1 .. Len(r) + 1 -> Nat]
         /\ h[1] = 0
         /\ \A k \in 1 .. Len(r) : h[k + 1] = h[k] + r[k]
<1> DEFINE n == Len(r)
           T == {k \in Nat : h[k] \in Nat}
<1>1. n \in Nat /\ \A k \in 1 .. n : r[k] \in Nat
  OBVIOUS
<1>2. h = [k \in 1 .. n + 1 |-> IF k = 1 THEN 0 ELSE h[k - 1] + r[k - 1]]
  BY DEF IsIndex
<1> HIDE DEF n
<1>3. h[1] = 0 /\ \A k \in 1 .. n : h[k + 1] = h[k] + r[k]
  <2>1. 1 \in 1 .. n + 1
    BY <1>1
  <2>2. ASSUME NEW k \in 1 .. n PROVE h[k + 1] = h[k] + r[k]
    <3>1. k + 1 \in 1 .. n + 1 /\ k + 1 # 1 /\ (k + 1) - 1 = k
      BY <1>1
    <3> QED
      BY <1>2, <3>1
  <2> QED
    BY <1>2, <2>1, <2>2
<1>4. 1 \in T
  BY <1>3
<1>5. ASSUME NEW k \in 1 .. (n + 1) - 1, k \in T PROVE k + 1 \in T
  <2>1. k \in 1 .. n /\ k + 1 \in Nat
    BY <1>1
  <2>2. h[k] \in Nat /\ r[k] \in Nat /\ h[k + 1] = h[k] + r[k]
    BY <1>1, <1>3, <1>5, <2>1
  <2> QED
    BY <2>1, <2>2
<1> HIDE DEF T
<1>6. 1 .. n + 1 \subseteq T
  <2>1. n + 1 \in Nat
    BY <1>1
  <2> QED
    BY <1>4, <1>5, <2>1, UpTo
<1>7. h \in [1 .. n + 1 -> Nat]
  BY <1>2, <1>6 DEF T
<1> QED
  BY <1>3, <1>7 DEF n

LEMMA IndexIs ==
  ASSUME NEW p, p.requests \in Seq(Nat)
  PROVE  IsIndex(Index(p), p.requests)
<1>1. Index(p) = CHOOSE h : IsIndex(h, p.requests)
  BY DEF Index, IsIndex
<1> QED
  BY <1>1, IndexExists, Zenon

LEMMA IndexGrows ==
  ASSUME NEW r \in Seq(Nat), NEW h, IsIndex(h, r),
         NEW i \in 1 .. Len(r) + 1, NEW j \in i .. Len(r) + 1
  PROVE  h[i] <= h[j]
<1> DEFINE n == Len(r)
           T == {k \in 1 .. n + 1 : h[i] <= h[k]}
<1>1. n \in Nat /\ \A k \in 1 .. n : r[k] \in Nat
  OBVIOUS
<1>2. h \in [1 .. n + 1 -> Nat] /\ \A k \in 1 .. n : h[k + 1] = h[k] + r[k]
  BY IndexSums
<1>3. i \in 1 .. n + 1 /\ j \in i .. n + 1
  OBVIOUS
<1> HIDE DEF n
<1>4. i \in T
  BY <1>1, <1>2, <1>3
<1>5. ASSUME NEW k \in i .. (n + 1) - 1, k \in T PROVE k + 1 \in T
  <2>1. k \in 1 .. n /\ k \in 1 .. n + 1 /\ k + 1 \in 1 .. n + 1 /\ h[i] <= h[k]
    BY <1>1, <1>3, <1>5
  <2>2. h[k + 1] = h[k] + r[k]
    BY <1>2, <2>1
  <2>3. h[i] \in Nat /\ h[k] \in Nat /\ r[k] \in Nat
    BY <1>1, <1>2, <1>3, <2>1
  <2>4. h[i] <= h[k + 1]
    BY <2>1, <2>2, <2>3
  <2> QED
    BY <2>1, <2>4
<1> HIDE DEF T
<1>6. i .. n + 1 \subseteq T
  <2>1. n + 1 \in Nat /\ i \in Nat
    BY <1>1, <1>3
  <2> QED
    BY <1>4, <1>5, <2>1, UpTo
<1> QED
  BY <1>3, <1>6 DEF T

LEMMA IndexAppended ==
  ASSUME NEW r \in Seq(Nat), NEW m \in Nat,
         NEW h, IsIndex(h, r), NEW g, IsIndex(g, Append(r, m))
  PROVE  g[Len(r) + 2] = h[Len(r) + 1] + m
<1> DEFINE n == Len(r)
           T == {k \in 1 .. n + 1 : g[k] = h[k]}
<1>1. n \in Nat /\ Append(r, m) \in Seq(Nat) /\ Len(Append(r, m)) = n + 1
      /\ Append(r, m)[n + 1] = m /\ \A k \in 1 .. n : Append(r, m)[k] = r[k]
  OBVIOUS
<1>2. h[1] = 0 /\ \A k \in 1 .. n : h[k + 1] = h[k] + r[k]
  BY IndexSums
<1>3. g[1] = 0 /\ \A k \in 1 .. n + 1 : g[k + 1] = g[k] + Append(r, m)[k]
  <2>1. g[1] = 0 /\ \A k \in 1 .. Len(Append(r, m)) : g[k + 1] = g[k] + Append(r, m)[k]
    BY <1>1, IndexSums
  <2> QED
    BY <1>1, <2>1
<1> HIDE DEF n
<1>4. 1 \in T
  BY <1>1, <1>2, <1>3
<1>5. ASSUME NEW k \in 1 .. (n + 1) - 1, k \in T PROVE k + 1 \in T
  <2>1. k \in 1 .. n /\ k \in 1 .. n + 1 /\ k + 1 \in 1 .. n + 1
    BY <1>1
  <2>2. g[k + 1] = g[k] + r[k] /\ h[k + 1] = h[k] + r[k]
    BY <1>1, <1>2, <1>3, <2>1
  <2> QED
    BY <1>5, <2>1, <2>2
<1> HIDE DEF T
<1>6. n + 1 \in T
  <2>1. n + 1 \in Nat
    BY <1>1
  <2>2. 1 .. n + 1 \subseteq T
    BY <1>4, <1>5, <2>1, UpTo
  <2> QED
    BY <1>1, <2>2
<1>7. g[(n + 1) + 1] = g[n + 1] + m /\ (n + 1) + 1 = n + 2
  <2>1. n + 1 \in 1 .. n + 1
    BY <1>1
  <2> QED
    BY <1>1, <1>3, <2>1
<1>8. g[n + 1] = h[n + 1]
  BY <1>6 DEF T
<1> QED
  BY <1>7, <1>8 DEF n

LEMMA RoundedUp ==
  ASSUME NEW n \in Nat, NEW u \in Nat \ {0}
  PROVE  /\ RoundUp(n, u) \in Nat /\ n <= RoundUp(n, u)
         /\ \E k \in Nat : RoundUp(n, u) = k * u
         /\ \A k \in Nat : n <= k * u => RoundUp(n, u) <= k * u
<1> DEFINE q == (n + u - 1) \div u
           r == (n + u - 1) % u
<1>1. n + u - 1 \in Nat
  OBVIOUS
<1>2. q \in Nat /\ r \in 0 .. u - 1 /\ n + u - 1 = q * u + r
  BY <1>1, SMT
<1>3. RoundUp(n, u) = q * u
  BY DEF RoundUp
<1> HIDE DEF q, r
<1>4. q * u \in Nat /\ n <= q * u
  BY <1>2
<1>5. ASSUME NEW k \in Nat, n <= k * u PROVE q * u <= k * u
  <2>1. CASE q <= k
    BY <1>2, <2>1, SMT
  <2>2. CASE q >= k + 1
    <3>1. k * u + u <= q * u
      BY <1>2, <2>2, SMT
    <3>2. k * u \in Nat
      OBVIOUS
    <3> QED
      BY <1>2, <1>4, <1>5, <3>1, <3>2
  <2> QED
    BY <1>2, <2>1, <2>2
<1> QED
  BY <1>2, <1>3, <1>4, <1>5

-----------------------------------------------------------------------------
(* Sizes, growth and drops.                                                *)

Multiple(n, u) == \E k \in Nat : n = k * u

(* A pool whose bits and whose limit fit.                                  *)
PoolType ==
  [bits : Seq({0, 1}), ceil : Nat, limit : Nat, consumed : Nat,
   requests : Seq(Nat \ {0})]

Covered(p) == Index(p)[Len(p.requests) + 1] = p.consumed

Sound(p) == p \in PoolType /\ PoolOK(p) /\ Covered(p)

LEMMA Sizes ==
  /\ ByteBits \in Nat \ {0} /\ WordBits \in Nat \ {0}
  /\ \E q \in Nat : WordBits = q * ByteBits
<1>1. ByteBits \in Nat \ {0} /\ WordBits \in Nat \ {0} /\ WordBits % ByteBits = 0
  BY PoolAssumption
<1>2. WordBits \div ByteBits \in Nat /\ WordBits = (WordBits \div ByteBits) * ByteBits
  BY <1>1, SMT
<1> QED
  BY <1>1, <1>2

LEMMA MultipleOfBytes ==
  ASSUME NEW n \in Nat, Multiple(n, WordBits)
  PROVE  Multiple(n, ByteBits)
<1>1. PICK k \in Nat : n = k * WordBits
  BY DEF Multiple
<1>2. PICK q \in Nat : WordBits = q * ByteBits
  BY Sizes
<1>3. n = (k * q) * ByteBits /\ k * q \in Nat
  BY <1>1, <1>2, Sizes, SMT
<1> QED
  BY <1>3 DEF Multiple

(* The function of Grown.                                                  *)
IsTwice(h, ceil, need) ==
  h = [k \in 0 .. need |-> IF k = 0 THEN ceil ELSE 2 * h[k - 1]]

LEMMA TwiceExists ==
  ASSUME NEW ceil \in Nat, NEW need \in Nat
  PROVE  \E h : IsTwice(h, ceil, need)
<1> DEFINE G == [k \in 1 .. need |-> [v \in Nat |-> 2 * v]]
<1>1. G \in [1 .. need -> [Nat -> Nat]]
  OBVIOUS
<1>2. \A k \in 1 .. need : \A v \in Nat : G[k][v] = 2 * v
  OBVIOUS
<1> HIDE DEF G
<1>3. PICK f \in [0 .. need -> Nat] : Iterates(f, ceil, G, need)
  BY <1>1, IteratesExist
<1>4. ASSUME NEW k \in 0 .. need
      PROVE  f[k] = IF k = 0 THEN ceil ELSE 2 * f[k - 1]
  <2>1. k # 0 => k \in 1 .. need /\ k - 1 \in 0 .. need
    OBVIOUS
  <2> QED
    BY <1>2, <1>3, <2>1 DEF Iterates
<1>5. IsTwice(f, ceil, need)
  BY <1>3, <1>4 DEF IsTwice
<1> QED
  BY <1>5

LEMMA TwiceGrows ==
  ASSUME NEW ceil \in Nat \ {0}, NEW need \in Nat, NEW h, IsTwice(h, ceil, need)
  PROVE  /\ h[0] = ceil
         /\ \A k \in 1 .. need : h[k] = 2 * h[k - 1]
         /\ \A k \in 0 .. need : h[k] \in Nat /\ h[k] > k /\ Multiple(h[k], ceil)
<1> DEFINE T == {k \in Nat : h[k] \in Nat /\ h[k] > k /\ Multiple(h[k], ceil)}
<1>1. h[0] = ceil /\ \A k \in 1 .. need : h[k] = 2 * h[k - 1]
  BY DEF IsTwice
<1>2. 0 \in T
  <2>1. ceil = 1 * ceil
    OBVIOUS
  <2> QED
    BY <1>1, <2>1 DEF Multiple
<1>3. ASSUME NEW k \in 0 .. need - 1, k \in T PROVE k + 1 \in T
  <2>1. k + 1 \in 1 .. need /\ (k + 1) - 1 = k
    OBVIOUS
  <2>2. h[k + 1] = 2 * h[k]
    BY <1>1, <2>1
  <2>3. PICK m \in Nat : h[k] = m * ceil
    BY <1>3 DEF Multiple
  <2>4. 2 * (m * ceil) = (2 * m) * ceil /\ 2 * m \in Nat
    BY SMT
  <2>5. Multiple(h[k + 1], ceil)
    BY <2>2, <2>3, <2>4 DEF Multiple
  <2>6. h[k] \in Nat /\ h[k] > k
    BY <1>3
  <2> QED
    BY <2>2, <2>5, <2>6
<1> HIDE DEF T
<1>4. 0 .. need \subseteq T
  BY <1>2, <1>3, UpTo
<1> QED
  BY <1>1, <1>4 DEF T

(* There is room for need bits, in whole pieces of what there was.         *)
LEMMA GrownIs ==
  ASSUME NEW ceil \in Nat \ {0}, NEW need \in Nat
  PROVE  /\ Grown(ceil, need) \in Nat \ {0} /\ Grown(ceil, need) >= need
         /\ Multiple(Grown(ceil, need), ceil)
<1> DEFINE Twice == CHOOSE h : IsTwice(h, ceil, need)
           Fits(c) == c >= need /\ (c > ceil => c \div 2 < need)
           S == {Twice[k] : k \in 0 .. need}
<1>1. IsTwice(Twice, ceil, need)
  BY TwiceExists, Zenon
<1>2. Grown(ceil, need) = CHOOSE c \in S : Fits(c)
  BY DEF Grown, IsTwice
<1> HIDE DEF Twice
<1>3. /\ Twice[0] = ceil
      /\ \A k \in 1 .. need : Twice[k] = 2 * Twice[k - 1]
      /\ \A k \in 0 .. need : Twice[k] \in Nat /\ Twice[k] > k /\ Multiple(Twice[k], ceil)
  BY <1>1, TwiceGrows
<1> DEFINE T == {k \in 0 .. need : Twice[k] >= need}
<1>4. PICK k \in T : \A m \in T : k <= m
  <2>1. need \in T /\ T \subseteq Nat
    BY <1>3
  <2> HIDE DEF T
  <2> QED
    BY <2>1, LeastNumber
<1>5. Twice[k] \in S /\ Fits(Twice[k])
  <2>1. CASE k = 0
    BY <1>3, <1>4, <2>1
  <2>2. CASE k # 0
    <3>1. k - 1 \in 0 .. need /\ k \in 1 .. need /\ k - 1 \notin T
      BY <1>4, <2>2
    <3>2. Twice[k - 1] \in Nat /\ Twice[k - 1] < need /\ Twice[k] = 2 * Twice[k - 1]
      BY <1>3, <3>1
    <3>3. Twice[k] \div 2 = Twice[k - 1]
      BY <3>2
    <3> QED
      BY <1>4, <3>2, <3>3
  <2> QED
    BY <2>1, <2>2
<1> HIDE DEF S, Fits
<1>6. Grown(ceil, need) \in S /\ Fits(Grown(ceil, need))
  BY <1>2, <1>5
<1>7. PICK l \in 0 .. need : Grown(ceil, need) = Twice[l]
  BY <1>6 DEF S
<1>8. Twice[l] \in Nat /\ Twice[l] > l /\ Multiple(Twice[l], ceil)
  BY <1>3
<1> QED
  BY <1>6, <1>7, <1>8 DEF Fits

(* The function of Kept.                                                   *)
IsKept(h, p, gone) ==
  h = [j \in 0 .. p.consumed |->
        IF j = 0 THEN <<>>
        ELSE IF j \in gone THEN h[j - 1] ELSE Append(h[j - 1], p.bits[j])]

LEMMA KeptExists ==
  ASSUME NEW p, p.consumed \in Nat, NEW S,
         \A j \in 1 .. p.consumed : p.bits[j] \in S, NEW gone
  PROVE  \E h : IsKept(h, p, gone)
<1> DEFINE n == p.consumed
           b == p.bits
           G == [k \in 1 .. n |->
                   [v \in Seq(S) |-> IF k \in gone THEN v ELSE Append(v, b[k])]]
<1>1. n \in Nat /\ \A k \in 1 .. n : b[k] \in S
  OBVIOUS
<1>2. G \in [1 .. n -> [Seq(S) -> Seq(S)]]
  <2> HIDE DEF b, n
  <2> QED
    BY <1>1
<1>3. \A k \in 1 .. n : \A v \in Seq(S) :
        G[k][v] = IF k \in gone THEN v ELSE Append(v, b[k])
  OBVIOUS
<1> HIDE DEF G, n, b
<1>4. <<>> \in Seq(S)
  OBVIOUS
<1>5. PICK f \in [0 .. n -> Seq(S)] : Iterates(f, <<>>, G, n)
  BY <1>1, <1>2, <1>4, IteratesExist
<1>6. ASSUME NEW k \in 0 .. n
      PROVE  f[k] = IF k = 0 THEN <<>>
                    ELSE IF k \in gone THEN f[k - 1] ELSE Append(f[k - 1], b[k])
  <2>1. k # 0 => k \in 1 .. n /\ f[k - 1] \in Seq(S)
    BY <1>1, <1>5
  <2> QED
    BY <1>3, <1>5, <2>1 DEF Iterates
<1>7. IsKept(f, p, gone)
  BY <1>5, <1>6 DEF IsKept, n, b
<1> QED
  BY <1>7

(* What is kept are bits, and no more than were consumed.                  *)
LEMMA KeptIs ==
  ASSUME NEW p, p.consumed \in Nat, NEW S,
         \A j \in 1 .. p.consumed : p.bits[j] \in S, NEW gone
  PROVE  Kept(p, gone) \in Seq(S) /\ Len(Kept(p, gone)) <= p.consumed
<1> DEFINE h == CHOOSE f : IsKept(f, p, gone)
<1>1. IsKept(h, p, gone)
  BY KeptExists, Zenon
<1>2. Kept(p, gone) = h[p.consumed]
  BY DEF Kept, IsKept
<1> HIDE DEF h
<1> DEFINE n == p.consumed
           b == p.bits
<1>4. n \in Nat /\ \A j \in 1 .. n : b[j] \in S
  OBVIOUS
<1>3. h = [j \in 0 .. n |->
             IF j = 0 THEN <<>>
             ELSE IF j \in gone THEN h[j - 1] ELSE Append(h[j - 1], b[j])]
  BY <1>1 DEF IsKept
<1> HIDE DEF n, b
<1> DEFINE T == {j \in Nat : h[j] \in Seq(S) /\ Len(h[j]) <= j}
<1>5. 0 \in T
  <2>1. 0 \in 0 .. n
    BY <1>4
  <2>2. h[0] = <<>>
    BY <1>3, <2>1
  <2>3. <<>> \in Seq(S) /\ Len(<<>>) = 0
    OBVIOUS
  <2>4. h[0] \in Seq(S) /\ Len(h[0]) = 0
    BY <2>2, <2>3, Zenon
  <2> QED
    BY <2>4
<1>6. ASSUME NEW j \in 0 .. n - 1, j \in T PROVE j + 1 \in T
  <2>1. j + 1 \in 1 .. n /\ j + 1 \in 0 .. n /\ (j + 1) - 1 = j /\ j + 1 # 0
    BY <1>4
  <2>2. h[j + 1] = IF j + 1 \in gone THEN h[j] ELSE Append(h[j], b[j + 1])
    BY <1>3, <2>1
  <2>3. h[j] \in Seq(S) /\ Len(h[j]) <= j /\ j \in Nat /\ b[j + 1] \in S
    BY <1>4, <1>6, <2>1
  <2> DEFINE s == h[j]
             e == b[j + 1]
  <2>4. Append(s, e) \in Seq(S) /\ Len(Append(s, e)) = Len(s) + 1 /\ Len(s) \in Nat
    <3>1. s \in Seq(S) /\ e \in S
      BY <2>3
    <3> HIDE DEF s, e
    <3> QED
      BY <3>1
  <2>5. h[j + 1] \in Seq(S) /\ Len(h[j + 1]) <= j + 1
    BY <2>2, <2>3, <2>4
  <2> QED
    BY <2>3, <2>5
<1> HIDE DEF T
<1>7. 0 .. n \subseteq T
  BY <1>4, <1>5, <1>6, UpTo
<1> QED
  BY <1>2, <1>4, <1>7 DEF T, n

-----------------------------------------------------------------------------
(* Pools and requests.                                                     *)

Bits == Seq({0, 1})

LEMMA Lessers ==
  ASSUME NEW m \in Int, NEW n \in Int
  PROVE  /\ Lesser(m, n) \in {m, n} /\ Lesser(m, n) \in Int
         /\ Lesser(m, n) <= m /\ Lesser(m, n) <= n
BY DEF Lesser

(* The fields of a sound pool, and how they are related.                   *)
LEMMA SoundIs ==
  ASSUME NEW p, Sound(p)
  PROVE  /\ p \in PoolType
         /\ p.bits \in Bits /\ p.requests \in Seq(Nat \ {0}) /\ p.requests \in Seq(Nat)
         /\ p.consumed \in Nat /\ p.limit \in Nat /\ p.ceil \in Nat /\ Len(p.bits) \in Nat
         /\ p.consumed <= Len(p.bits) /\ Len(p.bits) <= p.ceil
         /\ p.consumed <= p.limit /\ p.limit <= PoolLimit
         /\ \A j \in 1 .. Len(p.bits) : p.bits[j] \in {0, 1}
         /\ Covered(p)
<1>1. p \in PoolType /\ PoolOK(p) /\ Covered(p)
  BY DEF Sound
<1>2. /\ p.bits \in Bits /\ p.requests \in Seq(Nat \ {0})
      /\ p.consumed \in Nat /\ p.limit \in Nat /\ p.ceil \in Nat
  BY <1>1 DEF PoolType, Bits
<1>3. p.requests \in Seq(Nat)
  <2> DEFINE r == p.requests
  <2>1. r \in Seq(Nat \ {0})
    BY <1>2
  <2> HIDE DEF r
  <2>2. r \in Seq(Nat)
    BY <2>1
  <2> QED
    BY <2>2 DEF r
<1>4. Len(p.bits) \in Nat /\ \A j \in 1 .. Len(p.bits) : p.bits[j] \in {0, 1}
  BY <1>2 DEF Bits
<1> QED
  BY <1>1, <1>2, <1>3, <1>4 DEF PoolOK

LEMMA GrantIs ==
  ASSUME NEW p, Sound(p), NEW n \in Nat
  PROVE  /\ Grant(p, n) \in Nat /\ Grant(p, n) <= n
         /\ p.consumed + Grant(p, n) <= p.limit
         /\ Grant(p, n) < n => p.consumed + Grant(p, n) = p.limit
<1>1. p.consumed \in Nat /\ p.limit \in Nat /\ p.consumed <= p.limit
  BY SoundIs
<1> QED
  BY <1>1 DEF Grant, Lesser

LEMMA BufferBits == Buffers \subseteq {0, 1}
BY PoolAssumption DEF Buffers

(* The granted bits are bits of the pool.                                  *)
LEMMA AnswerIs ==
  ASSUME NEW p, Sound(p), NEW n \in Nat, NEW g \in {0, 1},
         p.consumed + Grant(p, n) <= Len(p.bits)
  PROVE  /\ Answer(p, n, g) \in Bits /\ Len(Answer(p, n, g)) = n
         /\ \A j \in 1 .. n : Answer(p, n, g)[j] =
              IF j <= Grant(p, n) THEN p.bits[p.consumed + j] ELSE Answer(p, n, g)[j]
         /\ g = 0 =>
              \A j \in 1 .. n : j > Grant(p, n) => Answer(p, n, g)[j] = 0
<1> DEFINE m == Grant(p, n)
           cleared == (RoundUp(IF m = 0 THEN n ELSE m, WordBits) \div WordBits)
                        * (IF m = 0 THEN ByteBits ELSE WordBits)
<1>1. Answer(p, n, g) = [j \in 1 .. n |->
         IF j <= m THEN p.bits[p.consumed + j]
         ELSE IF j <= cleared THEN 0 ELSE g]
  BY DEF Answer
<1>3. \A j \in 1 .. n : j <= m => p.bits[p.consumed + j] \in {0, 1}
  <2>1. /\ p.consumed \in Nat /\ Len(p.bits) \in Nat /\ m \in Nat
        /\ \A j \in 1 .. Len(p.bits) : p.bits[j] \in {0, 1}
    BY SoundIs, GrantIs
  <2>2. \A j \in 1 .. n : j <= m => p.consumed + j \in 1 .. Len(p.bits)
    BY <2>1
  <2> QED
    BY <2>1, <2>2
<1> DEFINE C(j) == j <= cleared
           b(j) == p.bits[p.consumed + j]
           A == Answer(p, n, g)
<1>4. A = [j \in 1 .. n |-> IF j <= m THEN b(j) ELSE IF C(j) THEN 0 ELSE g]
  BY <1>1
<1>5. \A j \in 1 .. n : j <= m => b(j) \in {0, 1}
  BY <1>3
<1>6. m \in Nat
  BY GrantIs
<1> HIDE DEF C, b, A, cleared, m
<1>7. A \in Bits /\ Len(A) = n
  <2>1. \A j \in 1 .. n : A[j] \in {0, 1}
    BY <1>4, <1>5
  <2>2. A \in [1 .. n -> {0, 1}]
    BY <1>4, <2>1
  <2> QED
    BY <2>2 DEF Bits
<1>8. \A j \in 1 .. n : A[j] = IF j <= m THEN b(j) ELSE A[j]
  BY <1>4
<1>9. g = 0 => \A j \in 1 .. n : j > m => A[j] = 0
  BY <1>4, <1>6
<1> QED
  BY <1>7, <1>8, <1>9 DEF A, b, m

(* A request that is granted bits of the pool leaves it sound.             *)
LEMMA ServeKeeps ==
  ASSUME NEW p, Sound(p), NEW n \in Nat,
         p.consumed + Grant(p, n) <= Len(p.bits)
  PROVE  /\ Sound(Serve(p, n))
         /\ Serve(p, n).bits = p.bits /\ Serve(p, n).ceil = p.ceil
         /\ Serve(p, n).limit = p.limit
         /\ Serve(p, n).consumed = p.consumed + Grant(p, n)
<1> DEFINE m == Grant(p, n)
<1>1. /\ p \in PoolType /\ p.requests \in Seq(Nat) /\ p.requests \in Seq(Nat \ {0})
      /\ p.consumed \in Nat /\ p.limit \in Nat /\ p.ceil \in Nat /\ Len(p.bits) \in Nat
      /\ Len(p.bits) <= p.ceil /\ p.limit <= PoolLimit /\ p.bits \in Bits /\ Covered(p)
  BY SoundIs
<1>2. m \in Nat /\ p.consumed + m <= p.limit
  BY GrantIs
<1>3. CASE m = 0
  BY <1>1, <1>3 DEF Serve
<1>4. CASE m # 0
  <2> DEFINE r == p.requests
             q == [p EXCEPT !.requests = Append(r, m), !.consumed = @ + m]
  <2>1. Serve(p, n) = q
    BY <1>4 DEF Serve
  <2>2. r \in Seq(Nat) /\ r \in Seq(Nat \ {0})
    BY <1>1
  <2>3. Append(r, m) \in Seq(Nat \ {0}) /\ Append(r, m) \in Seq(Nat)
        /\ Len(Append(r, m)) = Len(r) + 1
    <3> HIDE DEF r, m, q
    <3>1. Len(Append(r, m)) = Len(r) + 1
      BY <2>2
    <3> QED
      BY <1>2, <1>4, <2>2, <3>1
  <2>4. /\ q.bits = p.bits /\ q.ceil = p.ceil /\ q.limit = p.limit
        /\ q.consumed = p.consumed + m /\ q.requests = Append(r, m)
        /\ q \in PoolType
    <3>1. p.consumed + m \in Nat
      BY <1>1, <1>2
    <3> DEFINE a == Append(r, m)
    <3> HIDE DEF m, a
    <3> QED
      BY <1>1, <2>3, <3>1 DEF PoolType, a
  <2>5. PoolOK(q)
    <3> HIDE DEF q
    <3> QED
      BY <1>1, <1>2, <2>3, <2>4 DEF PoolOK, Bits
  <2>6. Covered(q)
    <3> HIDE DEF q
    <3>1. IsIndex(Index(q), Append(r, m))
      BY <2>3, <2>4, IndexIs
    <3>2. IsIndex(Index(p), r)
      BY <1>1, IndexIs
    <3> DEFINE h == Index(p)
               g == Index(q)
    <3>3. g[Len(r) + 2] = h[Len(r) + 1] + m
      BY <1>2, <2>2, <3>1, <3>2, IndexAppended
    <3>4. Len(q.requests) + 1 = Len(r) + 2
      <4>1. Len(r) \in Nat
        BY <2>2
      <4> HIDE DEF r, m
      <4> QED
        BY <2>3, <2>4, <4>1
    <3> QED
      BY <1>1, <2>4, <3>3, <3>4 DEF Covered
  <2> QED
    BY <2>1, <2>4, <2>5, <2>6 DEF Sound
<1> QED
  BY <1>3, <1>4

(* A pool of which nothing has been consumed.                              *)
LEMMA NewPoolSound ==
  ASSUME NEW bits \in Bits, NEW ceil \in Nat, NEW limit \in Nat,
         Len(bits) <= ceil, limit <= PoolLimit
  PROVE  Sound(NewPool(bits, ceil, limit))
<1> DEFINE p == NewPool(bits, ceil, limit)
<1>1. /\ p.bits = bits /\ p.ceil = ceil /\ p.limit = limit
      /\ p.consumed = 0 /\ p.requests = <<>> /\ p \in PoolType
  BY DEF NewPool, PoolType, Bits
<1> HIDE DEF p
<1>2. PoolOK(p)
  BY <1>1 DEF PoolOK, Bits
<1>3. Covered(p)
  <2>1. <<>> \in Seq(Nat) /\ Len(<<>>) = 0
    OBVIOUS
  <2>2. IsIndex(Index(p), <<>>)
    BY <1>1, <2>1, IndexIs
  <2> DEFINE h == Index(p)
  <2>3. h[1] = 0
    BY <2>1, <2>2, IndexSums
  <2> QED
    BY <1>1, <2>1, <2>3 DEF Covered
<1> QED
  BY <1>1, <1>2, <1>3 DEF Sound, p

-----------------------------------------------------------------------------
(* Truncation.                                                             *)

Ones(b) == {j \in 1 .. Len(b) : b[j] = 1}

(* The last of the ones, if there is any.                                  *)
Last(b) ==
  IF Ones(b) = {} THEN 0
  ELSE CHOOSE j \in Ones(b) : \A k \in Ones(b) : k <= j

LEMMA LastIs ==
  ASSUME NEW b \in Bits
  PROVE  /\ Last(b) \in 0 .. Len(b)
         /\ \A j \in 1 .. Len(b) : j > Last(b) => b[j] = 0
<1> DEFINE n == Len(b)
           S == Ones(b)
<1>1. n \in Nat /\ \A j \in 1 .. n : b[j] \in {0, 1}
  BY DEF Bits
<1>2. S = {j \in 1 .. n : b[j] = 1}
  BY DEF Ones
<1>3. Last(b) = IF S = {} THEN 0 ELSE CHOOSE j \in S : \A k \in S : k <= j
  BY DEF Last
<1> HIDE DEF n, S
<1>4. CASE S = {}
  BY <1>1, <1>2, <1>3, <1>4 DEF n
<1>5. CASE S # {}
  <2>1. \E j \in S : \A k \in S : k <= j
    <3>1. S \subseteq Nat /\ \A k \in S : k <= n
      BY <1>1, <1>2
    <3> QED
      BY <1>1, <1>5, <3>1, GreatestNumber
  <2>2. Last(b) \in S /\ \A k \in S : k <= Last(b)
    BY <1>3, <1>5, <2>1
  <2> QED
    BY <1>1, <1>2, <2>2 DEF n
<1> QED
  BY <1>4, <1>5

LEMMA RoundedUpFits ==
  ASSUME NEW n \in Nat, NEW ceil \in Nat, n <= ceil, Multiple(ceil, ByteBits)
  PROVE  RoundUp(n, ByteBits) \in Nat /\ n <= RoundUp(n, ByteBits)
         /\ RoundUp(n, ByteBits) <= ceil
<1>1. PICK k \in Nat : ceil = k * ByteBits
  BY DEF Multiple
<1> QED
  BY <1>1, Sizes, RoundedUp

(* Only zeros are cut off, or put behind the last bit.                     *)
LEMMA TruncateIs ==
  ASSUME NEW p, Sound(p), Multiple(p.ceil, ByteBits),
         p.consumed = 0, p.requests = <<>>
  PROVE  LET t == Truncate(p) IN
         /\ Sound(t) /\ t.limit <= Len(t.bits) /\ t.limit <= p.limit
         /\ t.limit = Lesser(p.limit, Len(t.bits))
         /\ t.consumed = 0 /\ t.requests = <<>> /\ t.ceil = p.ceil
         /\ \A j \in 1 .. Len(t.bits) : j <= Len(p.bits) => t.bits[j] = p.bits[j]
         /\ \A j \in 1 .. Len(p.bits) : j > Len(t.bits) => p.bits[j] = 0
<1> DEFINE t == Truncate(p)
           b == p.bits
           size == RoundUp(Last(b), ByteBits)
           c == [j \in 1 .. size |-> IF j <= Len(b) THEN b[j] ELSE 0]
<1>1. /\ p \in PoolType /\ b \in Bits /\ p.limit \in Nat /\ p.ceil \in Nat
      /\ Len(b) \in Nat /\ Len(b) <= p.ceil /\ p.limit <= PoolLimit
      /\ \A j \in 1 .. Len(b) : b[j] \in {0, 1}
  BY SoundIs
<1>2. Last(b) \in Nat /\ Last(b) <= Len(b) /\ \A j \in 1 .. Len(b) : j > Last(b) => b[j] = 0
  BY <1>1, LastIs
<1>3. size \in Nat /\ Last(b) <= size /\ size <= p.ceil
  BY <1>1, <1>2, RoundedUpFits
<1>4. t = [p EXCEPT !.bits = c, !.limit = Lesser(@, size)]
  BY DEF Truncate, Last, Ones
<1>5. c \in Bits /\ Len(c) = size
  <2> HIDE DEF size, b
  <2>1. c \in [1 .. size -> {0, 1}]
    BY <1>1
  <2> HIDE DEF c
  <2> QED
    BY <1>3, <2>1 DEF Bits
<1>6. \A j \in 1 .. size : j <= Len(b) => c[j] = b[j]
  BY <1>1
<1>7. Lesser(p.limit, size) \in Nat /\ Lesser(p.limit, size) <= p.limit
      /\ Lesser(p.limit, size) <= size
  BY <1>1, <1>3 DEF Lesser
<1> HIDE DEF c, size, b
<1>8. /\ t.bits = c /\ t.limit = Lesser(p.limit, size) /\ t.ceil = p.ceil
      /\ t.consumed = 0 /\ t.requests = <<>>
      /\ t = NewPool(c, p.ceil, Lesser(p.limit, size))
  BY <1>1, <1>4 DEF PoolType, NewPool
<1>9. Sound(t)
  <2>1. Lesser(p.limit, size) <= PoolLimit
    <3>1. PoolLimit \in Nat
      BY PoolAssumption
    <3> QED
      BY <1>1, <1>7, <3>1
  <2>2. Sound(NewPool(c, p.ceil, Lesser(p.limit, size)))
    BY <1>1, <1>3, <1>5, <1>7, <2>1, NewPoolSound
  <2> QED
    BY <1>8, <2>2
<1> HIDE DEF t
<1> QED
  BY <1>1, <1>2, <1>3, <1>5, <1>6, <1>7, <1>8, <1>9 DEF t, b

-----------------------------------------------------------------------------
(* Reading and writing bits.                                               *)

LEMMA ReadIs ==
  ASSUME NEW b \in Bits, NEW off \in Nat, NEW len \in Nat, off + len <= Len(b)
  PROVE  /\ Read(b, off, len) \in Bits /\ Len(Read(b, off, len)) = len
         /\ \A j \in 1 .. len : Read(b, off, len)[j] = b[off + j]
<1>1. /\ Len(b) \in Nat /\ off + 1 \in 1 .. Len(b) + 1 /\ off + len \in off .. Len(b)
      /\ off + len - (off + 1) + 1 = len
  BY DEF Bits
<1> DEFINE s == SubSeq(b, off + 1, off + len)
<1>4. \A i \in off + 1 .. off + len : b[i] \in {0, 1}
  BY <1>1 DEF Bits
<1>5. /\ s \in Seq({0, 1})
      /\ Len(s) = IF off + 1 <= off + len THEN (off + len) - (off + 1) + 1 ELSE 0
      /\ \A j \in 1 .. (off + len) - (off + 1) + 1 : s[j] = b[(off + 1) + j - 1]
  <2> DEFINE x == off + 1
             y == off + len
  <2>1. x \in Int /\ y \in Int /\ \A i \in x .. y : b[i] \in {0, 1}
    BY <1>1, <1>4
  <2> HIDE DEF x, y
  <2>2. /\ SubSeq(b, x, y) \in Seq({0, 1})
        /\ Len(SubSeq(b, x, y)) = IF x <= y THEN y - x + 1 ELSE 0
        /\ \A j \in 1 .. y - x + 1 : SubSeq(b, x, y)[j] = b[x + j - 1]
    BY <2>1, SubSeqProperties
  <2> QED
    BY <2>2 DEF x, y
<1> HIDE DEF s
<1>2. s \in Bits /\ Len(s) = len
  BY <1>5 DEF Bits
<1>3. \A j \in 1 .. len : s[j] = b[off + j]
  <2>1. \A j \in 1 .. len : j \in 1 .. (off + len) - (off + 1) + 1 /\ (off + 1) + j - 1 = off + j
    OBVIOUS
  <2> QED
    BY <1>5, <2>1
<1> QED
  BY <1>2, <1>3 DEF Read, s

LEMMA WriteIs ==
  ASSUME NEW b \in Bits, NEW off \in Nat, NEW c \in Bits, off + Len(c) <= Len(b)
  PROVE  /\ Write(b, off, c) \in Bits /\ Len(Write(b, off, c)) = Len(b)
         /\ \A j \in 1 .. Len(c) : Write(b, off, c)[off + j] = c[j]
         /\ \A j \in 1 .. Len(b) : j \notin off + 1 .. off + Len(c) =>
              Write(b, off, c)[j] = b[j]
<1> DEFINE n == Len(b)
           m == Len(c)
           w == Write(b, off, c)
<1>1. /\ n \in Nat /\ m \in Nat /\ off + m <= n
      /\ \A j \in 1 .. n : b[j] \in {0, 1}
  BY DEF Bits
<1>2. \A j \in 1 .. m : c[j] \in {0, 1}
  BY DEF Bits
<1>3. w = [j \in 1 .. n |-> IF j \in off + 1 .. off + m THEN c[j - off] ELSE b[j]]
  BY DEF Write
<1> HIDE DEF n, m, w
<1>4. \A j \in 1 .. n : j \in off + 1 .. off + m => j - off \in 1 .. m
  BY <1>1
<1>5. \A j \in 1 .. n : w[j] \in {0, 1}
  BY <1>1, <1>2, <1>3, <1>4
<1>6. w \in Bits /\ Len(w) = n
  <2>1. w \in [1 .. n -> {0, 1}]
    BY <1>3, <1>5
  <2> QED
    BY <1>1, <2>1 DEF Bits
<1>7. ASSUME NEW j \in 1 .. m PROVE w[off + j] = c[j]
  <2>1. off + j \in 1 .. n /\ off + j \in off + 1 .. off + m /\ (off + j) - off = j
    BY <1>1
  <2> QED
    BY <1>3, <2>1
<1>8. \A j \in 1 .. n : j \notin off + 1 .. off + m => w[j] = b[j]
  BY <1>3
<1> QED
  BY <1>6, <1>7, <1>8 DEF n, m, w

-----------------------------------------------------------------------------
(* Mutations of bits.                                                      *)

(* Bits of one length differ most significantly somewhere.                 *)
LEMMA LastDifference ==
  ASSUME NEW a \in Bits, NEW b \in Bits, Len(a) = Len(b), a # b
  PROVE  \E j \in 1 .. Len(a) :
           a[j] # b[j] /\ \A k \in j + 1 .. Len(a) : a[k] = b[k]
<1> DEFINE n == Len(a)
           S == {j \in 1 .. n : a[j] # b[j]}
<1>1. n \in Nat
  BY DEF Bits
<1>2. S # {}
  <2>1. \E j \in 1 .. Len(a) : a[j] # b[j]
    BY DEF Bits
  <2> QED
    BY <2>1
<1>3. S \subseteq Nat /\ \A j \in S : j <= n
  BY <1>1
<1> HIDE DEF n
<1>4. PICK j \in S : \A k \in S : k <= j
  <2> HIDE DEF S
  <2> QED
    BY <1>1, <1>2, <1>3, GreatestNumber
<1>5. j \in 1 .. n /\ a[j] # b[j]
  BY <1>4
<1>6. ASSUME NEW k \in j + 1 .. n PROVE a[k] = b[k]
  BY <1>1, <1>4, <1>5
<1> QED
  BY <1>5, <1>6 DEF n

LEMMA BitsOf ==
  ASSUME NEW b \in Bits
  PROVE  Len(b) \in Nat /\ \A j \in 1 .. Len(b) : b[j] \in {0, 1}
BY DEF Bits

LEMMA BitsMade ==
  ASSUME NEW n \in Nat, NEW c \in [1 .. n -> {0, 1}]
  PROVE  c \in Bits /\ Len(c) = n
BY DEF Bits

(* The bits of c are not more than those of b.                             *)
LEMMA Masking ==
  ASSUME NEW b \in Bits, NEW size \in Nat, Len(b) <= size, Len(b) <= WordBits,
         NEW c \in Masked(b, size)
  PROVE  c \in Bits /\ Len(c) = Len(b) /\ (c = b \/ Less(c, b))
<1> DEFINE n == Len(b)
           l == Lesser(size, WordBits)
<1>1. n \in Nat /\ \A j \in 1 .. n : b[j] \in {0, 1}
  BY BitsOf
<1>2. l \in Nat /\ n <= l
  BY <1>1, Sizes DEF Lesser
<1>3. PICK m \in Masks(l) : c = [j \in 1 .. n |-> b[j] * m[j]]
  BY DEF Masked
<1> HIDE DEF n, l
<1>4. m \in [1 .. l -> {0, 1}]
  BY DEF Masks, Strings, ClearLowBits
<1>5. \A j \in 1 .. n : m[j] \in {0, 1}
  BY <1>1, <1>2, <1>4
<1>6. \A j \in 1 .. n : c[j] \in {0, b[j]} /\ c[j] \in {0, 1}
  <2>1. ASSUME NEW j \in 1 .. n PROVE c[j] \in {0, b[j]} /\ c[j] \in {0, 1}
    <3>1. c[j] = b[j] * m[j] /\ b[j] \in {0, 1} /\ m[j] \in {0, 1}
      BY <1>1, <1>3, <1>5
    <3> QED
      BY <3>1
  <2> QED
    BY <2>1
<1>7. c \in Bits /\ Len(c) = n
  <2>1. c \in [1 .. n -> {0, 1}]
    BY <1>3, <1>6
  <2> QED
    BY <1>1, <2>1, BitsMade
<1>8. ASSUME c # b PROVE Less(c, b)
  <2>1. PICK j \in 1 .. Len(c) :
           c[j] # b[j] /\ \A k \in j + 1 .. Len(c) : c[k] = b[k]
    BY <1>7, <1>8, LastDifference DEF n
  <2>2. c[j] < b[j]
    BY <1>1, <1>6, <1>7, <2>1
  <2> QED
    BY <2>1, <2>2 DEF Less
<1> QED
  BY <1>7, <1>8 DEF n

LEMMA Shifting ==
  ASSUME NEW b \in Bits, NEW c \in Shifted(b)
  PROVE  c \in Bits /\ Len(c) = Len(b) /\ (c = b \/ Less(c, b))
<1> DEFINE n == Len(b)
<1>1. n \in Nat /\ \A j \in 1 .. n : b[j] \in {0, 1}
  BY BitsOf
<1>2. PICK s \in 1 .. MaxShift :
        c = [j \in 1 .. n |-> IF j + s <= n THEN b[j + s] ELSE 0]
  BY DEF Shifted
<1>3. s \in Nat \ {0}
  BY PoolAssumption
<1> HIDE DEF n
<1>4. \A j \in 1 .. n : c[j] = IF j + s <= n THEN b[j + s] ELSE 0
  BY <1>2
<1>5. \A j \in 1 .. n : j + s <= n => j + s \in 1 .. n
  BY <1>1, <1>3
<1>6. \A j \in 1 .. n : c[j] \in {0, 1}
  BY <1>1, <1>4, <1>5
<1>7. c \in Bits /\ Len(c) = n
  <2>1. c \in [1 .. n -> {0, 1}]
    BY <1>2, <1>6
  <2> QED
    BY <1>1, <2>1, BitsMade
<1>8. ASSUME c # b PROVE Less(c, b)
  <2>1. PICK j \in 1 .. n :
           c[j] # b[j] /\ \A k \in j + 1 .. n : c[k] = b[k]
    BY <1>7, <1>8, LastDifference DEF n
  <2>2. CASE b[j] = 1
    <3>1. c[j] < b[j]
      BY <1>1, <1>6, <2>1, <2>2
    <3> QED
      BY <1>7, <2>1, <3>1 DEF Less
  <2>3. CASE b[j] # 1
    <3>1. b[j] = 0 /\ c[j] = 1
      BY <1>1, <1>6, <2>1, <2>3
    <3>2. j + s \in 1 .. n /\ b[j + s] = 1
      BY <1>4, <1>5, <3>1
    <3> DEFINE l == Last(b)
    <3>3. l \in 0 .. n /\ \A k \in 1 .. n : k > l => b[k] = 0
      BY LastIs DEF n
    <3>4. l \in 1 .. n /\ j + s <= l /\ b[l] = 1
      <4>1. Ones(b) # {} /\ Ones(b) \subseteq 1 .. n
        BY <3>2 DEF Ones, n
      <4>2. j + s <= l
        BY <1>1, <1>3, <3>2, <3>3
      <4>3. l # 0
        BY <1>3, <3>3, <4>2
      <4>4. \E x \in Ones(b) : \A y \in Ones(b) : y <= x
        <5>1. Ones(b) \subseteq Nat /\ \A x \in Ones(b) : x <= n
          BY <1>1, <4>1
        <5> QED
          BY <1>1, <4>1, <5>1, GreatestNumber
      <4>5. l \in Ones(b)
        BY <4>1, <4>4 DEF Last
      <4> QED
        BY <4>2, <4>5 DEF Ones, n
    <3>5. l \in j + 1 .. n /\ c[l] = 1
      BY <1>1, <1>3, <2>1, <3>4
    <3>6. c[l] = 0
      <4>1. CASE l + s <= n
        <5>1. l + s \in 1 .. n /\ l + s > l
          BY <1>1, <1>3, <3>4, <4>1
        <5> QED
          BY <1>4, <3>3, <3>4, <4>1, <5>1
      <4> QED
        BY <1>4, <3>4, <4>1
    <3> QED
      BY <3>5, <3>6
  <2> QED
    BY <2>2, <2>3
<1> QED
  BY <1>7, <1>8 DEF n

LEMMA Subtracting ==
  ASSUME NEW b \in Bits, NEW c \in Subtracted(b)
  PROVE  c \in Bits /\ Len(c) = Len(b) /\ (c = b \/ Less(c, b))
<1> DEFINE n == Len(b)
<1>1. n \in Nat
  BY BitsOf
<1>2. c = b \/ (c \in Strings(n) /\ Less(c, b))
  BY DEF Subtracted
<1> HIDE DEF n
<1>3. c \in Strings(n) => c \in Bits /\ Len(c) = n
  BY <1>1, BitsMade DEF Strings
<1> QED
  BY <1>2, <1>3 DEF n

(* Where request k is, which comes before the later ones.                  *)
LEMMA Place ==
  ASSUME NEW p, Sound(p), NEW k \in 1 .. Len(p.requests)
  PROVE  /\ Index(p)[k] \in Nat /\ p.requests[k] \in Nat \ {0}
         /\ Index(p)[k] + p.requests[k] <= p.consumed
         /\ \A l \in k + 1 .. Len(p.requests) : Index(p)[k] + p.requests[k] <= Index(p)[l]
<1> DEFINE r == p.requests
           h == Index(p)
           n == Len(r)
<1>1. r \in Seq(Nat) /\ r \in Seq(Nat \ {0}) /\ h[n + 1] = p.consumed
  BY SoundIs DEF Covered
<1>2. IsIndex(h, r)
  BY <1>1, IndexIs
<1> HIDE DEF r, h
<1>3. n \in Nat /\ k \in 1 .. n /\ \A i \in 1 .. n : r[i] \in Nat \ {0}
  BY <1>1 DEF r
<1>4. h \in [1 .. n + 1 -> Nat] /\ h[k + 1] = h[k] + r[k]
  BY <1>1, <1>2, <1>3, IndexSums
<1>5. \A l \in k + 1 .. n + 1 : h[k + 1] <= h[l]
  <2>1. k + 1 \in 1 .. n + 1
    BY <1>3
  <2> QED
    BY <1>1, <1>2, <2>1, IndexGrows
<1>6. n + 1 \in k + 1 .. n + 1 /\ k \in 1 .. n + 1 /\ k + 1 .. n \subseteq k + 1 .. n + 1
  BY <1>3
<1> HIDE DEF n
<1>7. h[k] \in Nat /\ r[k] \in Nat \ {0} /\ h[k] + r[k] <= h[n + 1]
      /\ \A l \in k + 1 .. n : h[k] + r[k] <= h[l]
  BY <1>3, <1>4, <1>5, <1>6
<1> QED
  BY <1>1, <1>7 DEF r, h, n

-----------------------------------------------------------------------------
(* Mutations of a request.                                                 *)

(* Bits are changed between two positions only.                            *)
Outside(new, bits, from, to) ==
  \A j \in 1 .. Len(bits) : j \notin from + 1 .. to => new[j] = bits[j]

LEMMA RegionIs ==
  ASSUME NEW size \in Nat \ {0}, NEW g \in Regions(size)
  PROVE  /\ g[1] \in Nat /\ g[2] \in Nat /\ g[1] + g[2] <= size
         /\ g[2] <= WordBits
         /\ ~ Wide(size) => g[1] = 0 /\ g[2] = size
<1>1. WordBits \in Nat
  BY Sizes
<1>2. CASE ~ Wide(size)
  BY <1>1, <1>2 DEF Regions, Wide
<1>3. CASE Wide(size)
  <2>1. PICK o \in 0 .. size - 1, n \in 0 .. WordBits - 1 : g = <<o, Lesser(n, size - o)>>
    BY <1>3 DEF Regions
  <2>2. Lesser(n, size - o) \in Nat /\ Lesser(n, size - o) <= size - o
        /\ Lesser(n, size - o) <= WordBits
    BY <1>1, <2>1 DEF Lesser
  <2> QED
    BY <1>3, <2>1, <2>2
<1> QED
  BY <1>2, <1>3

(* A region of a request is replaced by one that is not more.              *)
LEMMA AlteredIs ==
  ASSUME Sound(pool), NEW bits \in Bits, pool.consumed <= Len(bits),
         NEW k \in 1 .. Len(pool.requests), NEW kind \in Kinds,
         NEW new \in Altered(bits, k, kind)
  PROVE  LET off == Index(pool)[k]
             size == pool.requests[k]
         IN  /\ new \in Bits /\ Len(new) = Len(bits)
             /\ Outside(new, bits, off, off + size)
             /\ ~ Wide(size) => \/ new = bits
                                \/ Less(Read(new, off, size), Read(bits, off, size))
<1> DEFINE off == Index(pool)[k]
           size == pool.requests[k]
           New(b) == IF b = <<>> THEN {b}
                     ELSE CASE kind = "SHIFT" -> Shifted(b)
                            [] kind = "MASK"  -> Masked(b, size)
                            [] OTHER          -> Subtracted(b)
<1>1. /\ off \in Nat /\ size \in Nat \ {0} /\ off + size <= Len(bits) /\ Len(bits) \in Nat
      /\ off + size \in Nat
  <2>1. off \in Nat /\ size \in Nat \ {0} /\ off + size <= pool.consumed
    BY Place
  <2>2. pool.consumed \in Nat /\ Len(bits) \in Nat
    BY SoundIs, BitsOf
  <2> QED
    BY <2>1, <2>2
<1>2. PICK g \in Regions(size) :
        \E c \in New(Read(bits, off + g[1], g[2])) : new = Write(bits, off + g[1], c)
  BY DEF Altered
<1> HIDE DEF off, size
<1> DEFINE at == off + g[1]
           len == g[2]
           b == Read(bits, at, len)
<1>3. /\ at \in Nat /\ len \in Nat /\ at + len <= off + size /\ off <= at
      /\ len <= size /\ len <= WordBits
      /\ ~ Wide(size) => at = off /\ len = size
  <2>1. /\ g[1] \in Nat /\ g[2] \in Nat /\ g[1] + g[2] <= size /\ g[2] <= WordBits
        /\ ~ Wide(size) => g[1] = 0 /\ g[2] = size
    BY <1>1, RegionIs
  <2> QED
    BY <1>1, <2>1
<1>4. PICK c \in New(b) : new = Write(bits, at, c)
  BY <1>2
<1> HIDE DEF at, len
<1>5. at + len <= Len(bits)
  BY <1>1, <1>3
<1>6. b \in Bits /\ Len(b) = len
  BY <1>3, <1>5, ReadIs
<1>7. c \in Bits /\ Len(c) = len /\ (c = b \/ Less(c, b))
  <2> HIDE DEF b
  <2>1. CASE b = <<>>
    BY <1>4, <1>6, <2>1
  <2>2. CASE b # <<>> /\ kind = "SHIFT"
    <3>1. c \in Shifted(b)
      BY <1>4, <2>2
    <3> QED
      BY <1>6, <3>1, Shifting
  <2>3. CASE b # <<>> /\ kind = "MASK"
    <3>1. c \in Masked(b, size)
      BY <1>4, <2>3
    <3>2. size \in Nat /\ Len(b) <= size /\ Len(b) <= WordBits
      BY <1>1, <1>3, <1>6
    <3> QED
      BY <1>6, <3>1, <3>2, Masking
  <2>4. CASE b # <<>> /\ kind # "SHIFT" /\ kind # "MASK"
    <3>1. c \in Subtracted(b)
      BY <1>4, <2>4
    <3> QED
      BY <1>6, <3>1, Subtracting
  <2> QED
    BY <2>1, <2>2, <2>3, <2>4
<1>8. /\ new \in Bits /\ Len(new) = Len(bits)
      /\ \A j \in 1 .. len : new[at + j] = c[j]
      /\ \A j \in 1 .. Len(bits) : j \notin at + 1 .. at + len => new[j] = bits[j]
  <2>1. new = Write(bits, at, c)
    BY <1>4
  <2>2. c \in Bits /\ at \in Nat /\ at + Len(c) <= Len(bits) /\ Len(c) = len
    BY <1>3, <1>5, <1>7
  <2> HIDE DEF b, New
  <2> QED
    BY <2>1, <2>2, WriteIs
<1>9. Outside(new, bits, off, off + size)
  <2>1. \A j \in 1 .. Len(bits) : j \notin off + 1 .. off + size => j \notin at + 1 .. at + len
    BY <1>1, <1>3
  <2> QED
    BY <1>8, <2>1 DEF Outside
<1>10. ASSUME ~ Wide(size)
       PROVE  new = bits \/ Less(Read(new, off, size), Read(bits, off, size))
  <2>1. Read(new, off, size) = c /\ Read(bits, off, size) = b
    <3> DEFINE d == Read(new, at, len)
    <3>1. d \in Bits /\ Len(d) = len /\ \A j \in 1 .. len : d[j] = new[at + j]
      BY <1>3, <1>5, <1>8, ReadIs
    <3>2. \A j \in 1 .. len : d[j] = c[j]
      BY <1>8, <3>1
    <3> HIDE DEF d
    <3>3. d = c
      BY <1>7, <3>1, <3>2 DEF Bits
    <3> QED
      BY <1>3, <1>10, <3>3 DEF d
  <2>2. CASE c = b
    <3>1. \A j \in 1 .. len : b[j] = bits[at + j]
      BY <1>3, <1>5, ReadIs
    <3>2. \A j \in 1 .. Len(bits) : new[j] = bits[j]
      <4>1. ASSUME NEW j \in 1 .. Len(bits), j \in at + 1 .. at + len PROVE new[j] = bits[j]
        <5>1. j - at \in 1 .. len /\ at + (j - at) = j
          BY <1>3, <4>1
        <5>2. new[at + (j - at)] = c[j - at] /\ b[j - at] = bits[at + (j - at)]
          BY <1>8, <3>1, <5>1
        <5> QED
          BY <2>2, <5>1, <5>2
      <4> QED
        BY <1>8, <4>1
    <3>3. new = bits
      BY <1>8, <3>2 DEF Bits
    <3> QED
      BY <3>3
  <2> QED
    BY <1>7, <2>1, <2>2
<1> QED
  BY <1>8, <1>9, <1>10 DEF off, size

(* Two pieces change places.                                               *)
LEMMA SwappingIs ==
  ASSUME NEW bits \in Bits, NEW a \in Nat, NEW b \in Nat, NEW len \in Nat,
         a + len <= Len(bits), b + len <= Len(bits),
         a + len <= b \/ b + len <= a
  PROVE  LET new == SwapAt(bits, a, b, len) IN
         /\ new \in Bits /\ Len(new) = Len(bits)
         /\ Read(new, a, len) = Read(bits, b, len)
         /\ \A j \in 1 .. Len(bits) :
              j \notin a + 1 .. a + len /\ j \notin b + 1 .. b + len => new[j] = bits[j]
<1> DEFINE x == Read(bits, b, len)
           y == Read(bits, a, len)
           half == Write(bits, a, x)
           new == Write(half, b, y)
<1>1. x \in Bits /\ Len(x) = len /\ y \in Bits /\ Len(y) = len /\ Len(bits) \in Nat
  BY ReadIs, BitsOf
<1> HIDE DEF x, y, new
<1>2. /\ half \in Bits /\ Len(half) = Len(bits)
      /\ \A j \in 1 .. len : half[a + j] = x[j]
      /\ \A j \in 1 .. Len(bits) : j \notin a + 1 .. a + len => half[j] = bits[j]
  <2>1. a + Len(x) <= Len(bits) /\ x \in Bits
    BY <1>1
  <2> HIDE DEF half
  <2>2. half = Write(bits, a, x)
    BY DEF half
  <2>3. /\ Write(bits, a, x) \in Bits /\ Len(Write(bits, a, x)) = Len(bits)
        /\ \A j \in 1 .. Len(x) : Write(bits, a, x)[a + j] = x[j]
        /\ \A j \in 1 .. Len(bits) : j \notin a + 1 .. a + Len(x) =>
             Write(bits, a, x)[j] = bits[j]
    BY <2>1, WriteIs
  <2> QED
    BY <1>1, <2>2, <2>3
<1> HIDE DEF half
<1>3. /\ new \in Bits /\ Len(new) = Len(bits)
      /\ \A j \in 1 .. Len(bits) : j \notin b + 1 .. b + len => new[j] = half[j]
  <2>1. b + Len(y) <= Len(half) /\ half \in Bits /\ y \in Bits
    BY <1>1, <1>2
  <2>2. new = Write(half, b, y)
    BY DEF new
  <2> QED
    BY <1>1, <1>2, <2>1, <2>2, WriteIs
<1>4. SwapAt(bits, a, b, len) = new
  BY DEF SwapAt, new, half, x, y
<1> HIDE DEF new
<1>5. \A j \in 1 .. len : new[a + j] = x[j]
  <2>1. \A j \in 1 .. len : a + j \in 1 .. Len(bits) /\ a + j \notin b + 1 .. b + len
    BY <1>1
  <2> QED
    BY <1>2, <1>3, <2>1
<1>6. Read(new, a, len) = x
  <2> DEFINE d == Read(new, a, len)
  <2>1. d \in Bits /\ Len(d) = len /\ \A j \in 1 .. len : d[j] = new[a + j]
    BY <1>3, ReadIs
  <2>2. \A j \in 1 .. len : d[j] = x[j]
    BY <1>5, <2>1
  <2> HIDE DEF d
  <2>3. d = x
    BY <1>1, <2>1, <2>2 DEF Bits
  <2> QED
    BY <2>3 DEF d
<1> QED
  BY <1>2, <1>3, <1>4, <1>6 DEF x

(* Either nothing changes, or a request takes a smaller, later value, or   *)
(* pieces of one wide request change places.                               *)
LEMMA SwappedIs ==
  ASSUME Sound(pool), NEW bits \in Bits, pool.consumed <= Len(bits),
         NEW k \in 1 .. Len(pool.requests), NEW new \in Swapped(bits, k)
  PROVE  LET off == Index(pool)[k]
             size == pool.requests[k]
         IN  /\ new \in Bits /\ Len(new) = Len(bits)
             /\ Outside(new, bits, off, Len(bits))
             /\ ~ Wide(size) => \/ new = bits
                                \/ Less(Read(new, off, size), Read(bits, off, size))
<1> DEFINE at == Index(pool)
           off == at[k]
           size == pool.requests[k]
           later == SmallerLater(bits, k)
           Pieces(n) == {q \in (0 .. size - n - 1) \X (0 .. size - 2 * n - 1) :
                      /\ q[1] + n <= q[2] \/ q[2] + n <= q[1]
                      /\ Less(Read(bits, at[k] + q[2], n), Read(bits, at[k] + q[1], n))}
<1>1. /\ off \in Nat /\ size \in Nat \ {0} /\ off + size <= pool.consumed
      /\ pool.consumed \in Nat /\ Len(bits) \in Nat /\ off + size <= Len(bits)
  <2>1. off \in Nat /\ size \in Nat \ {0} /\ off + size <= pool.consumed
    BY Place
  <2>2. pool.consumed \in Nat /\ Len(bits) \in Nat
    BY SoundIs, BitsOf
  <2> HIDE DEF off, size
  <2> QED
    BY <2>1, <2>2
<1>2. CASE new = bits
  BY <1>2 DEF Outside
<1>3. CASE new # bits /\ ~ Wide(size)
  <2>1. PICK i \in later : new = SwapAt(bits, off, at[i], size)
    BY <1>3 DEF Swapped
  <2>2. /\ i \in k + 1 .. Len(pool.requests) /\ pool.requests[i] = size
        /\ Less(Read(bits, at[i], size), Read(bits, off, size))
    BY DEF SmallerLater
  <2>3. i \in 1 .. Len(pool.requests)
    BY <2>2
  <2> DEFINE b == at[i]
  <2>4. b \in Nat /\ b + size <= pool.consumed /\ off + size <= b
    BY <2>2, <2>3, Place
  <2> HIDE DEF b, off, size
  <2>5. /\ new \in Bits /\ Len(new) = Len(bits)
        /\ Read(new, off, size) = Read(bits, b, size)
        /\ \A j \in 1 .. Len(bits) :
             j \notin off + 1 .. off + size /\ j \notin b + 1 .. b + size => new[j] = bits[j]
    <3>1. off + size <= Len(bits) /\ b + size <= Len(bits) /\ size \in Nat
      BY <1>1, <2>4
    <3>2. new = SwapAt(bits, off, b, size)
      BY <2>1 DEF b, off, size
    <3> QED
      BY <1>1, <2>4, <3>1, <3>2, SwappingIs
  <2>6. Outside(new, bits, off, Len(bits))
    <3>1. \A j \in 1 .. Len(bits) : j \notin off + 1 .. Len(bits) =>
            j \notin off + 1 .. off + size /\ j \notin b + 1 .. b + size
      BY <1>1, <2>4
    <3> QED
      BY <2>5, <3>1 DEF Outside
  <2>7. Less(Read(new, off, size), Read(bits, off, size))
    BY <2>2, <2>5 DEF b, off, size
  <2> QED
    BY <2>5, <2>6, <2>7 DEF off, size
<1>4. CASE new # bits /\ Wide(size)
  <2>1. PICK n \in 1 .. WordBits - 1 :
          2 * n < size /\ \E q \in Pieces(n) : new = SwapAt(bits, off + q[1], off + q[2], n)
    BY <1>4 DEF Swapped
  <2>2. PICK q \in Pieces(n) : new = SwapAt(bits, off + q[1], off + q[2], n)
    BY <2>1
  <2> DEFINE a == off + q[1]
             b == off + q[2]
  <2>3. /\ q[1] \in Nat /\ q[2] \in Nat /\ q[1] + n <= size /\ q[2] + n <= size
        /\ q[1] + n <= q[2] \/ q[2] + n <= q[1]
    <3>1. /\ q[1] \in 0 .. size - n - 1 /\ q[2] \in 0 .. size - 2 * n - 1
          /\ q[1] + n <= q[2] \/ q[2] + n <= q[1]
      BY <2>2
    <3>2. size \in Nat /\ n \in Nat /\ n > 0
      BY <1>1, <2>1
    <3> DEFINE x == q[1]
               y == q[2]
    <3>3. x \in 0 .. size - n - 1 /\ y \in 0 .. size - 2 * n - 1
      BY <3>1
    <3> HIDE DEF size, x, y
    <3>4. x \in Nat /\ y \in Nat /\ x + n <= size /\ y + n <= size
      BY <3>2, <3>3
    <3> QED
      BY <3>1, <3>4 DEF x, y
  <2> HIDE DEF off, size
  <2>4. /\ a \in Nat /\ b \in Nat /\ n \in Nat /\ a + n <= Len(bits) /\ b + n <= Len(bits)
        /\ off <= a /\ off <= b /\ (a + n <= b \/ b + n <= a)
    <3>1. /\ off \in Nat /\ size \in Nat /\ off + size <= Len(bits) /\ Len(bits) \in Nat
      BY <1>1
    <3> DEFINE x == q[1]
               y == q[2]
    <3>2. x \in Nat /\ y \in Nat /\ n \in Nat /\ x + n <= size /\ y + n <= size
          /\ (x + n <= y \/ y + n <= x)
      BY <2>1, <2>3
    <3> HIDE DEF x, y
    <3>3. /\ off + x \in Nat /\ off + y \in Nat
          /\ (off + x) + n <= Len(bits) /\ (off + y) + n <= Len(bits)
          /\ off <= off + x /\ off <= off + y
      BY <3>1, <3>2
    <3>4. (off + x) + n <= off + y \/ (off + y) + n <= off + x
      BY <3>1, <3>2
    <3> QED
      BY <3>2, <3>3, <3>4 DEF x, y
  <2>5. new = SwapAt(bits, a, b, n)
    BY <2>2
  <2> HIDE DEF a, b
  <2>6. /\ new \in Bits /\ Len(new) = Len(bits)
        /\ \A j \in 1 .. Len(bits) :
             j \notin a + 1 .. a + n /\ j \notin b + 1 .. b + n => new[j] = bits[j]
    BY <2>4, <2>5, SwappingIs
  <2>7. Outside(new, bits, off, Len(bits))
    <3>1. \A j \in 1 .. Len(bits) : j \notin off + 1 .. Len(bits) =>
            j \notin a + 1 .. a + n /\ j \notin b + 1 .. b + n
      BY <1>1, <2>4
    <3> QED
      BY <2>6, <3>1 DEF Outside
  <2> QED
    BY <1>4, <2>6, <2>7 DEF off, size
<1> QED
  BY <1>2, <1>3, <1>4

-----------------------------------------------------------------------------
(* The invariant of the pools, and the steps that keep it.                 *)

(* The callback asks for a number of bits, whatever it has been given.     *)
WantsAreNumbers == \A g \in Bits : Wants(g) \in Nat

(* A pool that is being filled has whole words.                            *)
Filling ==
  pc = "gen" => /\ Multiple(Len(pool.bits), WordBits)
                /\ Multiple(pool.ceil, WordBits) /\ pool.ceil # 0

(* The copy has the bits of the pool to change, and none of its requests.  *)
Changing ==
  pc = "mutate" => /\ Len(work.bits) = Len(pool.bits) /\ Multiple(work.ceil, ByteBits)
                   /\ work.consumed = 0 /\ work.requests = <<>>

(* Truncation leaves no more of the limit than there are bits.             *)
Rebuilding == pc = "regen" => work.limit <= Len(work.bits)

PoolInv ==
  /\ pc \in {"gen", "ready", "mutate", "regen", "try", "over"}
  /\ Sound(pool) /\ Sound(work)
  /\ inst \in Bits /\ got \in Bits
  /\ tactic \in 0 .. MaxFailed
  /\ pc \in {"mutate", "regen", "try"} => tactic < MaxFailed
  /\ todo \in Nat /\ tries \in Nat
  /\ tried \subseteq Kinds
  /\ Filling /\ Changing /\ Rebuilding

LEMMA NaturalBounds ==
  /\ MaxFailed \in Nat /\ MaxChanges \in Nat /\ Retries \in Nat /\ PoolLimit \in Nat
BY PoolAssumption

LEMMA PoolBegins == Init => PoolInv
<1> SUFFICES ASSUME Init PROVE PoolInv
  OBVIOUS
<1>1. pool = NewPool(<<>>, PoolSize, PoolLimit) /\ work = pool
  BY DEF Init
<1>2. PoolSize \in Nat \ {0} /\ PoolSize % WordBits = 0 /\ PoolLimit \in Nat
  BY PoolAssumption
<1>3. <<>> \in Bits /\ Len(<<>>) = 0
  BY DEF Bits
<1>4. Sound(pool)
  BY <1>1, <1>2, <1>3, NewPoolSound
<1>5. Multiple(PoolSize, WordBits)
  <2>1. PoolSize \div WordBits \in Nat /\ PoolSize = (PoolSize \div WordBits) * WordBits
    <3>1. WordBits \in Nat \ {0} /\ PoolSize \in Nat \ {0} /\ PoolSize % WordBits = 0
      BY <1>2, Sizes
    <3> QED
      BY <3>1, SMT
  <2> QED
    BY <2>1 DEF Multiple
<1>6. Multiple(0, WordBits)
  <2>1. 0 \in Nat /\ 0 = 0 * WordBits
    BY Sizes
  <2> QED
    BY <2>1 DEF Multiple
<1>7. Filling
  BY <1>1, <1>2, <1>3, <1>5, <1>6 DEF Filling, NewPool
<1> QED
  BY <1>1, <1>3, <1>4, <1>7, NaturalBounds DEF Init, PoolInv, Changing, Rebuilding

LEMMA FillWordKeeps ==
  ASSUME WantsAreNumbers, PoolInv, NEW w \in Words, FillWord(w)
  PROVE  PoolInv'
<1> DEFINE need == pool.consumed + Wants(got)
           bits == pool.bits \o w
           n == Len(pool.bits)
           ceil == Grown(pool.ceil, need)
<1>1. /\ pc = "gen" /\ need > n /\ Wants(got) \in Nat
      /\ pool' = [pool EXCEPT !.bits = bits, !.ceil = ceil]
      /\ UNCHANGED <<pc, inst, work, got, tactic, todo, tries, modelVars>>
  BY DEF FillWord, WantsAreNumbers, PoolInv
<1>2. /\ pool \in PoolType /\ pool.bits \in Bits /\ pool.consumed \in Nat /\ n \in Nat
      /\ pool.ceil \in Nat \ {0} /\ n <= pool.ceil /\ pool.consumed <= n
      /\ pool.limit \in Nat /\ pool.limit <= PoolLimit /\ pool.consumed <= pool.limit
      /\ pool.requests \in Seq(Nat \ {0}) /\ Covered(pool)
  BY <1>1, SoundIs DEF PoolInv, Filling
<1>3. w \in Bits /\ Len(w) = WordBits
  <2>1. w \in [1 .. WordBits -> {0, 1}]
    BY PoolAssumption DEF Strings
  <2> QED
    BY <2>1, Sizes, BitsMade
<1>4. bits \in Bits /\ Len(bits) = n + WordBits
  <2> DEFINE b == pool.bits
  <2>1. b \in Seq({0, 1}) /\ w \in Seq({0, 1})
    BY <1>2, <1>3 DEF Bits
  <2> HIDE DEF b
  <2>2. b \o w \in Seq({0, 1}) /\ Len(b \o w) = Len(b) + Len(w)
    BY <2>1
  <2> QED
    BY <1>3, <2>2 DEF b, Bits
<1>5. need \in Nat
  BY <1>1, <1>2
<1>6. ceil \in Nat \ {0} /\ ceil >= need /\ Multiple(ceil, pool.ceil)
  <2> HIDE DEF need
  <2> QED
    BY <1>2, <1>5, GrownIs
<1> HIDE DEF bits, ceil
<1>7. PICK a \in Nat, b \in Nat, c \in Nat :
        n = a * WordBits /\ pool.ceil = b * WordBits /\ ceil = c * pool.ceil
  BY <1>1, <1>6 DEF PoolInv, Filling, Multiple
<1> HIDE DEF n, need
<1>8. ceil = (c * b) * WordBits /\ c * b \in Nat
  BY <1>7, Sizes, SMT
<1>9. n + WordBits = (a + 1) * WordBits /\ a + 1 \in Nat
  BY <1>7, Sizes, SMT
<1>10. n + WordBits <= ceil
  <2> DEFINE d == c * b
  <2>1. d \in Nat /\ ceil = d * WordBits /\ a * WordBits < d * WordBits
    BY <1>1, <1>2, <1>5, <1>6, <1>7, <1>8
  <2> HIDE DEF d
  <2>2. a < d
    BY <2>1, Sizes, SMT
  <2>3. (a + 1) * WordBits <= d * WordBits
    BY <2>1, <2>2, Sizes, SMT
  <2> QED
    BY <1>9, <2>1, <2>3
<1>11. /\ pool'.bits = bits /\ pool'.ceil = ceil /\ pool'.limit = pool.limit
       /\ pool'.consumed = pool.consumed /\ pool'.requests = pool.requests
       /\ pool' \in PoolType
  BY <1>1, <1>2, <1>4, <1>6 DEF PoolType, Bits
<1>12. Sound(pool')
  <2>1. PoolOK(pool')
    <3>1. pool.consumed <= n + WordBits
      <4>1. WordBits \in Nat
        BY Sizes
      <4> QED
        BY <1>2, <4>1
    <3> QED
      BY <1>2, <1>4, <1>10, <1>11, <3>1 DEF PoolOK, Bits
  <2>2. Covered(pool')
    BY <1>2, <1>11 DEF Covered, Index
  <2> QED
    BY <1>11, <2>1, <2>2 DEF Sound
<1>13. Filling'
  BY <1>4, <1>6, <1>8, <1>9, <1>11 DEF Filling, Multiple
<1> QED
  BY <1>1, <1>12, <1>13 DEF PoolInv, Changing, Rebuilding, modelVars

LEMMA RequestKeeps ==
  ASSUME WantsAreNumbers, PoolInv, NEW g \in Buffers, Request(g)
  PROVE  PoolInv'
<1> DEFINE n == Wants(got)
<1>1. n \in Nat /\ got \in Bits
  BY DEF WantsAreNumbers, PoolInv
<1>2. UNCHANGED <<pc, inst, tactic, todo, tries, modelVars>>
  BY DEF Request
<1>3. CASE /\ pc = "gen"
           /\ pool.consumed + n <= Len(pool.bits)
           /\ got' = got \o Answer(pool, n, g)
           /\ pool' = Serve(pool, n)
           /\ UNCHANGED work
  <2> HIDE DEF n
  <2>1. pool.consumed + Grant(pool, n) <= Len(pool.bits) /\ Sound(pool)
    <3>1. Sound(pool) /\ pool.consumed \in Nat /\ Len(pool.bits) \in Nat
      BY SoundIs DEF PoolInv
    <3>2. Grant(pool, n) \in Nat /\ Grant(pool, n) <= n
      BY <1>1, <3>1, GrantIs
    <3> QED
      BY <1>1, <1>3, <3>1, <3>2
  <2>2. got' \in Bits
    BY <1>1, <1>3, <2>1, AnswerIs, BufferBits DEF Bits
  <2>3. Sound(pool') /\ pool'.bits = pool.bits /\ pool'.ceil = pool.ceil
    BY <1>1, <1>3, <2>1, ServeKeeps
  <2> QED
    BY <1>2, <1>3, <2>2, <2>3 DEF PoolInv, Filling, Changing, Rebuilding, modelVars
<1>4. CASE /\ pc = "regen"
           /\ got' = got \o Answer(work, n, g)
           /\ work' = Serve(work, n)
           /\ UNCHANGED pool
  <2> HIDE DEF n
  <2>1. work.consumed + Grant(work, n) <= Len(work.bits) /\ Sound(work)
    <3>1. /\ Sound(work) /\ work.consumed \in Nat /\ Len(work.bits) \in Nat
          /\ work.limit \in Nat /\ work.limit <= Len(work.bits)
      BY <1>4, SoundIs DEF PoolInv, Rebuilding
    <3>2. Grant(work, n) \in Nat /\ work.consumed + Grant(work, n) <= work.limit
      BY <1>1, <3>1, GrantIs
    <3> QED
      BY <3>1, <3>2
  <2>2. got' \in Bits
    BY <1>1, <1>4, <2>1, AnswerIs, BufferBits DEF Bits
  <2>3. Sound(work') /\ work'.bits = work.bits /\ work'.limit = work.limit
    BY <1>1, <1>4, <2>1, ServeKeeps
  <2> QED
    BY <1>2, <1>4, <2>2, <2>3 DEF PoolInv, Filling, Changing, Rebuilding, modelVars
<1> QED
  BY <1>3, <1>4 DEF Request

(* What a rebuild begins with.                                             *)
LEMMA RebuildKeeps ==
  ASSUME PoolInv, NEW p, Sound(p), Multiple(p.ceil, ByteBits),
         p.consumed = 0, p.requests = <<>>, Rebuild(p),
         tactic < MaxFailed, UNCHANGED <<pool, inst, tactic>>,
         todo' \in Nat, tries' \in Nat, tried' \subseteq Kinds
  PROVE  PoolInv'
<1>1. pc' = "regen" /\ work' = Truncate(p) /\ got' = <<>>
  BY DEF Rebuild
<1>2. Sound(work') /\ work'.limit <= Len(work'.bits)
  BY <1>1, TruncateIs
<1>3. <<>> \in Bits
  BY DEF Bits
<1> QED
  BY <1>1, <1>2, <1>3 DEF PoolInv, Filling, Changing, Rebuilding

LEMMA CopyIs ==
  ASSUME Sound(pool), NEW bits \in Bits, Len(bits) <= Len(pool.bits)
  PROVE  LET p == Copy(bits) IN
         /\ Sound(p) /\ Multiple(p.ceil, ByteBits)
         /\ p.bits = bits /\ p.limit = pool.limit /\ p.consumed = 0 /\ p.requests = <<>>
<1> DEFINE n == Len(pool.bits)
           ceil == RoundUp(n, WordBits)
<1>1. n \in Nat /\ pool.limit \in Nat /\ pool.limit <= PoolLimit /\ Len(bits) \in Nat
  BY SoundIs, BitsOf
<1>2. Copy(bits) = NewPool(bits, ceil, pool.limit)
  BY DEF Copy
<1> HIDE DEF n
<1>3. ceil \in Nat /\ n <= ceil /\ Multiple(ceil, WordBits)
  BY <1>1, Sizes, RoundedUp DEF Multiple
<1> HIDE DEF ceil
<1>4. Multiple(ceil, ByteBits) /\ Len(bits) <= ceil
  BY <1>1, <1>3, MultipleOfBytes DEF n
<1>5. Sound(Copy(bits))
  BY <1>1, <1>2, <1>3, <1>4, NewPoolSound
<1> QED
  BY <1>2, <1>4, <1>5 DEF NewPool

LEMMA DropKeeps ==
  ASSUME PoolInv, NEW D, Drop(D)
  PROVE  PoolInv'
<1>1. Sound(pool) /\ pool.consumed \in Nat /\ pool.consumed <= Len(pool.bits)
      /\ Len(pool.bits) \in Nat /\ \A j \in 1 .. pool.consumed : pool.bits[j] \in {0, 1}
  <2>1. Sound(pool)
    BY DEF PoolInv
  <2>2. /\ pool.consumed \in Nat /\ pool.consumed <= Len(pool.bits) /\ Len(pool.bits) \in Nat
        /\ \A j \in 1 .. Len(pool.bits) : pool.bits[j] \in {0, 1}
    BY <2>1, SoundIs
  <2> QED
    BY <2>1, <2>2
<1>2. PICK gone : Rebuild(Copy(Kept(pool, gone)))
  BY DEF Drop
<1> DEFINE bits == Kept(pool, gone)
<1>3. bits \in Bits /\ Len(bits) <= Len(pool.bits)
  <2>1. bits \in Bits /\ Len(bits) <= pool.consumed
    BY <1>1, KeptIs DEF Bits
  <2>2. Len(bits) \in Nat
    BY <2>1, BitsOf
  <2> QED
    BY <1>1, <2>1, <2>2
<1> HIDE DEF bits
<1> DEFINE p == Copy(bits)
<1>4. Sound(p) /\ Multiple(p.ceil, ByteBits) /\ p.consumed = 0 /\ p.requests = <<>>
  BY <1>1, <1>3, CopyIs
<1>5. Rebuild(p)
  BY <1>2 DEF bits
<1>6. /\ tactic < MaxFailed /\ UNCHANGED <<pool, inst, tactic>>
      /\ todo' \in Nat /\ tries' \in Nat /\ tried' \subseteq Kinds
  BY DEF Drop, InitModel, PoolInv
<1> HIDE DEF p
<1> QED
  BY <1>4, <1>5, <1>6, RebuildKeeps

LEMMA MutateBeginsKeeps ==
  ASSUME PoolInv, NEW c, MutateBegins(c)
  PROVE  PoolInv'
<1>1. /\ tactic < MaxFailed /\ tried' = {} /\ work' = Copy(pool.bits)
      /\ todo' = c /\ tries' = Retries * c /\ pc' = "mutate"
      /\ UNCHANGED <<pool, inst, got, tactic>>
  BY DEF MutateBegins, InitModel
<1>2. Sound(pool) /\ pool.bits \in Bits /\ Len(pool.bits) \in Nat
  BY SoundIs DEF PoolInv
<1>3. /\ Sound(work') /\ Multiple(work'.ceil, ByteBits)
      /\ work'.bits = pool.bits /\ work'.consumed = 0 /\ work'.requests = <<>>
  <2>1. Len(pool.bits) <= Len(pool.bits)
    BY <1>2
  <2> QED
    BY <1>1, <1>2, <2>1, CopyIs
<1>4. c \in Nat
  <2>1. Len(pool.requests) \in Nat
    BY <1>2, SoundIs
  <2>2. c \in ChangeCounts(pool)
    BY DEF MutateBegins
  <2>3. \E most : \E x \in 1 .. most + 1 : c \in {Lesser(x, Len(pool.requests)), x}
    BY <2>2 DEF ChangeCounts
  <2>5. PICK most, x : x \in 1 .. most + 1 /\ c \in {Lesser(x, Len(pool.requests)), x}
    BY <2>3
  <2>4. x \in Nat
    BY <2>5
  <2> QED
    BY <2>1, <2>5, <2>4 DEF Lesser
<1>5. tries' \in Nat
  BY <1>1, <1>4, NaturalBounds
<1> QED
  BY <1>1, <1>2, <1>3, <1>4, <1>5 DEF PoolInv, Filling, Changing, Rebuilding

LEMMA Mutated ==
  ASSUME PoolInv, NEW kind \in Kinds, MutateTry(kind)
  PROVE  \E k \in 1 .. Len(pool.requests) :
           LET off == Index(pool)[k]
               size == pool.requests[k]
               bits == work.bits
               new == work'.bits
           IN  /\ new \in Bits /\ Len(new) = Len(bits)
               /\ Outside(new, bits, off, Len(bits))
               /\ ~ Wide(size) => \/ new = bits
                                  \/ Less(Read(new, off, size), Read(bits, off, size))
               /\ IF new = bits THEN UNCHANGED <<todo, set>>
                  ELSE todo' = todo - 1 /\ set' = set \union {kind}
               /\ work' = [work EXCEPT !.bits = new]
<1> DEFINE bits == work.bits
<1>1. PICK k \in 1 .. Len(pool.requests) :
        \E new \in (IF kind = "SWAP" THEN Swapped(bits, k) ELSE Altered(bits, k, kind)) :
        /\ work' = [work EXCEPT !.bits = new]
        /\ IF new = bits THEN UNCHANGED <<todo, set>>
           ELSE todo' = todo - 1 /\ set' = set \union {kind}
  BY DEF MutateTry
<1>5. PICK new \in (IF kind = "SWAP" THEN Swapped(bits, k) ELSE Altered(bits, k, kind)) :
        /\ work' = [work EXCEPT !.bits = new]
        /\ IF new = bits THEN UNCHANGED <<todo, set>>
           ELSE todo' = todo - 1 /\ set' = set \union {kind}
  BY <1>1
<1>2. /\ Sound(pool) /\ work \in PoolType /\ bits \in Bits
      /\ pool.consumed <= Len(bits) /\ Len(bits) \in Nat
  <2>1. Sound(pool) /\ Sound(work) /\ Len(bits) = Len(pool.bits)
    BY DEF PoolInv, Changing, MutateTry
  <2> QED
    BY <2>1, SoundIs
<1> HIDE DEF bits
<1> DEFINE off == Index(pool)[k]
           size == pool.requests[k]
<1>3. /\ new \in Bits /\ Len(new) = Len(bits)
      /\ Outside(new, bits, off, Len(bits))
      /\ ~ Wide(size) => \/ new = bits
                         \/ Less(Read(new, off, size), Read(bits, off, size))
  <2>1. CASE kind = "SWAP"
    <3>1. new \in Swapped(bits, k)
      BY <1>5, <2>1
    <3> QED
      BY <1>2, <3>1, SwappedIs
  <2>2. CASE kind # "SWAP"
    <3>1. new \in Altered(bits, k, kind)
      BY <1>5, <2>2
    <3>2. /\ new \in Bits /\ Len(new) = Len(bits)
          /\ Outside(new, bits, off, off + size)
          /\ ~ Wide(size) => \/ new = bits
                             \/ Less(Read(new, off, size), Read(bits, off, size))
      BY <1>2, <3>1, AlteredIs
    <3>3. /\ off \in Nat /\ size \in Nat /\ off + size <= Len(bits)
      <4>1. off \in Nat /\ size \in Nat \ {0} /\ off + size <= pool.consumed
        BY <1>2, Place
      <4>2. pool.consumed \in Nat
        BY <1>2, SoundIs
      <4> HIDE DEF off, size
      <4> QED
        BY <1>2, <4>1, <4>2
    <3> HIDE DEF off, size
    <3>4. \A j \in 1 .. Len(bits) : j \notin off + 1 .. Len(bits) => j \notin off + 1 .. off + size
      BY <1>2, <3>3
    <3> QED
      BY <3>2, <3>4 DEF Outside
  <2> QED
    BY <2>1, <2>2
<1>4. work'.bits = new
  BY <1>5, <1>2 DEF PoolType
<1> HIDE DEF off, size
<1> QED
  BY <1>5, <1>3, <1>4 DEF off, size, bits

LEMMA MutateTryKeeps ==
  ASSUME PoolInv, NEW kind \in Kinds, MutateTry(kind)
  PROVE  PoolInv'
<1> DEFINE new == work'.bits
<1>1. /\ new \in Bits /\ Len(new) = Len(work.bits) /\ work' = [work EXCEPT !.bits = new]
      /\ todo' \in {todo, todo - 1}
  BY Mutated
<1>2. /\ pc = "mutate" /\ todo > 0 /\ tries > 0 /\ tries' = tries - 1
      /\ tried' = tried \union {kind}
      /\ UNCHANGED <<pc, pool, inst, got, tactic, weights>>
  BY DEF MutateTry
<1>3. /\ Sound(work) /\ work \in PoolType /\ work.ceil \in Nat /\ work.limit \in Nat
      /\ Len(work.bits) <= work.ceil /\ work.limit <= PoolLimit
      /\ work.consumed = 0 /\ work.requests = <<>>
  BY <1>2, SoundIs DEF PoolInv, Changing
<1>4. work' = NewPool(new, work.ceil, work.limit)
  <2> HIDE DEF new
  <2> QED
    BY <1>1, <1>3 DEF PoolType, NewPool
<1> HIDE DEF new
<1>5. Sound(work')
  BY <1>1, <1>3, <1>4, NewPoolSound
<1>6. todo' \in Nat /\ tries' \in Nat
  BY <1>1, <1>2 DEF PoolInv
<1>7. Changing'
  BY <1>1, <1>2, <1>4 DEF PoolInv, Changing, NewPool
<1> QED
  BY <1>2, <1>5, <1>6, <1>7 DEF PoolInv, Filling, Rebuilding

(* What mutation leaves of the limit.                                      *)
Halved == [work EXCEPT !.limit = Lesser(@,
             pool.consumed + (Len(pool.bits) - pool.consumed) \div 2)]

LEMMA HalvedIs ==
  ASSUME PoolInv, pc = "mutate"
  PROVE  /\ Sound(Halved) /\ Multiple(Halved.ceil, ByteBits)
         /\ Halved.consumed = 0 /\ Halved.requests = <<>> /\ Halved.bits = work.bits
         /\ Halved.limit <= work.limit
         /\ Halved.limit >= Lesser(work.limit, pool.consumed)
<1> DEFINE half == pool.consumed + (Len(pool.bits) - pool.consumed) \div 2
           l == Lesser(work.limit, half)
<1>1. /\ Sound(pool) /\ Sound(work) /\ Multiple(work.ceil, ByteBits)
      /\ work.consumed = 0 /\ work.requests = <<>>
  BY DEF PoolInv, Changing
<1>2. /\ pool.consumed \in Nat /\ Len(pool.bits) \in Nat /\ pool.consumed <= Len(pool.bits)
      /\ work \in PoolType /\ work.bits \in Bits /\ work.ceil \in Nat /\ work.limit \in Nat
      /\ Len(work.bits) <= work.ceil /\ work.limit <= PoolLimit /\ PoolLimit \in Nat
  BY <1>1, SoundIs, NaturalBounds
<1>3. half \in Nat /\ pool.consumed <= half
  <2> DEFINE rest == Len(pool.bits) - pool.consumed
  <2>1. rest \in Nat
    BY <1>2
  <2> HIDE DEF rest
  <2>2. rest \div 2 \in Nat
    BY <2>1
  <2>3. half = pool.consumed + (rest \div 2)
    BY DEF rest
  <2> HIDE DEF half
  <2> QED
    BY <1>2, <2>2, <2>3
<1> HIDE DEF half
<1>4. l \in Nat /\ l <= work.limit /\ l >= Lesser(work.limit, pool.consumed) /\ l <= PoolLimit
  BY <1>2, <1>3 DEF Lesser
<1>5. Halved = [work EXCEPT !.limit = l]
  BY DEF Halved, half
<1> HIDE DEF l
<1>6. Halved = NewPool(work.bits, work.ceil, l)
  BY <1>1, <1>2, <1>5 DEF PoolType, NewPool
<1>7. Sound(Halved)
  BY <1>2, <1>4, <1>6, NewPoolSound
<1> QED
  BY <1>1, <1>4, <1>6, <1>7 DEF NewPool

LEMMA MutateEndsKeeps ==
  ASSUME PoolInv, MutateEnds
  PROVE  PoolInv'
<1>1. /\ pc = "mutate" /\ Rebuild(Halved) /\ todo' = 0 /\ tries' = 0
      /\ UNCHANGED <<pool, inst, tactic, modelVars>>
  BY DEF MutateEnds, Halved
<1>2. /\ Sound(Halved) /\ Multiple(Halved.ceil, ByteBits)
      /\ Halved.consumed = 0 /\ Halved.requests = <<>>
  BY <1>1, HalvedIs
<1>3. tactic < MaxFailed /\ tried' \subseteq Kinds
  BY <1>1 DEF PoolInv, modelVars
<1> QED
  BY <1>1, <1>2, <1>3, RebuildKeeps

LEMMA SettledKeeps ==
  ASSUME PoolInv, pc' \in {"ready", "over", "try"}, tactic' \in 0 .. MaxFailed,
         pc' = "try" => tactic' < MaxFailed,
         pool' \in {pool, work}, work' \in {pool, work}, inst' \in {inst, got},
         got' \in {got, <<>>}, UNCHANGED <<todo, tries, tried>>
  PROVE  PoolInv'
<1>1. <<>> \in Bits
  BY DEF Bits
<1> QED
  BY <1>1 DEF PoolInv, Filling, Changing, Rebuilding

LEMMA PoolKeeps == WantsAreNumbers /\ PoolInv /\ [Next]_vars => PoolInv'
<1> SUFFICES ASSUME WantsAreNumbers, PoolInv, [Next]_vars PROVE PoolInv'
  OBVIOUS
<1>1. ASSUME NEW r, Generated(r) PROVE PoolInv'
  BY <1>1, SettledKeeps DEF Generated, Only, modelVars, PoolInv
<1>2. ASSUME NEW r, Rebuilt(r) PROVE PoolInv'
  <2>1. pc = "regen" /\ tactic < MaxFailed /\ tactic \in Nat /\ MaxFailed \in Nat
    BY <1>2, NaturalBounds DEF Rebuilt, PoolInv
  <2>2. /\ tactic' \in {tactic, tactic + 1}
        /\ pc' = "try" => tactic' = tactic
        /\ pc' \in {"ready", "over", "try"}
        /\ work' \in {pool, work} /\ got' \in {got, <<>>}
        /\ UNCHANGED <<pool, inst, todo, tries, tried>>
    BY <1>2 DEF Rebuilt, Only, NextTactic, modelVars
  <2>3. tactic' \in 0 .. MaxFailed
    BY <2>1, <2>2
  <2> QED
    BY <2>1, <2>2, <2>3, SettledKeeps
<1>3. CASE Duplicate
  <2>1. pc = "try" /\ tactic < MaxFailed /\ tactic \in Nat /\ MaxFailed \in Nat
    BY <1>3, NaturalBounds DEF Duplicate, PoolInv
  <2>2. /\ tactic' = tactic + 1 /\ pc' = "ready" /\ work' = pool /\ got' = <<>>
        /\ UNCHANGED <<pool, inst, todo, tries, tried>>
    BY <1>3 DEF Duplicate, Only, NextTactic, modelVars
  <2>3. tactic' \in 0 .. MaxFailed
    BY <2>1, <2>2
  <2> QED
    BY <2>2, <2>3, SettledKeeps
<1>4. ASSUME NEW first, NEW last, Judge(first, last) PROVE PoolInv'
  <2>1. pc = "try" /\ tactic < MaxFailed /\ tactic \in Nat /\ MaxFailed \in Nat
    BY <1>4, NaturalBounds DEF Judge, PoolInv
  <2>2. /\ tactic' \in {0, tactic + 1} /\ pc' = "ready" /\ got' = <<>>
        /\ pool' \in {pool, work} /\ work' \in {pool, work} /\ inst' \in {inst, got}
        /\ UNCHANGED <<todo, tries, tried>>
    BY <1>4 DEF Judge, Only, NextTactic
  <2>3. tactic' \in 0 .. MaxFailed
    BY <2>1, <2>2
  <2> QED
    BY <2>2, <2>3, SettledKeeps
<1>5. CASE NoMoreTactics \/ CopyFails
  BY <1>5, SettledKeeps DEF NoMoreTactics, CopyFails, modelVars, PoolInv
<1>6. CASE UNCHANGED vars
  BY <1>6 DEF PoolInv, Filling, Changing, Rebuilding, vars, modelVars
<1> QED
  BY <1>1, <1>2, <1>3, <1>4, <1>5, <1>6, FillWordKeeps, RequestKeeps, DropKeeps,
     MutateBeginsKeeps, MutateTryKeeps, MutateEndsKeeps DEF Next, Over

LEMMA PoolAlways == ASSUME WantsAreNumbers PROVE Spec => [](PoolInv /\ WeightsInv)
<1>1. PoolInv /\ [Next]_vars => PoolInv'
  BY PoolKeeps
<1> QED
  BY <1>1, PoolBegins, Begins, WeightsKeep, PTL DEF Spec

(***************************************************************************)
(* Whatever the callback asks for, the bits it is handed, those that are   *)
(* dropped and those that are changed are inside the pools; more bits are  *)
(* never generated than were allocated, nor granted than the limit; and a  *)
(* weight that was set stays in its range.                                 *)
(***************************************************************************)
THEOREM AutoshrinkTypes == ASSUME WantsAreNumbers PROVE Spec => []TypeOK
<1>1. PoolInv /\ WeightsInv => TypeOK
  BY SoundIs DEF PoolInv, WeightsInv, InRange, TypeOK, Sound, Bits
<1> QED
  BY <1>1, PoolAlways, PTL

(***************************************************************************)
(* The recorded requests end where the consumed bits do, so that the index *)
(* that drops and mutations are aligned to covers them: the assertion of   *)
(* theft_autoshrink_shrink holds.                                          *)
(***************************************************************************)
THEOREM RequestsCovered == ASSUME WantsAreNumbers PROVE Spec => []RequestsCover
<1>1. PoolInv => RequestsCover
  BY DEF PoolInv, RequestsCover, Sound, Covered
<1> QED
  BY <1>1, PoolAlways, PTL

-----------------------------------------------------------------------------
(* Mutations decrease.                                                     *)

(* The value of request k of the pool in a copy of its bits.               *)
ValueIn(bits, k) == Read(bits, Index(pool)[k], pool.requests[k])

(* The first request whose value differs has become smaller.               *)
Decreased(new, bits) ==
  \E k \in 1 .. Len(pool.requests) :
    /\ Less(ValueIn(new, k), ValueIn(bits, k))
    /\ \A l \in 1 .. k - 1 : ValueIn(new, l) = ValueIn(bits, l)

Narrow == \A k \in 1 .. Len(pool.requests) : ~ Wide(pool.requests[k])

Smaller == Decreased(work.bits, pool.bits)

ChangesInv ==
  pc = "mutate" => IF set = {} THEN work.bits = pool.bits ELSE Narrow => Smaller

(* The requests that are compared are the pool's.                          *)
LEMMA SmallerAfter ==
  ASSUME pool' = pool
  PROVE  /\ Narrow' <=> Narrow
         /\ Smaller' <=> Decreased(work'.bits, pool.bits)
<1>1. Narrow' <=> Narrow
  BY DEF Narrow, Wide
<1>2. Smaller' <=> Decreased(work'.bits, pool.bits)
  BY DEF Smaller, Decreased, ValueIn, Index
<1> QED
  BY <1>1, <1>2

LEMMA LessTransitive ==
  ASSUME NEW a \in Bits, NEW b \in Bits, NEW c \in Bits,
         Len(a) = Len(b), Len(b) = Len(c), Less(a, b), Less(b, c)
  PROVE  Less(a, c)
<1> DEFINE n == Len(a)
<1>1. /\ n \in Nat /\ n = Len(b) /\ n = Len(c)
      /\ \A j \in 1 .. n : a[j] \in {0, 1} /\ b[j] \in {0, 1} /\ c[j] \in {0, 1}
  BY DEF Bits
<1>2. PICK i \in 1 .. n : a[i] < b[i] /\ \A k \in i + 1 .. n : a[k] = b[k]
  BY DEF Less
<1>3. PICK j \in 1 .. n : b[j] < c[j] /\ \A k \in j + 1 .. n : b[k] = c[k]
  BY <1>1 DEF Less
<1> HIDE DEF n
<1>4. CASE i <= j
  <2>1. a[j] < c[j]
    <3>1. CASE i = j
      BY <1>1, <1>2, <1>3, <3>1
    <3>2. CASE i < j
      <4>1. a[j] = b[j]
        BY <1>2, <1>3, <3>2
      <4> QED
        BY <1>3, <4>1
    <3> QED
      BY <1>2, <1>3, <1>4, <3>1, <3>2
  <2>2. \A k \in j + 1 .. n : a[k] = c[k]
    BY <1>2, <1>3, <1>4
  <2> QED
    BY <2>1, <2>2 DEF Less, n
<1>5. CASE j < i
  <2>1. a[i] < c[i]
    <3>1. b[i] = c[i]
      BY <1>2, <1>3, <1>5
    <3> QED
      BY <1>2, <3>1
  <2>2. \A k \in i + 1 .. n : a[k] = c[k]
    BY <1>2, <1>3, <1>5
  <2> QED
    BY <2>1, <2>2 DEF Less, n
<1> QED
  BY <1>2, <1>3, <1>4, <1>5

LEMMA ValueIs ==
  ASSUME Sound(pool), NEW bits \in Bits, Len(bits) = Len(pool.bits),
         NEW k \in 1 .. Len(pool.requests)
  PROVE  ValueIn(bits, k) \in Bits /\ Len(ValueIn(bits, k)) = pool.requests[k]
<1> DEFINE off == Index(pool)[k]
           size == pool.requests[k]
<1>1. /\ off \in Nat /\ size \in Nat \ {0} /\ off + size <= pool.consumed
  BY Place
<1>2. pool.consumed \in Nat /\ pool.consumed <= Len(pool.bits) /\ Len(pool.bits) \in Nat
  BY SoundIs
<1> HIDE DEF off, size
<1>3. off + size <= Len(bits) /\ size \in Nat
  BY <1>1, <1>2
<1>4. Read(bits, off, size) \in Bits /\ Len(Read(bits, off, size)) = size
  BY <1>1, <1>3, ReadIs
<1> QED
  BY <1>4 DEF ValueIn, off, size

(* A change from a request on leaves the values of the earlier ones.       *)
LEMMA EarlierKept ==
  ASSUME Sound(pool), NEW bits \in Bits, Len(bits) = Len(pool.bits),
         NEW new \in Bits, Len(new) = Len(bits), NEW k \in 1 .. Len(pool.requests),
         Outside(new, bits, Index(pool)[k], Len(bits)), NEW l \in 1 .. k - 1
  PROVE  ValueIn(new, l) = ValueIn(bits, l)
<1> DEFINE off == Index(pool)[l]
           size == pool.requests[l]
           from == Index(pool)[k]
           n == Len(bits)
           a == Read(new, off, size)
           b == Read(bits, off, size)
<1>1. l \in 1 .. Len(pool.requests) /\ k \in l + 1 .. Len(pool.requests)
      /\ Len(pool.requests) \in Nat
  BY SoundIs
<1>2. /\ off \in Nat /\ size \in Nat \ {0} /\ off + size <= pool.consumed
      /\ off + size <= from
  BY <1>1, Place
<1>3. from \in Nat /\ pool.consumed \in Nat /\ pool.consumed <= n /\ n \in Nat
  BY Place, SoundIs
<1>4. \A j \in 1 .. n : j \notin from + 1 .. n => new[j] = bits[j]
  BY DEF Outside
<1> HIDE DEF off, size, from
<1>5. off + size <= n /\ size \in Nat /\ Len(new) = n
  BY <1>2, <1>3
<1>6. /\ a \in Bits /\ Len(a) = size /\ \A j \in 1 .. size : a[j] = new[off + j]
      /\ b \in Bits /\ Len(b) = size /\ \A j \in 1 .. size : b[j] = bits[off + j]
  BY <1>2, <1>5, ReadIs
<1> HIDE DEF n, a, b
<1>7. \A j \in 1 .. size : off + j \in 1 .. n /\ off + j \notin from + 1 .. n
  BY <1>2, <1>3, <1>5
<1>8. \A j \in 1 .. size : a[j] = b[j]
  BY <1>4, <1>6, <1>7
<1>9. a = b
  BY <1>6, <1>8 DEF Bits
<1> QED
  BY <1>9 DEF a, b, off, size, ValueIn

LEMMA DecreaseTwice ==
  ASSUME Sound(pool), NEW a \in Bits, NEW b \in Bits, NEW c \in Bits,
         Len(a) = Len(pool.bits), Len(b) = Len(pool.bits), Len(c) = Len(pool.bits),
         Decreased(a, b), Decreased(b, c)
  PROVE  Decreased(a, c)
<1> DEFINE n == Len(pool.requests)
<1>1. PICK i \in 1 .. n : /\ Less(ValueIn(a, i), ValueIn(b, i))
                          /\ \A l \in 1 .. i - 1 : ValueIn(a, l) = ValueIn(b, l)
  BY DEF Decreased
<1>2. PICK j \in 1 .. n : /\ Less(ValueIn(b, j), ValueIn(c, j))
                          /\ \A l \in 1 .. j - 1 : ValueIn(b, l) = ValueIn(c, l)
  BY DEF Decreased
<1>3. n \in Nat
  BY SoundIs
<1>4. CASE i = j
  <2>1. /\ ValueIn(a, i) \in Bits /\ ValueIn(b, i) \in Bits /\ ValueIn(c, i) \in Bits
        /\ Len(ValueIn(a, i)) = Len(ValueIn(b, i)) /\ Len(ValueIn(b, i)) = Len(ValueIn(c, i))
    BY ValueIs
  <2>2. Less(ValueIn(a, i), ValueIn(c, i))
    BY <1>1, <1>2, <1>4, <2>1, LessTransitive
  <2> QED
    BY <1>1, <1>2, <1>4, <2>2 DEF Decreased
<1>5. CASE i < j
  <2>1. ValueIn(b, i) = ValueIn(c, i)
    BY <1>1, <1>2, <1>3, <1>5
  <2>2. \A l \in 1 .. i - 1 : ValueIn(a, l) = ValueIn(c, l)
    BY <1>1, <1>2, <1>3, <1>5
  <2> QED
    BY <1>1, <2>1, <2>2 DEF Decreased
<1>6. CASE j < i
  <2>1. ValueIn(a, j) = ValueIn(b, j)
    BY <1>1, <1>2, <1>3, <1>6
  <2>2. \A l \in 1 .. j - 1 : ValueIn(a, l) = ValueIn(c, l)
    BY <1>1, <1>2, <1>3, <1>6
  <2> QED
    BY <1>2, <2>1, <2>2 DEF Decreased
<1> QED
  BY <1>1, <1>2, <1>3, <1>4, <1>5, <1>6

LEMMA TryDecreases ==
  ASSUME PoolInv, ChangesInv, NEW kind \in Kinds, MutateTry(kind)
  PROVE  ChangesInv'
<1> DEFINE old == work.bits
           new == work'.bits
<1>1. PICK k \in 1 .. Len(pool.requests) :
        /\ new \in Bits /\ Len(new) = Len(old)
        /\ Outside(new, old, Index(pool)[k], Len(old))
        /\ ~ Wide(pool.requests[k]) => new = old \/ Less(ValueIn(new, k), ValueIn(old, k))
        /\ IF new = old THEN UNCHANGED <<todo, set>>
           ELSE todo' = todo - 1 /\ set' = set \union {kind}
  BY Mutated DEF ValueIn
<1>2. /\ pc = "mutate" /\ pc' = "mutate" /\ pool' = pool
      /\ Sound(pool) /\ old \in Bits /\ Len(old) = Len(pool.bits) /\ pool.bits \in Bits
  BY SoundIs DEF MutateTry, PoolInv, Changing
<1> HIDE DEF old, new
<1>3. (Narrow' <=> Narrow) /\ (Smaller' <=> Decreased(new, pool.bits))
  BY <1>2, SmallerAfter DEF new
<1>4. CASE new = old
  <2>1. work'.bits = work.bits /\ set' = set
    BY <1>1, <1>4 DEF old, new
  <2> QED
    BY <1>2, <1>3, <2>1 DEF ChangesInv, Smaller, new
<1>5. CASE new # old
  <2>1. set' # {}
    BY <1>1, <1>5
  <2>2. ASSUME Narrow PROVE Decreased(new, pool.bits)
    <3>1. Decreased(new, old)
      <4>1. Less(ValueIn(new, k), ValueIn(old, k))
        BY <1>1, <1>5, <2>2 DEF Narrow
      <4>2. \A l \in 1 .. k - 1 : ValueIn(new, l) = ValueIn(old, l)
        BY <1>1, <1>2, EarlierKept
      <4> QED
        BY <4>1, <4>2 DEF Decreased
    <3>2. CASE set = {}
      BY <1>2, <3>1, <3>2 DEF ChangesInv, old
    <3>3. CASE set # {}
      <4>1. Decreased(old, pool.bits)
        BY <1>2, <2>2, <3>3 DEF ChangesInv, Smaller, old
      <4> QED
        BY <1>1, <1>2, <3>1, <4>1, DecreaseTwice
    <3> QED
      BY <3>2, <3>3
  <2> QED
    BY <1>3, <2>1, <2>2 DEF ChangesInv
<1> QED
  BY <1>4, <1>5

LEMMA ChangesKeep == PoolInv /\ ChangesInv /\ [Next]_vars => ChangesInv'
<1> SUFFICES ASSUME PoolInv, ChangesInv, [Next]_vars PROVE ChangesInv'
  OBVIOUS
<1>1. ASSUME NEW c, MutateBegins(c) PROVE ChangesInv'
  <2>1. set' = {} /\ work' = Copy(pool.bits) /\ pool' = pool
    BY <1>1 DEF MutateBegins
  <2> QED
    BY <2>1 DEF ChangesInv, Copy, NewPool
<1>2. CASE UNCHANGED vars
  <2>1. UNCHANGED <<pc, pool, work, set>>
    BY <1>2 DEF vars, modelVars
  <2>2. (Narrow' <=> Narrow) /\ (Smaller' <=> Smaller)
    BY <2>1, SmallerAfter DEF Smaller
  <2> QED
    BY <2>1, <2>2 DEF ChangesInv
<1>3. CASE /\ \A c : ~ MutateBegins(c)
           /\ \A kind \in Kinds : ~ MutateTry(kind)
           /\ ~ UNCHANGED vars
  <2>1. pc' # "mutate"
    BY <1>3 DEF Next, FillWord, Request, Generated, Rebuilt, NoMoreTactics, CopyFails,
       Drop, MutateEnds, Rebuild, Duplicate, Judge, NextTactic, Over
  <2> QED
    BY <2>1 DEF ChangesInv
<1> QED
  BY <1>1, <1>2, <1>3, TryDecreases

(***************************************************************************)
(* Unless a request is wider than a word, what mutate_bit_pool makes of    *)
(* the pool is smaller, request by request, however many shifts, masks,    *)
(* subtractions and swaps it is made of, and whatever the pool holds.      *)
(***************************************************************************)
THEOREM MutantsAreSmaller == ASSUME WantsAreNumbers PROVE Spec => []MutationsDecrease
<1>1. Init => ChangesInv
  BY DEF Init, ChangesInv
<1>2. PoolInv /\ ChangesInv /\ [Next]_vars => ChangesInv'
  BY ChangesKeep
<1>3. ChangesInv => MutationsDecrease
  BY DEF ChangesInv, Smaller, MutationsDecrease, Decreased, ValueIn, Narrow
<1> QED
  BY <1>1, <1>2, <1>3, PoolAlways, PTL DEF Spec

-----------------------------------------------------------------------------
(* What an instance depends on.                                            *)

(* A callback that makes no bulk request, of whatever size, or zeroes the  *)
(* buffer of each.                                                         *)
BuffersClear ==
  Garbage \subseteq {0} \/ \A g \in Bits : ~ Bulk(g) /\ ~ Wide(Wants(g))

LEMMA ClearBuffers == ASSUME BuffersClear, got \in Bits PROVE Buffers \subseteq {0}
BY DEF BuffersClear, Buffers

(* The bits handed on are the consumed ones, and zeros past the limit.     *)
Handed(p, g) ==
  /\ p.consumed <= Len(g)
  /\ p.consumed < Len(g) => p.consumed = p.limit
  /\ \A j \in 1 .. Len(g) : g[j] = Hashed(p, j)

HandedInv ==
  /\ pc = "gen" => Handed(pool, got)
  /\ pc \in {"regen", "try"} => Handed(work, got)
  /\ pc \in {"ready", "mutate", "regen", "try"} => Handed(pool, inst)

LEMMA HandedStart ==
  ASSUME NEW p, p.consumed = 0
  PROVE  Handed(p, <<>>)
<1>1. Len(<<>>) = 0
  OBVIOUS
<1> QED
  BY <1>1 DEF Handed

LEMMA ServedIsHanded ==
  ASSUME NEW p, Sound(p), NEW g \in Bits, Handed(p, g),
         Wants(g) \in Nat, NEW x \in {0},
         p.consumed + Grant(p, Wants(g)) <= Len(p.bits)
  PROVE  Handed(Serve(p, Wants(g)), g \o Answer(p, Wants(g), x))
<1> DEFINE n == Wants(g)
           m == Grant(p, n)
           a == Answer(p, n, x)
           q == Serve(p, n)
           c == p.consumed
           b == p.bits
           new == g \o a
<1>1. /\ a \in Bits /\ Len(a) = n
      /\ \A j \in 1 .. n : j <= m => a[j] = b[c + j]
      /\ \A j \in 1 .. n : j > m => a[j] = 0
  BY AnswerIs
<1>2. q.bits = b /\ q.limit = p.limit /\ q.consumed = c + m
  BY ServeKeeps
<1>3. /\ c \in Nat /\ m \in Nat /\ m <= n /\ p.limit \in Nat /\ c + m <= p.limit
      /\ m < n => c + m = p.limit
  BY SoundIs, GrantIs
<1>4. /\ c <= Len(g) /\ (c < Len(g) => c = p.limit)
      /\ \A j \in 1 .. Len(g) : g[j] = IF j <= c THEN b[j] ELSE 0
  BY DEF Handed, Hashed
<1> HIDE DEF n, m, a, q, c, b
<1>5. Len(g) \in Nat /\ n \in Nat
  BY BitsOf DEF n
<1>6. /\ Len(new) = Len(g) + n
      /\ \A j \in 1 .. Len(g) : new[j] = g[j]
      /\ \A j \in 1 .. n : new[Len(g) + j] = a[j]
  BY <1>1, <1>5 DEF Bits
<1> HIDE DEF new
<1>7. c + m <= Len(new) /\ (c + m < Len(new) => c + m = p.limit)
  BY <1>3, <1>4, <1>5, <1>6
<1>8. ASSUME NEW j \in 1 .. Len(new)
      PROVE  new[j] = IF j <= c + m THEN b[j] ELSE 0
  <2>1. CASE j <= Len(g)
    <3>1. j \in 1 .. Len(g) /\ new[j] = IF j <= c THEN b[j] ELSE 0
      BY <1>4, <1>5, <1>6, <2>1
    <3>2. j <= c + m <=> j <= c
      BY <1>3, <1>4, <1>5, <2>1
    <3> QED
      BY <3>1, <3>2
  <2>2. CASE j > Len(g)
    <3> DEFINE k == j - Len(g)
    <3>1. k \in 1 .. n /\ Len(g) + k = j
      BY <1>5, <1>6, <2>2
    <3> HIDE DEF k
    <3>2. new[j] = a[k]
      BY <1>6, <3>1
    <3>3. CASE k <= m
      <4>1. c = Len(g)
        BY <1>3, <1>4, <1>5, <3>1, <3>3
      <4> QED
        BY <1>1, <1>3, <1>5, <3>1, <3>2, <3>3, <4>1
    <3>4. CASE k > m
      <4>1. ~ j <= c + m /\ a[k] = 0
        BY <1>1, <1>3, <1>4, <1>5, <3>1, <3>4
      <4> QED
        BY <3>2, <4>1
    <3> QED
      BY <1>3, <3>1, <3>3, <3>4
  <2> QED
    BY <1>5, <2>1, <2>2
<1>9. Handed(q, new)
  BY <1>2, <1>7, <1>8 DEF Handed, Hashed
<1> QED
  BY <1>9 DEF q, new, n, a

LEMMA RequestHands ==
  ASSUME WantsAreNumbers, BuffersClear, PoolInv, HandedInv, NEW x \in Buffers, Request(x)
  PROVE  HandedInv'
<1> DEFINE n == Wants(got)
<1>1. n \in Nat /\ got \in Bits /\ Sound(pool) /\ Sound(work)
  BY DEF WantsAreNumbers, PoolInv
<1>5. x \in {0}
  BY <1>1, ClearBuffers
<1>2. UNCHANGED <<pc, inst>>
  BY DEF Request
<1>3. CASE /\ pc = "gen"
           /\ pool.consumed + n <= Len(pool.bits)
           /\ got' = got \o Answer(pool, n, x)
           /\ pool' = Serve(pool, n)
  <2>1. pool.consumed + Grant(pool, n) <= Len(pool.bits)
    <3>1. pool.consumed \in Nat /\ Len(pool.bits) \in Nat
      BY <1>1, SoundIs
    <3>2. Grant(pool, n) \in Nat /\ Grant(pool, n) <= n
      BY <1>1, GrantIs
    <3> HIDE DEF n
    <3> QED
      BY <1>1, <1>3, <3>1, <3>2
  <2>2. Handed(pool', got')
    BY <1>1, <1>3, <1>5, <2>1, ServedIsHanded DEF HandedInv
  <2> QED
    BY <1>2, <1>3, <2>2 DEF HandedInv
<1>4. CASE /\ pc = "regen"
           /\ got' = got \o Answer(work, n, x)
           /\ work' = Serve(work, n)
           /\ UNCHANGED pool
  <2>1. work.consumed + Grant(work, n) <= Len(work.bits)
    <3>1. /\ work.consumed \in Nat /\ Len(work.bits) \in Nat
          /\ work.limit \in Nat /\ work.limit <= Len(work.bits)
      BY <1>1, <1>4, SoundIs DEF PoolInv, Rebuilding
    <3>2. Grant(work, n) \in Nat /\ work.consumed + Grant(work, n) <= work.limit
      BY <1>1, GrantIs
    <3> HIDE DEF n
    <3> QED
      BY <3>1, <3>2
  <2>2. Handed(work', got')
    BY <1>1, <1>4, <1>5, <2>1, ServedIsHanded DEF HandedInv
  <2> QED
    BY <1>2, <1>4, <2>2 DEF HandedInv
<1> QED
  BY <1>3, <1>4 DEF Request

LEMMA FillWordHands ==
  ASSUME PoolInv, HandedInv, NEW w \in Words, FillWord(w)
  PROVE  HandedInv'
<1> DEFINE b == pool.bits
<1>1. /\ pc = "gen" /\ UNCHANGED <<pc, got>>
      /\ pool' = [pool EXCEPT !.bits = b \o w,
                              !.ceil = Grown(@, pool.consumed + Wants(got))]
  BY DEF FillWord
<1>2. /\ b \in Bits /\ pool \in PoolType /\ pool.consumed \in Nat
      /\ pool.consumed <= Len(b) /\ Len(b) \in Nat
  BY SoundIs DEF PoolInv
<1>3. w \in Bits
  <2>1. w \in [1 .. WordBits -> {0, 1}]
    BY PoolAssumption DEF Strings
  <2> QED
    BY <2>1, Sizes, BitsMade
<1> HIDE DEF b
<1>4. \A j \in 1 .. Len(b) : (b \o w)[j] = b[j]
  BY <1>2, <1>3 DEF Bits
<1>5. pool'.bits = b \o w /\ pool'.consumed = pool.consumed /\ pool'.limit = pool.limit
  BY <1>1, <1>2 DEF PoolType
<1>6. Len(got) \in Nat
  BY BitsOf DEF PoolInv
<1>7. \A j \in 1 .. Len(got) : Hashed(pool', j) = Hashed(pool, j)
  <2>1. ASSUME NEW j \in 1 .. Len(got), j <= pool.consumed PROVE (b \o w)[j] = b[j]
    <3>1. j \in 1 .. Len(b)
      BY <1>2, <1>6, <2>1
    <3> QED
      BY <1>4, <3>1
  <2> QED
    BY <1>5, <2>1 DEF Hashed, b
<1> QED
  BY <1>1, <1>5, <1>7 DEF HandedInv, Handed

LEMMA HandedKeeps ==
  WantsAreNumbers /\ BuffersClear /\ PoolInv /\ HandedInv /\ [Next]_vars => HandedInv'
<1> SUFFICES ASSUME WantsAreNumbers, BuffersClear, PoolInv, HandedInv, [Next]_vars
             PROVE  HandedInv'
  OBVIOUS
<1>1. ASSUME NEW p, Rebuild(p), UNCHANGED <<pool, inst>>, Sound(p),
             Multiple(p.ceil, ByteBits), p.consumed = 0, p.requests = <<>>,
             pc \in {"ready", "mutate"}
      PROVE  HandedInv'
  <2>1. work'.consumed = 0 /\ got' = <<>> /\ pc' = "regen"
    BY <1>1, TruncateIs DEF Rebuild
  <2>2. Handed(work', got')
    BY <2>1, HandedStart
  <2> QED
    BY <1>1, <2>1, <2>2 DEF HandedInv, Handed, Hashed
<1>2. ASSUME NEW D, Drop(D) PROVE HandedInv'
  <2>1. Sound(pool) /\ pool.consumed \in Nat /\ pool.consumed <= Len(pool.bits)
        /\ Len(pool.bits) \in Nat /\ \A j \in 1 .. pool.consumed : pool.bits[j] \in {0, 1}
    <3>1. Sound(pool)
      BY DEF PoolInv
    <3>2. /\ pool.consumed \in Nat /\ pool.consumed <= Len(pool.bits) /\ Len(pool.bits) \in Nat
          /\ \A j \in 1 .. Len(pool.bits) : pool.bits[j] \in {0, 1}
      BY <3>1, SoundIs
    <3> QED
      BY <3>1, <3>2
  <2>2. PICK gone : Rebuild(Copy(Kept(pool, gone)))
    BY <1>2 DEF Drop
  <2> DEFINE bits == Kept(pool, gone)
             p == Copy(bits)
  <2>3. bits \in Bits /\ Len(bits) <= Len(pool.bits)
    <3>1. bits \in Bits /\ Len(bits) <= pool.consumed
      BY <2>1, KeptIs DEF Bits
    <3>2. Len(bits) \in Nat
      BY <3>1, BitsOf
    <3> QED
      BY <2>1, <3>1, <3>2
  <2> HIDE DEF bits
  <2>4. Sound(p) /\ Multiple(p.ceil, ByteBits) /\ p.consumed = 0 /\ p.requests = <<>>
    BY <2>1, <2>3, CopyIs
  <2>5. Rebuild(p)
    BY <2>2 DEF bits
  <2>6. pc = "ready" /\ UNCHANGED <<pool, inst>>
    BY <1>2 DEF Drop
  <2> HIDE DEF p
  <2> QED
    BY <1>1, <2>4, <2>5, <2>6
<1>3. CASE MutateEnds
  <2>1. pc = "mutate" /\ Rebuild(Halved) /\ UNCHANGED <<pool, inst>>
    BY <1>3 DEF MutateEnds, Halved
  <2> QED
    BY <1>1, <2>1, HalvedIs
<1>4. ASSUME NEW r, Generated(r) PROVE HandedInv'
  BY <1>4 DEF Generated, HandedInv, Handed, Hashed
<1>5. ASSUME NEW r, Rebuilt(r) PROVE HandedInv'
  BY <1>5 DEF Rebuilt, NextTactic, HandedInv, Handed, Hashed
<1>6. ASSUME NEW first, NEW last, Judge(first, last) PROVE HandedInv'
  BY <1>6 DEF Judge, NextTactic, HandedInv, Handed, Hashed
<1>7. CASE Duplicate \/ NoMoreTactics \/ CopyFails \/ UNCHANGED vars
  BY <1>7 DEF Duplicate, NextTactic, NoMoreTactics, CopyFails, vars, HandedInv, Handed, Hashed
<1>8. ASSUME NEW c, MutateBegins(c) PROVE HandedInv'
  BY <1>8 DEF MutateBegins, HandedInv, Handed, Hashed
<1>9. ASSUME NEW kind, MutateTry(kind) PROVE HandedInv'
  BY <1>9 DEF MutateTry, HandedInv, Handed, Hashed
<1> QED
  BY <1>2, <1>3, <1>4, <1>5, <1>6, <1>7, <1>8, <1>9, RequestHands, FillWordHands DEF Next, Over

LEMMA HandedAlways ==
  ASSUME WantsAreNumbers, BuffersClear PROVE Spec => []HandedInv
<1>1. Init => HandedInv
  <2>1. Init => pool.consumed = 0 /\ got = <<>> /\ pc = "gen"
    BY DEF Init, NewPool
  <2> QED
    BY <2>1, HandedStart DEF HandedInv
<1>2. PoolInv /\ HandedInv /\ [Next]_vars => HandedInv'
  BY HandedKeeps
<1> QED
  BY <1>1, <1>2, PoolAlways, PTL DEF Spec

(***************************************************************************)
(* If the callback makes no bulk request, or zeroes each buffer that it    *)
(* has filled in bulk, then an instance is made of the bits that its hash  *)
(* is made of, and a pool with a hash that was met may be skipped.         *)
(***************************************************************************)
THEOREM HashDetermines ==
  ASSUME WantsAreNumbers, BuffersClear PROVE Spec => []InstanceIsHashed
<1>1. HandedInv => InstanceIsHashed
  BY DEF HandedInv, Handed, InstanceIsHashed
<1> QED
  BY <1>1, HandedAlways, PTL

-----------------------------------------------------------------------------
(* A copy that is not changed.                                             *)

Prefix(g, l) == Read(g, 0, l)

(* Where the requests begin whose bits g is made of, and where it ends.    *)
Boundaries(g, B) ==
  /\ B \subseteq 0 .. Len(g)
  /\ 0 \in B /\ Len(g) \in B
  /\ \A l \in B : l # Len(g) =>
       Wants(Prefix(g, l)) > 0 /\ l + Wants(Prefix(g, l)) \in B

(* The instance is all that the callback asked for.                        *)
AskedInv ==
  /\ pc \in {"gen", "regen", "try"} => \E B : Boundaries(got, B)
  /\ pc \in {"ready", "mutate", "regen", "try"} =>
       Wants(inst) = 0 /\ \E B : Boundaries(inst, B)
  /\ pc = "try" => Wants(got) = 0

(* An unchanged copy hands on what the pool did.                           *)
SameBits ==
  /\ \A j \in 1 .. Len(work.bits) : j <= Len(pool.bits) => work.bits[j] = pool.bits[j]
  /\ \A j \in 1 .. Len(pool.bits) : j > Len(work.bits) => pool.bits[j] = 0
  /\ work.limit <= pool.limit
  /\ work.limit >= pool.consumed \/ work.limit = Len(work.bits)

(* The new instance is a part of the old one, up to one of its requests.   *)
BeginsInst ==
  \E B : Boundaries(inst, B) /\ Len(got) \in B /\ got = Prefix(inst, Len(got))

UnchangedInv ==
  /\ pc = "mutate" => work.limit = pool.limit
  /\ pc \in {"regen", "try"} /\ set = {} => SameBits /\ BeginsInst

LEMMA PrefixIs ==
  ASSUME NEW g \in Bits, NEW l \in 0 .. Len(g)
  PROVE  /\ Prefix(g, l) \in Bits /\ Len(Prefix(g, l)) = l
         /\ \A j \in 1 .. l : Prefix(g, l)[j] = g[j]
         /\ l = Len(g) => Prefix(g, l) = g
<1> DEFINE s == Prefix(g, l)
<1>1. Len(g) \in Nat /\ l \in Nat /\ 0 + l <= Len(g) /\ 0 \in Nat
  BY BitsOf
<1>2. s \in Bits /\ Len(s) = l /\ \A j \in 1 .. l : s[j] = g[0 + j]
  BY <1>1, ReadIs DEF Prefix
<1>3. \A j \in 1 .. l : s[j] = g[j]
  BY <1>2
<1> HIDE DEF s
<1>4. l = Len(g) => s = g
  BY <1>2, <1>3 DEF Bits
<1> QED
  BY <1>2, <1>3, <1>4 DEF s

LEMMA SameBitsEqual ==
  ASSUME NEW a \in Bits, NEW b \in Bits, Len(a) = Len(b),
         \A j \in 1 .. Len(a) : a[j] = b[j]
  PROVE  a = b
BY DEF Bits

LEMMA Extended ==
  ASSUME NEW g \in Bits, NEW a \in Bits, Wants(g) > 0, Len(a) = Wants(g),
         \E B : Boundaries(g, B)
  PROVE  \E B : Boundaries(g \o a, B)
<1> DEFINE new == g \o a
           n == Len(g)
<1>1. PICK B : Boundaries(g, B)
  OBVIOUS
<1>2. n \in Nat /\ Len(a) \in Nat
  BY BitsOf
<1>3. new \in Bits /\ Len(new) = n + Len(a) /\ \A j \in 1 .. n : new[j] = g[j]
  BY DEF Bits
<1> DEFINE C == B \union {Len(new)}
<1> HIDE DEF new, n
<1>4. B \subseteq 0 .. n /\ 0 \in B /\ n \in B
  BY <1>1 DEF Boundaries, n
<1>5. ASSUME NEW l \in 0 .. n PROVE Prefix(new, l) = Prefix(g, l)
  <2>1. l \in 0 .. Len(new) /\ l \in 0 .. Len(g)
    BY <1>2, <1>3 DEF n
  <2>2. /\ Prefix(new, l) \in Bits /\ Len(Prefix(new, l)) = l
        /\ \A j \in 1 .. l : Prefix(new, l)[j] = new[j]
        /\ Prefix(g, l) \in Bits /\ Len(Prefix(g, l)) = l
        /\ \A j \in 1 .. l : Prefix(g, l)[j] = g[j]
    BY <1>3, <2>1, PrefixIs
  <2>3. \A j \in 1 .. l : Prefix(new, l)[j] = Prefix(g, l)[j]
    BY <1>2, <1>3, <2>2
  <2> QED
    BY <2>2, <2>3, SameBitsEqual
<1>6. ASSUME NEW l \in C, l # Len(new)
      PROVE  Wants(Prefix(new, l)) > 0 /\ l + Wants(Prefix(new, l)) \in C
  <2>1. l \in B /\ l \in 0 .. n
    BY <1>4, <1>6
  <2>2. CASE l = n
    <3>1. Prefix(new, l) = g
      BY <1>5, <2>1, <2>2, PrefixIs DEF n
    <3> QED
      BY <1>3, <2>2, <3>1
  <2>3. CASE l # n
    <3>1. Wants(Prefix(g, l)) > 0 /\ l + Wants(Prefix(g, l)) \in B
      BY <1>1, <2>1, <2>3 DEF Boundaries, n
    <3>2. Prefix(new, l) = Prefix(g, l)
      BY <1>5, <2>1
    <3> QED
      BY <3>1, <3>2
  <2> QED
    BY <2>2, <2>3
<1>7. C \subseteq 0 .. Len(new) /\ 0 \in C /\ Len(new) \in C
  <2> DEFINE m == Len(new)
  <2>1. m \in Nat /\ n \in Nat /\ n <= m
    BY <1>2, <1>3
  <2> HIDE DEF m
  <2>2. 0 .. n \subseteq 0 .. m /\ m \in 0 .. m
    BY <2>1
  <2>3. C \subseteq 0 .. m /\ 0 \in C /\ m \in C
    BY <1>4, <2>2 DEF m
  <2> QED
    BY <2>3 DEF m
<1>8. Boundaries(new, C)
  <2> HIDE DEF C
  <2> QED
    BY <1>6, <1>7 DEF Boundaries
<1> QED
  BY <1>8 DEF new

LEMMA NoBits == Boundaries(<<>>, {0})
<1>1. Len(<<>>) = 0
  OBVIOUS
<1> QED
  BY <1>1 DEF Boundaries

(* What the callback is handed, whichever pool it draws from.              *)
LEMMA Answered ==
  ASSUME WantsAreNumbers, PoolInv, NEW x \in Buffers, Request(x)
  PROVE  \E a \in Bits : Len(a) = Wants(got) /\ got' = got \o a
<1> DEFINE n == Wants(got)
<1>1. n \in Nat /\ Sound(pool) /\ Sound(work)
  BY DEF WantsAreNumbers, PoolInv
<1>2. CASE pc = "gen" /\ pool.consumed + n <= Len(pool.bits)
           /\ got' = got \o Answer(pool, n, x)
  <2>1. pool.consumed \in Nat /\ Len(pool.bits) \in Nat
    BY <1>1, SoundIs
  <2>2. Grant(pool, n) \in Nat /\ Grant(pool, n) <= n
    BY <1>1, GrantIs
  <2>3. pool.consumed + Grant(pool, n) <= Len(pool.bits)
    <3> HIDE DEF n
    <3> QED
      BY <1>1, <1>2, <2>1, <2>2
  <2>4. Answer(pool, n, x) \in Bits /\ Len(Answer(pool, n, x)) = n
    BY <1>1, <2>3, AnswerIs, BufferBits
  <2> QED
    BY <1>2, <2>4
<1>3. CASE pc = "regen" /\ got' = got \o Answer(work, n, x)
  <2>1. /\ work.consumed \in Nat /\ Len(work.bits) \in Nat
        /\ work.limit \in Nat /\ work.limit <= Len(work.bits)
    BY <1>1, <1>3, SoundIs DEF PoolInv, Rebuilding
  <2>2. Grant(work, n) \in Nat /\ work.consumed + Grant(work, n) <= work.limit
    BY <1>1, GrantIs
  <2>3. work.consumed + Grant(work, n) <= Len(work.bits)
    <3> HIDE DEF n
    <3> QED
      BY <2>1, <2>2
  <2>4. Answer(work, n, x) \in Bits /\ Len(Answer(work, n, x)) = n
    BY <1>1, <2>3, AnswerIs, BufferBits
  <2> QED
    BY <1>3, <2>4
<1> QED
  BY <1>2, <1>3 DEF Request

LEMMA AskedKeeps ==
  WantsAreNumbers /\ PoolInv /\ AskedInv /\ [Next]_vars => AskedInv'
<1> SUFFICES ASSUME WantsAreNumbers, PoolInv, AskedInv, [Next]_vars PROVE AskedInv'
  OBVIOUS
<1>1. ASSUME NEW x \in Buffers, Request(x) PROVE AskedInv'
  <2>1. PICK a \in Bits : Len(a) = Wants(got) /\ got' = got \o a
    BY <1>1, Answered
  <2>2. got \in Bits /\ Wants(got) > 0 /\ pc \in {"gen", "regen"} /\ UNCHANGED <<pc, inst>>
    BY <1>1 DEF PoolInv, Request
  <2>3. \E B : Boundaries(got, B)
    BY <2>2 DEF AskedInv
  <2>4. \E B : Boundaries(got \o a, B)
    BY <2>1, <2>2, <2>3, Extended
  <2>5. \E B : Boundaries(got', B)
    BY <2>1, <2>4
  <2> QED
    BY <2>2, <2>5 DEF AskedInv, Boundaries
<1>2. ASSUME NEW p, Rebuild(p), UNCHANGED inst, pc \in {"ready", "mutate"} PROVE AskedInv'
  <2>1. pc' = "regen" /\ got' = <<>>
    BY <1>2 DEF Rebuild
  <2>2. \E B : Boundaries(got', B)
    BY <2>1, NoBits
  <2> QED
    BY <1>2, <2>1, <2>2 DEF AskedInv, Boundaries
<1>3. ASSUME NEW D, Drop(D) PROVE AskedInv'
  BY <1>2, <1>3 DEF Drop
<1>4. CASE MutateEnds
  BY <1>2, <1>4 DEF MutateEnds
<1>5. ASSUME NEW r, Generated(r) PROVE AskedInv'
  BY <1>5 DEF Generated, AskedInv, Boundaries
<1>6. ASSUME NEW r, Rebuilt(r) PROVE AskedInv'
  BY <1>6 DEF Rebuilt, NextTactic, AskedInv, Boundaries
<1>7. ASSUME NEW first, NEW last, Judge(first, last) PROVE AskedInv'
  BY <1>7 DEF Judge, NextTactic, AskedInv, Boundaries
<1>8. CASE Duplicate \/ NoMoreTactics \/ CopyFails \/ UNCHANGED vars
  BY <1>8 DEF Duplicate, NextTactic, NoMoreTactics, CopyFails, vars, AskedInv, Boundaries
<1>9. ASSUME NEW c, MutateBegins(c) PROVE AskedInv'
  BY <1>9 DEF MutateBegins, AskedInv, Boundaries
<1>10. ASSUME NEW kind, MutateTry(kind) PROVE AskedInv'
  BY <1>10 DEF MutateTry, AskedInv, Boundaries
<1>11. ASSUME NEW w, FillWord(w) PROVE AskedInv'
  BY <1>11 DEF FillWord, AskedInv, Boundaries
<1> QED
  BY <1>1, <1>3, <1>4, <1>5, <1>6, <1>7, <1>8, <1>9, <1>10, <1>11 DEF Next, Over

(* Both pools hash to the same bits, as far as they have been handed on.   *)
LEMMA SameHash ==
  ASSUME NEW p, Sound(p), NEW q, Sound(q), NEW g, NEW i, Handed(p, g), Handed(q, i),
         Len(g) \in Nat, Len(i) \in Nat, Len(g) <= Len(i),
         p.limit <= q.limit, p.limit >= q.consumed \/ p.limit = Len(p.bits),
         \A j \in 1 .. Len(p.bits) : j <= Len(q.bits) => p.bits[j] = q.bits[j],
         \A j \in 1 .. Len(q.bits) : j > Len(p.bits) => q.bits[j] = 0
  PROVE  \A j \in 1 .. Len(g) : g[j] = i[j]
<1>1. /\ p.consumed \in Nat /\ p.limit \in Nat /\ Len(p.bits) \in Nat
      /\ p.consumed <= Len(p.bits) /\ p.consumed <= p.limit
      /\ q.consumed \in Nat /\ q.limit \in Nat /\ Len(q.bits) \in Nat
      /\ q.consumed <= Len(q.bits) /\ q.consumed <= q.limit
  BY SoundIs
<1>2. /\ p.consumed < Len(g) => p.consumed = p.limit
      /\ q.consumed < Len(i) => q.consumed = q.limit
      /\ \A j \in 1 .. Len(g) : g[j] = IF j <= p.consumed THEN p.bits[j] ELSE 0
      /\ \A j \in 1 .. Len(i) : i[j] = IF j <= q.consumed THEN q.bits[j] ELSE 0
  BY DEF Handed, Hashed
<1>3. ASSUME NEW j \in 1 .. Len(g) PROVE g[j] = i[j]
  <2>1. j \in 1 .. Len(i) /\ j \in Nat
    OBVIOUS
  <2>2. CASE j <= p.consumed
    <3>1. j \in 1 .. Len(p.bits) /\ j <= q.consumed /\ j <= Len(q.bits)
      <4>1. j <= q.consumed
        <5>1. ASSUME j > q.consumed PROVE FALSE
          <6>1. q.consumed = q.limit
            BY <1>1, <1>2, <2>1, <5>1
          <6> QED
            BY <1>1, <2>1, <2>2, <5>1, <6>1
        <5> QED
          BY <1>1, <2>1, <5>1
      <4> QED
        BY <1>1, <2>1, <2>2, <4>1
    <3> QED
      BY <1>2, <2>1, <2>2, <3>1
  <2>3. CASE j > p.consumed
    <3>1. g[j] = 0 /\ p.consumed = p.limit
      BY <1>1, <1>2, <2>1, <2>3
    <3>2. CASE j <= q.consumed
      <4>1. j \in 1 .. Len(q.bits) /\ j > Len(p.bits)
        BY <1>1, <2>1, <2>3, <3>1, <3>2
      <4> QED
        BY <1>2, <2>1, <3>1, <3>2, <4>1
    <3>3. CASE ~ j <= q.consumed
      BY <1>2, <2>1, <3>1, <3>3
    <3> QED
      BY <3>2, <3>3
  <2> QED
    BY <1>1, <2>1, <2>2, <2>3
<1> QED
  BY <1>3

LEMMA RequestRebuilds ==
  ASSUME WantsAreNumbers, BuffersClear, PoolInv, HandedInv, HandedInv', PoolInv', AskedInv, UnchangedInv,
         NEW x \in Buffers, Request(x)
  PROVE  UnchangedInv'
<1>1. CASE ~ (pc = "regen" /\ set = {})
  BY <1>1 DEF Request, UnchangedInv, PoolInv, modelVars
<1>2. CASE pc = "regen" /\ set = {}
  <2>1. /\ UNCHANGED <<pc, set, pool, inst>> /\ work' = Serve(work, Wants(got))
        /\ Wants(got) > 0 /\ Wants(got) \in Nat
    BY <1>2 DEF Request, modelVars, WantsAreNumbers, PoolInv
  <2>2. /\ Sound(work) /\ Sound(pool) /\ Sound(work') /\ inst \in Bits /\ got' \in Bits
        /\ got \in Bits
    BY <2>1 DEF PoolInv
  <2>3. work'.bits = work.bits /\ work'.limit = work.limit
    <3>1. /\ work.consumed \in Nat /\ Len(work.bits) \in Nat
          /\ work.limit \in Nat /\ work.limit <= Len(work.bits)
      BY <1>2, <2>2, SoundIs DEF PoolInv, Rebuilding
    <3>2. /\ Grant(work, Wants(got)) \in Nat
          /\ work.consumed + Grant(work, Wants(got)) <= work.limit
      BY <2>1, <2>2, GrantIs
    <3>3. work.consumed + Grant(work, Wants(got)) <= Len(work.bits)
      BY <3>1, <3>2
    <3> QED
      BY <2>1, <2>2, <3>3, ServeKeeps
  <2>4. SameBits /\ SameBits'
    BY <1>2, <2>1, <2>3 DEF UnchangedInv, SameBits
  <2>5. PICK B : Boundaries(inst, B) /\ Len(got) \in B /\ got = Prefix(inst, Len(got))
    BY <1>2 DEF UnchangedInv, BeginsInst
  <2>6. PICK a \in Bits : Len(a) = Wants(got) /\ got' = got \o a
    BY Answered
  <2>7. Len(got') = Len(got) + Wants(got) /\ Len(got) \in Nat
    <3> DEFINE g == got
    <3>1. g \in Bits
      BY <2>2
    <3> HIDE DEF g
    <3>2. Len(g \o a) = Len(g) + Len(a) /\ Len(g) \in Nat
      BY <3>1 DEF Bits
    <3> QED
      BY <2>6, <3>2 DEF g
  <2>8. Len(got) # Len(inst)
    <3>1. ASSUME Len(got) = Len(inst) PROVE FALSE
      <4>1. got = inst
        <5>1. Len(inst) \in 0 .. Len(inst)
          BY <2>2, BitsOf
        <5> QED
          BY <2>2, <2>5, <3>1, <5>1, PrefixIs
      <4> QED
        BY <1>2, <2>1, <4>1 DEF AskedInv
    <3> QED
      BY <3>1
  <2>9. Len(got') \in B
    BY <2>5, <2>7, <2>8 DEF Boundaries
  <2>10. Len(got') \in 0 .. Len(inst) /\ Len(inst) \in Nat
    BY <2>2, <2>5, <2>9, BitsOf DEF Boundaries
  <2>11. \A j \in 1 .. Len(got') : got'[j] = inst[j]
    <3>1. Handed(work', got') /\ Handed(pool, inst)
      BY <1>2, <2>1 DEF HandedInv
    <3>2. Len(got') \in Nat /\ Len(got') <= Len(inst)
      BY <2>10
    <3> QED
      <4> DEFINE p == work'
                 g == got'
      <4>1. /\ p.limit <= pool.limit
            /\ p.limit >= pool.consumed \/ p.limit = Len(p.bits)
            /\ \A j \in 1 .. Len(p.bits) : j <= Len(pool.bits) => p.bits[j] = pool.bits[j]
            /\ \A j \in 1 .. Len(pool.bits) : j > Len(p.bits) => pool.bits[j] = 0
        BY <2>3, <2>4 DEF SameBits
      <4>2. Sound(p) /\ Sound(pool) /\ Handed(p, g) /\ Handed(pool, inst)
            /\ Len(g) \in Nat /\ Len(inst) \in Nat /\ Len(g) <= Len(inst)
        BY <2>1, <2>2, <2>10, <3>1, <3>2
      <4> HIDE DEF p, g
      <4>3. \A j \in 1 .. Len(g) : g[j] = inst[j]
        BY <4>1, <4>2, SameHash
      <4> QED
        BY <4>3 DEF g
  <2>12. got' = Prefix(inst, Len(got'))
    <3>1. /\ Prefix(inst, Len(got')) \in Bits /\ Len(Prefix(inst, Len(got'))) = Len(got')
          /\ \A j \in 1 .. Len(got') : Prefix(inst, Len(got'))[j] = inst[j]
      BY <2>2, <2>10, PrefixIs
    <3>2. \A j \in 1 .. Len(got') : got'[j] = Prefix(inst, Len(got'))[j]
      BY <2>11, <3>1
    <3> QED
      BY <2>2, <3>1, <3>2, SameBitsEqual
  <2>13. BeginsInst'
    BY <2>1, <2>5, <2>9, <2>12 DEF BeginsInst, Boundaries, Prefix
  <2> QED
    BY <1>2, <2>1, <2>4, <2>13 DEF UnchangedInv
<1> QED
  BY <1>1, <1>2

LEMMA EndsRebuild ==
  ASSUME PoolInv, ChangesInv, AskedInv, UnchangedInv, MutateEnds
  PROVE  UnchangedInv'
<1>1. /\ pc = "mutate" /\ pc' = "regen" /\ work' = Truncate(Halved) /\ got' = <<>>
      /\ UNCHANGED <<pool, inst, set>>
  BY DEF MutateEnds, Halved, Rebuild, modelVars
<1>2. /\ Sound(Halved) /\ Multiple(Halved.ceil, ByteBits)
      /\ Halved.consumed = 0 /\ Halved.requests = <<>> /\ Halved.bits = work.bits
      /\ Halved.limit <= work.limit
      /\ Halved.limit >= Lesser(work.limit, pool.consumed)
  BY <1>1, HalvedIs
<1>3. /\ Sound(work') /\ work'.limit <= Len(work'.bits) /\ work'.limit <= Halved.limit
      /\ work'.limit = Lesser(Halved.limit, Len(work'.bits))
      /\ \A j \in 1 .. Len(work'.bits) : j <= Len(work.bits) => work'.bits[j] = work.bits[j]
      /\ \A j \in 1 .. Len(work.bits) : j > Len(work'.bits) => work.bits[j] = 0
  BY <1>1, <1>2, TruncateIs
<1>4. /\ pool.limit \in Nat /\ pool.consumed \in Nat /\ pool.consumed <= pool.limit
      /\ work'.limit \in Nat /\ Len(work'.bits) \in Nat /\ Halved.limit \in Nat
      /\ work.limit = pool.limit
  BY <1>1, <1>2, <1>3, SoundIs DEF PoolInv, UnchangedInv
<1>5. ASSUME set = {} PROVE SameBits'
  <2>1. work.bits = pool.bits
    BY <1>1, <1>5 DEF ChangesInv
  <2>2. work'.limit <= pool.limit
    BY <1>2, <1>3, <1>4
  <2>3. work'.limit >= pool.consumed \/ work'.limit = Len(work'.bits)
    BY <1>2, <1>3, <1>4 DEF Lesser
  <2> QED
    BY <1>1, <1>3, <2>1, <2>2, <2>3 DEF SameBits
<1>6. BeginsInst'
  <2>1. PICK B : Boundaries(inst, B)
    BY <1>1 DEF AskedInv
  <2>2. 0 \in B /\ Len(<<>>) = 0 /\ inst \in Bits /\ <<>> \in Bits
    BY <2>1 DEF Boundaries, PoolInv, Bits
  <2>3. <<>> = Prefix(inst, 0)
    <3>1. 0 \in 0 .. Len(inst)
      BY <2>2, BitsOf
    <3>2. Prefix(inst, 0) \in Bits /\ Len(Prefix(inst, 0)) = 0
      BY <2>2, <3>1, PrefixIs
    <3> QED
      BY <2>2, <3>2, SameBitsEqual
  <2> QED
    BY <1>1, <2>1, <2>2, <2>3 DEF BeginsInst, Boundaries, Prefix
<1> QED
  BY <1>1, <1>5, <1>6 DEF UnchangedInv

LEMMA UnchangedKeeps ==
  /\ WantsAreNumbers /\ BuffersClear
  /\ PoolInv /\ PoolInv' /\ HandedInv /\ HandedInv' /\ ChangesInv /\ AskedInv
  /\ UnchangedInv /\ [Next]_vars
  => UnchangedInv'
<1> SUFFICES ASSUME WantsAreNumbers, BuffersClear, PoolInv, PoolInv', HandedInv,
                    HandedInv', ChangesInv, AskedInv, UnchangedInv, [Next]_vars
             PROVE  UnchangedInv'
  OBVIOUS
<1>1. ASSUME NEW D, Drop(D) PROVE UnchangedInv'
  BY <1>1 DEF Drop, Rebuild, UnchangedInv
<1>2. ASSUME NEW c, MutateBegins(c) PROVE UnchangedInv'
  BY <1>2 DEF MutateBegins, Copy, NewPool, UnchangedInv
<1>3. ASSUME NEW kind, MutateTry(kind) PROVE UnchangedInv'
  <2>1. work \in PoolType
    BY SoundIs DEF PoolInv
  <2>2. work'.limit = work.limit /\ pc = "mutate" /\ UNCHANGED <<pc, pool>>
    BY <1>3, <2>1 DEF MutateTry, PoolType
  <2> QED
    BY <2>2 DEF UnchangedInv
<1>4. ASSUME NEW r, Rebuilt(r) PROVE UnchangedInv'
  <2>1. CASE pc' = "try"
    <3>1. pc = "regen" /\ UNCHANGED <<pool, inst, work, got, set>>
      BY <1>4, <2>1 DEF Rebuilt, NextTactic, modelVars
    <3> QED
      BY <2>1, <3>1 DEF UnchangedInv, SameBits, BeginsInst, Boundaries, Prefix
  <2>2. CASE pc' # "try"
    <3>1. pc' \in {"ready", "over"}
      BY <1>4, <2>2 DEF Rebuilt, NextTactic
    <3> QED
      BY <3>1 DEF UnchangedInv
  <2> QED
    BY <2>1, <2>2
<1>5. CASE UNCHANGED vars
  BY <1>5 DEF vars, modelVars, UnchangedInv, SameBits, BeginsInst, Boundaries, Prefix
<1>6. CASE \/ \E w : FillWord(w)
           \/ \E r : Generated(r)
           \/ NoMoreTactics \/ CopyFails \/ Duplicate
           \/ \E first, last : Judge(first, last)
  <2>1. pc' \in {"gen", "ready", "over"}
    BY <1>6 DEF FillWord, Generated, NoMoreTactics, CopyFails, Duplicate, Judge, NextTactic
  <2> QED
    BY <2>1 DEF UnchangedInv
<1> QED
  BY <1>1, <1>2, <1>3, <1>4, <1>5, <1>6, RequestRebuilds, EndsRebuild DEF Next, Over

(***************************************************************************)
(* Under the same condition, a copy in which every change came to nothing  *)
(* builds the instance it was copied from, bit for bit, although unused    *)
(* bits were given up and zero bytes cut off: mutate_bit_pool and          *)
(* truncate_trailing_zero_bytes cost no property call.                     *)
(***************************************************************************)
THEOREM UnchangedRebuild ==
  ASSUME WantsAreNumbers, BuffersClear PROVE Spec => []UnchangedRebuilds
<1>1. Init => ChangesInv /\ AskedInv /\ UnchangedInv
  BY NoBits DEF Init, ChangesInv, AskedInv, UnchangedInv
<1>2. PoolInv /\ ChangesInv /\ [Next]_vars => ChangesInv'
  BY ChangesKeep
<1>3. PoolInv /\ AskedInv /\ [Next]_vars => AskedInv'
  BY AskedKeeps
<1>4. PoolInv /\ PoolInv' /\ HandedInv /\ HandedInv' /\ ChangesInv /\ AskedInv
        /\ UnchangedInv /\ [Next]_vars => UnchangedInv'
  BY UnchangedKeeps
<1>5. PoolInv /\ AskedInv /\ UnchangedInv => UnchangedRebuilds
  <2> SUFFICES ASSUME PoolInv, AskedInv, UnchangedInv, pc = "try", set = {} PROVE got = inst
    BY DEF UnchangedRebuilds
  <2>1. PICK B : Boundaries(inst, B) /\ Len(got) \in B /\ got = Prefix(inst, Len(got))
    BY DEF UnchangedInv, BeginsInst
  <2>2. Wants(got) = 0 /\ inst \in Bits
    BY DEF AskedInv, PoolInv
  <2>3. Len(got) = Len(inst)
    BY <2>1, <2>2 DEF Boundaries
  <2>4. Len(inst) \in 0 .. Len(inst)
    BY <2>2, BitsOf
  <2> QED
    BY <2>1, <2>2, <2>3, <2>4, PrefixIs
<1> QED
  BY <1>1, <1>2, <1>3, <1>4, <1>5, PoolAlways, HandedAlways, PTL DEF Spec
=============================================================================
