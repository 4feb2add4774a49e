------------------------------ MODULE Numbers ------------------------------
(***************************************************************************)
(* Facts about natural numbers that the other proofs rest on: least and    *)
(* greatest elements, induction as a statement about a set, and what a     *)
(* function defined by recursion on an interval is.                        *)
(***************************************************************************)
EXTENDS Integers, WellFoundedInduction, TLAPS

LEMMA LeastNumber ==
  ASSUME NEW T, T \subseteq Nat, T # {}
  PROVE  \E n \in T : \A m \in T : n <= m
<1> DEFINE R == OpToRel(<, Nat)
<1>1. IsWellFoundedOn(R, Nat)
  BY NatLessThanWellFounded
<1>2. \A m, n \in Nat : <<m, n>> \in R <=> m < n
  BY DEF OpToRel
<1> HIDE DEF R
<1>3. PICK n \in T : \A m \in T : ~ <<m, n>> \in R
  BY <1>1, WFMin
<1>4. n \in Nat /\ \A m \in T : m \in Nat /\ ~ m < n
  BY <1>2, <1>3
<1> QED
  BY <1>4

LEMMA GreatestNumber ==
  ASSUME NEW T, T \subseteq Nat, T # {}, NEW b \in Nat, \A n \in T : n <= b
  PROVE  \E n \in T : \A m \in T : m <= n
<1> DEFINE U == {b - n : n \in T}
<1>1. U \subseteq Nat
  <2>1. \A n \in T : b - n \in Nat
    OBVIOUS
  <2> QED
    BY <2>1
<1>2. U # {}
  OBVIOUS
<1>3. PICK u \in U : \A m \in U : u <= m
  BY <1>1, <1>2, LeastNumber
<1>4. PICK n \in T : u = b - n
  OBVIOUS
<1>5. \A m \in T : b - m \in U
  OBVIOUS
<1> HIDE DEF U
<1>6. ASSUME NEW m \in T PROVE m <= n
  <2>1. b - n <= b - m /\ m \in Nat /\ n \in Nat
    BY <1>3, <1>4, <1>5
  <2> QED
    BY <2>1
<1> QED
  BY <1>6

(* Induction from a on.                                                    *)
LEMMA FromOn ==
  ASSUME NEW T, NEW a \in Nat, a \in T,
         \A n \in Nat : n >= a /\ n \in T => n + 1 \in T
  PROVE  \A n \in Nat : n >= a => n \in T
<1> DEFINE U == {n \in Nat : n >= a /\ n \notin T}
<1>1. CASE U = {}
  BY <1>1
<1>2. CASE U # {}
  <2>1. PICK n \in U : \A m \in U : n <= m
    BY <1>2, LeastNumber
  <2>2. n \in Nat /\ n > a /\ n - 1 \in Nat
    BY <2>1
  <2>3. n - 1 \in T
    BY <2>1, <2>2
  <2>4. (n - 1) + 1 = n
    BY <2>2
  <2> QED
    BY <2>1, <2>2, <2>3, <2>4
<1> QED
  BY <1>1, <1>2

(* Induction on an interval.                                               *)
LEMMA UpTo ==
  ASSUME NEW T, NEW a \in Nat, NEW b \in Nat, a \in T,
         \A n \in a .. b - 1 : n \in T => n + 1 \in T
  PROVE  a .. b \subseteq T
<1> DEFINE U == {n \in Nat : n <= b => n \in T}
<1>1. a \in U
  OBVIOUS
<1>2. ASSUME NEW n \in Nat, n >= a, n \in U PROVE n + 1 \in U
  BY <1>2
<1>3. \A n \in Nat : n >= a => n \in U
  <2> HIDE DEF U
  <2> QED
    BY <1>1, <1>2, FromOn
<1> QED
  BY <1>3

-----------------------------------------------------------------------------
(* Recursion: a first value, and a function from each value to the next.   *)

(* f[0] is v, and f[k] is G[k][f[k - 1]].                                  *)
Iterates(f, v, G, n) ==
  /\ f[0] = v
  /\ \A k \in 1 .. n : f[k] = G[k][f[k - 1]]

LEMMA IteratesExist ==
  ASSUME NEW S, NEW n \in Nat, NEW v \in S, NEW G \in [1 .. n -> [S -> S]]
  PROVE  \E f \in [0 .. n -> S] : Iterates(f, v, G, n)
<1> DEFINE T == {m \in Nat : \E f \in [0 .. m -> S] : Iterates(f, v, G, m)}
<1>1. 0 \in T
  <2>1. [k \in 0 .. 0 |-> v] \in [0 .. 0 -> S] /\ Iterates([k \in 0 .. 0 |-> v], v, G, 0)
    BY DEF Iterates
  <2> QED
    BY <2>1
<1>2. ASSUME NEW m \in 0 .. n - 1, m \in T PROVE m + 1 \in T
  <2>1. PICK f \in [0 .. m -> S] : Iterates(f, v, G, m)
    BY <1>2
  <2> DEFINE g == [k \in 0 .. m + 1 |-> IF k = m + 1 THEN G[m + 1][f[m]] ELSE f[k]]
  <2>2. G[m + 1][f[m]] \in S
    OBVIOUS
  <2>3. g \in [0 .. m + 1 -> S]
    BY <2>2
  <2>4. g[0] = v /\ \A k \in 0 .. m : g[k] = f[k]
    BY <2>1 DEF Iterates
  <2>5. g[m + 1] = G[m + 1][g[m]]
    BY <2>4
  <2> HIDE DEF g
  <2>6. ASSUME NEW k \in 1 .. m + 1 PROVE g[k] = G[k][g[k - 1]]
    <3>1. CASE k = m + 1
      BY <2>5, <3>1
    <3>2. CASE k \in 1 .. m
      <4>1. k - 1 \in 0 .. m /\ k \in 0 .. m
        BY <3>2
      <4> QED
        BY <2>1, <2>4, <3>2, <4>1 DEF Iterates
    <3> QED
      BY <3>1, <3>2
  <2>7. Iterates(g, v, G, m + 1) /\ m + 1 \in Nat
    BY <2>4, <2>6 DEF Iterates
  <2> QED
    BY <2>3, <2>7
<1> HIDE DEF T
<1>3. 0 .. n \subseteq T
  BY <1>1, <1>2, UpTo
<1>4. n \in T
  BY <1>3
<1> QED
  BY <1>4 DEF T

LEMMA IteratesUnique ==
  ASSUME NEW n \in Nat, NEW v, NEW G, NEW f, NEW g,
         Iterates(f, v, G, n), Iterates(g, v, G, n)
  PROVE  \A k \in 0 .. n : f[k] = g[k]
<1> DEFINE T == {k \in Nat : f[k] = g[k]}
<1>1. 0 \in T
  BY DEF Iterates
<1>2. ASSUME NEW k \in 0 .. n - 1, k \in T PROVE k + 1 \in T
  <2>1. k + 1 \in 1 .. n /\ (k + 1) - 1 = k
    OBVIOUS
  <2> QED
    BY <1>2, <2>1 DEF Iterates
<1> HIDE DEF T
<1>3. 0 .. n \subseteq T
  BY <1>1, <1>2, UpTo
<1> QED
  BY <1>3 DEF T
=============================================================================
