---------------------------- MODULE ShrinkProofs ----------------------------
(***************************************************************************)
(* Proofs of the safety properties of Shrink, for any number of arguments, *)
(* values, tactics, answers of callbacks and hooks, and any property.  The *)
(* invariant says, at each point of attempt_to_shrink_arg, which objects   *)
(* are allocated besides those of the arguments, and who points to them.   *)
(***************************************************************************)
EXTENDS Shrink, TLAPS

(* The variables' types, the heap's left out.                             *)
HeapTypes ==
  /\ args \in Tuples
  /\ pool \in [ArgIds -> Vals \union {Null}]
  /\ misuse \subseteq {"bad_free", "free_null", "use_freed"}
  /\ fails \subseteq Tuples
  /\ called \subseteq Tuples /\ forgotten \subseteq Tuples

OuterTypes ==
  /\ pc \in {"arg", "tactic", "shrink", "shrunk", "call", "called", "done",
             "aborted"}
  /\ argi \in 1 .. Arity + 1 /\ progress \in BOOLEAN /\ ok \in BOOLEAN

InnerTypes ==
  /\ tactic \in 0 .. MaxTactics
  /\ {current, curPool, candidate, candPool} \subseteq Vals \union {Null}
  /\ sres \in {"none", "ok"} \union NoCandidate
  /\ res \in Results /\ repeated \in BOOLEAN

Types == HeapTypes /\ OuterTypes /\ InnerTypes

(* The part of the heap that shrinking is about.                           *)
Mine == heap \intersect Heap

(* The bit pool, and the objects, of argument a when its instance is v.    *)
PoolOf(a, v) == IF a \in AutoArgs THEN v ELSE Null
Owned(a, v) == Objects(a, v, PoolOf(a, v))
Holding(f) == UNION {Owned(a, f[a]) : a \in ArgIds}

Shrinkable == AutoArgs \union Basic
Trying == pc \in {"call", "called"}
HasCandidate == pc = "shrunk" /\ sres = "ok"

(* The objects allocated besides those of the arguments.                   *)
Extra == IF HasCandidate THEN Owned(argi, candidate)
         ELSE IF Trying THEN Owned(argi, current)
         ELSE {}

PoolFollows == \A a \in ArgIds : pool[a] = PoolOf(a, args[a])

InsideLoop ==
  /\ pc \in {"tactic", "shrink", "shrunk", "call", "called"} => argi \in Shrinkable
  /\ pc \in {"shrink", "shrunk", "call", "called"} => TacticsLeft

(* Where the locals of attempt_to_shrink_arg point to.                     *)
LocalsPoint ==
  /\ pc \in {"shrink", "shrunk"} => current = args[argi] /\ curPool = pool[argi]
  /\ pc \in {"shrink", "shrunk"} /\ ~ HasCandidate =>
       candidate = Null /\ candPool = Null
  /\ HasCandidate \/ Trying =>
       /\ current \in Vals /\ candidate \in Vals /\ candidate # current
       /\ candPool = PoolOf(argi, candidate)
  /\ Trying => args[argi] = candidate /\ curPool = PoolOf(argi, current)

HeapOwned == Mine = Holding(args) \union Extra

(* The arguments fail, or what shrinking would put back in their place do. *)
FailureKept ==
  Deterministic =>
    /\ pc \in {"arg", "tactic", "shrink", "shrunk"} => args \in fails
    /\ Trying => [args EXCEPT ![argi] = current] \in fails
    /\ pc = "called" /\ res = "FAIL" => args \in fails
    /\ pc = "done" /\ ok => args \in fails

Rest == /\ PoolFollows /\ InsideLoop /\ LocalsPoint
        /\ HeapOwned /\ MemorySafe /\ FailureKept

Inv == Types /\ Rest

USE DEF Shrinkable, Trying, HasCandidate, Results, NoCandidate, filter

-----------------------------------------------------------------------------
(* The objects of arguments.                                               *)

LEMMA HoldingMembers ==
  ASSUME NEW f, NEW x
  PROVE  x \in Holding(f) <=> \E a \in ArgIds : x \in Owned(a, f[a])
BY DEF Holding

LEMMA OwnedMembers ==
  ASSUME NEW a \in ArgIds, NEW v \in Vals, NEW x
  PROVE  x \in Owned(a, v) <=> x = Inst(a, v) \/ (a \in AutoArgs /\ x = Pool(a, v))
<1>1. v # Null
  BY ShrinkAssumption
<1> QED
  BY <1>1 DEF Owned, Objects, PoolOf

(* An object tells its kind, its argument and its instance.                *)
LEMMA ObjectsDiffer ==
  ASSUME NEW a, NEW b, NEW v, NEW w
  PROVE  /\ Inst(a, v) # Pool(b, w)
         /\ Inst(a, v) = Inst(b, w) => a = b /\ v = w
         /\ Pool(a, v) = Pool(b, w) => a = b /\ v = w
<1>1. "inst" # "pool"
  OBVIOUS
<1> QED
  BY <1>1, SMT DEF Inst, Pool

(* Objects of different arguments, or of different instances, are others.  *)
LEMMA OwnedDisjoint ==
  ASSUME NEW a \in ArgIds, NEW b \in ArgIds, NEW v \in Vals, NEW w \in Vals,
         a # b \/ v # w
  PROVE  Owned(a, v) \intersect Owned(b, w) = {}
<1> SUFFICES ASSUME NEW x \in Owned(a, v), x \in Owned(b, w) PROVE FALSE
  OBVIOUS
<1>1. x = Inst(a, v) \/ x = Pool(a, v)
  BY OwnedMembers
<1>2. x = Inst(b, w) \/ x = Pool(b, w)
  BY OwnedMembers
<1> QED
  BY <1>1, <1>2, ObjectsDiffer

(* Another instance for argument a changes the objects of a, and no others.*)
LEMMA HoldingExcept ==
  ASSUME NEW f \in Tuples, NEW a \in ArgIds, NEW v \in Vals, f[a] # v
  PROVE  /\ Holding([f EXCEPT ![a] = v]) =
              (Holding(f) \ Owned(a, f[a])) \union Owned(a, v)
         /\ Owned(a, f[a]) \subseteq Holding(f)
         /\ Owned(a, v) \intersect Holding(f) = {}
<1> DEFINE g == [f EXCEPT ![a] = v]
<1>1. g \in Tuples /\ g[a] = v /\ \A b \in ArgIds : b # a => g[b] = f[b]
  BY DEF Tuples
<1>2. \A b \in ArgIds : f[b] \in Vals
  BY DEF Tuples
<1>3. \A b \in ArgIds : b # a =>
        Owned(b, f[b]) \intersect (Owned(a, f[a]) \union Owned(a, v)) = {}
  BY <1>2, OwnedDisjoint
<1>4. Owned(a, f[a]) \intersect Owned(a, v) = {}
  BY <1>2, OwnedDisjoint
<1> HIDE DEF g
<1>5. \A x : x \in Holding(g) <=>
        x \in Owned(a, v) \/ \E b \in ArgIds : b # a /\ x \in Owned(b, f[b])
  BY <1>1, HoldingMembers
<1>6. \A x : x \in Holding(f) <=>
        x \in Owned(a, f[a]) \/ \E b \in ArgIds : b # a /\ x \in Owned(b, f[b])
  BY HoldingMembers
<1>7. Holding(g) = (Holding(f) \ Owned(a, f[a])) \union Owned(a, v)
  BY <1>3, <1>4, <1>5, <1>6
<1> QED
  BY <1>3, <1>4, <1>6, <1>7 DEF g

LEMMA OwnedTypes ==
  ASSUME NEW a \in ArgIds, NEW v \in Vals
  PROVE  Owned(a, v) \subseteq Heap
<1> SUFFICES ASSUME NEW x \in Owned(a, v) PROVE x \in Heap
  OBVIOUS
<1>1. x = Inst(a, v) \/ (a \in AutoArgs /\ x = Pool(a, v))
  BY OwnedMembers
<1> QED
  BY <1>1 DEF Heap, Inst, Pool

LEMMA InitInv == ShrinkInit => Inv /\ heap \subseteq Heap
<1> SUFFICES ASSUME ShrinkInit PROVE Inv /\ heap \subseteq Heap
  OBVIOUS
<1>1. args \in Tuples /\ \A a \in ArgIds : args[a] \in Vals
  BY DEF ShrinkInit, Tuples
<1>2. pool = [a \in ArgIds |-> IF a \in AutoArgs THEN args[a] ELSE Null]
  BY Zenon DEF ShrinkInit
<1>3. PoolFollows
  BY <1>2 DEF PoolFollows, PoolOf
<1>4. heap = UNION {Objects(a, args[a], pool[a]) : a \in ArgIds}
  BY DEF ShrinkInit
<1>5. heap = Holding(args)
  BY <1>3, <1>4 DEF Holding, Owned, PoolFollows
<1>6. heap \subseteq Heap
  <2> SUFFICES ASSUME NEW x \in heap
               PROVE  x \in Heap
    OBVIOUS
  <2>1. PICK a \in ArgIds : x \in Owned(a, args[a])
    BY <1>5, HoldingMembers
  <2> QED
    BY <1>1, <2>1, OwnedTypes
<1>7. pool \in [ArgIds -> Vals \union {Null}]
  <2>1. \A a \in ArgIds : (IF a \in AutoArgs THEN args[a] ELSE Null) \in Vals \union {Null}
    BY <1>1
  <2> QED
    BY <1>2, <2>1
<1>8. argi \in 1 .. Arity + 1 /\ tactic \in 0 .. MaxTactics
  BY ShrinkAssumption DEF ShrinkInit
<1>9. fails \subseteq Tuples /\ called \subseteq Tuples /\ forgotten \subseteq Tuples
  BY <1>1 DEF ShrinkInit
<1>10. Types
  BY <1>1, <1>7, <1>8, <1>9 DEF ShrinkInit, Types, HeapTypes, OuterTypes, InnerTypes
<1>11. Rest
  BY <1>1, <1>3, <1>5, <1>6 DEF Mine, ShrinkInit, Rest, InsideLoop, LocalsPoint,
     HeapOwned, Extra, MemorySafe, FailureKept
<1> QED
  BY <1>6, <1>10, <1>11 DEF Inv

-----------------------------------------------------------------------------
(* Steps and types.                                                        *)

LEMMA TypesSplit == Types <=> HeapTypes /\ OuterTypes /\ InnerTypes
BY DEF Types

LEMMA TypesJoin == HeapTypes' /\ OuterTypes' /\ InnerTypes' => Types'
BY DEF Types

LEMMA MineUnchanged == heap' = heap => Mine' = Mine
BY DEF Mine

LEMMA HeapUnchanged ==
  HeapTypes /\ UNCHANGED <<heapVars, fails, filter>> => HeapTypes'
BY DEF HeapTypes, heapVars

LEMMA InnerUnchanged == InnerTypes /\ UNCHANGED innerVars => InnerTypes'
BY DEF InnerTypes, innerVars

(* What an action that goes on to the next argument or tactic, takes the   *)
(* same argument again, or returns, leaves of the types.                   *)
LEMMA OuterTyped ==
  ASSUME OuterTypes, InsideLoop,
         pc \in {"tactic", "shrink", "shrunk", "call", "called"},
         \/ NextArg \/ SameArg \/ NextTactic
         \/ \E b \in BOOLEAN : GiveUp(b)
  PROVE  OuterTypes'
<1>1. Arity \in Nat /\ argi \in 1 .. Arity
  BY ShrinkAssumption DEF InsideLoop, ArgIds
<1>2. CASE NextArg
  BY <1>1, <1>2 DEF NextArg, OuterTypes
<1>3. CASE SameArg
  BY <1>3 DEF SameArg, OuterTypes
<1>4. CASE NextTactic
  BY <1>4 DEF NextTactic, outerVars, OuterTypes
<1>5. CASE \E b \in BOOLEAN : GiveUp(b)
  BY <1>5 DEF GiveUp, Return, OuterTypes
<1> QED
  BY <1>2, <1>3, <1>4, <1>5

(* The next tactic is one of them.                                         *)
LEMMA TacticTyped ==
  ASSUME InnerTypes, TacticsLeft, NextTactic
  PROVE  tactic' \in 0 .. MaxTactics
BY ShrinkAssumption DEF InnerTypes, TacticsLeft, NextTactic

LEMMA ArgTypes ==
  ASSUME Types, InsideLoop,
         pc \in {"tactic", "shrink", "shrunk", "call", "called"}
  PROVE  argi \in ArgIds /\ args[argi] \in Vals /\ pool[argi] \in Vals \union {Null}
<1>1. argi \in ArgIds
  BY ShrinkAssumption DEF InsideLoop
<1> QED
  BY <1>1 DEF Types, HeapTypes, Tuples

LEMMA FreeTypes ==
  ASSUME HeapTypes, NEW objs, Free(objs)
  PROVE  misuse' \subseteq {"bad_free", "free_null", "use_freed"}
BY DEF HeapTypes, Free

LEMMA TypeArgs ==
  Inv /\ (ArgShrinkable \/ ArgSkipped \/ ArgsDone \/ TacticsSpent) => Types'
<1> SUFFICES ASSUME Inv, ArgShrinkable \/ ArgSkipped \/ ArgsDone \/ TacticsSpent
             PROVE  Types'
  OBVIOUS
<1>1. HeapTypes /\ OuterTypes /\ InnerTypes /\ InsideLoop
  BY TypesSplit DEF Inv, Rest
<1>2. HeapTypes'
  BY <1>1, HeapUnchanged DEF ArgShrinkable, ArgSkipped, ArgsDone, TacticsSpent
<1>3. CASE ArgShrinkable
  <2>1. OuterTypes'
    BY <1>1, <1>3 DEF ArgShrinkable, outerVars, OuterTypes
  <2>2. InnerTypes'
    BY <1>1, <1>3, ShrinkAssumption DEF ArgShrinkable, InnerTypes
  <2> QED
    BY <1>2, <2>1, <2>2, TypesJoin
<1>4. CASE ArgSkipped
  <2>1. Arity \in Nat /\ argi \in 1 .. Arity
    BY <1>4, ShrinkAssumption DEF ArgSkipped, ArgIds
  <2>2. argi' = argi + 1 /\ UNCHANGED <<pc, progress, ok>>
    BY <1>4 DEF ArgSkipped
  <2>3. argi' \in 1 .. Arity + 1
    BY <2>1, <2>2
  <2>4. OuterTypes'
    BY <1>1, <2>2, <2>3 DEF OuterTypes
  <2> QED
    BY <1>1, <1>2, <1>4, <2>4, InnerUnchanged, TypesJoin DEF ArgSkipped
<1>5. CASE ArgsDone
  <2>1. Arity \in Nat /\ 1 \in 1 .. Arity + 1
    BY ShrinkAssumption
  <2>2. StartShrink /\ UNCHANGED ok => OuterTypes'
    BY <1>1, <2>1 DEF StartShrink, OuterTypes
  <2>3. Return(TRUE) /\ UNCHANGED <<argi, progress>> => OuterTypes'
    BY <1>1 DEF Return, OuterTypes
  <2>4. OuterTypes'
    BY <1>5, <2>2, <2>3 DEF ArgsDone
  <2> QED
    BY <1>1, <1>2, <1>5, <2>4, InnerUnchanged, TypesJoin DEF ArgsDone
<1>6. CASE TacticsSpent
  <2>1. OuterTypes'
    BY <1>1, <1>6, OuterTyped DEF TacticsSpent
  <2> QED
    BY <1>1, <1>2, <1>6, <2>1, InnerUnchanged, TypesJoin DEF TacticsSpent
<1> QED
  BY <1>3, <1>4, <1>5, <1>6

LEMMA TypePreHook ==
  ASSUME Inv, NEW h, PreHook(h) PROVE Types'
<1>1. HeapTypes /\ OuterTypes /\ InnerTypes /\ InsideLoop
  BY TypesSplit DEF Inv, Rest
<1>2. HeapTypes'
  BY <1>1, HeapUnchanged DEF PreHook
<1>3. OuterTypes'
  BY <1>1 DEF PreHook, GiveUp, Return, outerVars, OuterTypes
<1>4. args[argi] \in Vals /\ pool[argi] \in Vals \union {Null}
  BY ArgTypes DEF PreHook, Inv, Rest
<1>5. InnerTypes'
  BY <1>1, <1>4 DEF PreHook, InnerTypes
<1> QED
  BY <1>2, <1>3, <1>5, TypesJoin

LEMMA TypeCallback ==
  ASSUME Inv, NEW o \in Vals \union NoCandidate, ShrinkCallback(o)
  PROVE  Types'
<1>1. HeapTypes /\ OuterTypes /\ InnerTypes /\ InsideLoop
  BY TypesSplit DEF Inv, Rest
<1>2. HeapTypes'
  BY <1>1 DEF ShrinkCallback, HeapTypes
<1>3. OuterTypes'
  BY <1>1 DEF ShrinkCallback, outerVars, OuterTypes
<1>4. InnerTypes'
  BY <1>1 DEF ShrinkCallback, InnerTypes
<1> QED
  BY <1>2, <1>3, <1>4, TypesJoin

LEMMA TypePostHook ==
  ASSUME Inv, NEW h, PostHook(h) PROVE Types'
<1>1. HeapTypes /\ OuterTypes /\ InnerTypes /\ InsideLoop
  BY TypesSplit DEF Inv, Rest
<1>2. UNCHANGED <<fails, current, curPool, candidate, candPool, sres, res>>
  BY DEF PostHook
<1>3. TacticsLeft
  BY <1>1 DEF PostHook, InsideLoop
<1>4. pc = "shrunk" /\ (UNCHANGED outerVars /\ pc' = "aborted" => OuterTypes')
  BY <1>1 DEF PostHook, outerVars, OuterTypes
<1>5. CASE UNCHANGED <<heapVars, filter, outerVars, tactic, repeated>> /\ pc' = "aborted"
  BY <1>1, <1>2, <1>4, <1>5, HeapUnchanged, InnerUnchanged, TypesJoin
  DEF innerVars
<1>6. CASE PostHookErrs
  <2>1. OuterTypes'
    BY <1>1, <1>4, <1>6, OuterTyped DEF PostHookErrs
  <2>2. HeapTypes'
    BY <1>1, <1>2, <1>6, FreeTypes DEF PostHookErrs, HeapTypes
  <2>3. InnerTypes'
    BY <1>1, <1>2, <1>6, InnerUnchanged DEF PostHookErrs, innerVars
  <2> QED
    BY <2>1, <2>2, <2>3, TypesJoin
<1>7. ASSUME sres = "ok", TryCandidate PROVE Types'
  <2>1. candidate \in Vals /\ candPool \in Vals \union {Null}
    BY <1>1, <1>4, <1>7 DEF LocalsPoint, Inv, Rest, InnerTypes
  <2>2. [args EXCEPT ![argi] = candidate] \in Tuples
    BY <1>1, <2>1 DEF Tuples, HeapTypes
  <2>3. [pool EXCEPT ![argi] = candPool] \in [ArgIds -> Vals \union {Null}]
    BY <1>1, <2>1 DEF HeapTypes
  <2>4. CASE /\ Free(Objects(argi, candidate, candPool)) /\ NextTactic
             /\ UNCHANGED <<args, pool, filter, repeated>>
    <3>1. OuterTypes'
      BY <1>1, <1>4, <2>4, OuterTyped
    <3>2. HeapTypes'
      BY <1>1, <1>2, <2>4, FreeTypes DEF HeapTypes
    <3>3. InnerTypes'
      BY <1>1, <1>2, <1>3, <2>4, TacticTyped DEF InnerTypes
    <3> QED
      BY <3>1, <3>2, <3>3, TypesJoin
  <2>5. CASE /\ args' = [args EXCEPT ![argi] = candidate]
             /\ pool' = [pool EXCEPT ![argi] = candPool]
             /\ MarkCalled([args EXCEPT ![argi] = candidate])
             /\ repeated' = FALSE /\ pc' = "call"
             /\ UNCHANGED <<heap, misuse, outerVars, tactic>>
    <3>1. OuterTypes'
      BY <1>1, <2>5 DEF outerVars, OuterTypes
    <3>2. called' \subseteq Tuples /\ forgotten' \subseteq Tuples
      BY <1>1, <2>2, <2>5 DEF MarkCalled, HeapTypes
    <3>3. HeapTypes'
      BY <1>1, <1>2, <2>2, <2>3, <2>5, <3>2 DEF HeapTypes
    <3>4. InnerTypes'
      BY <1>1, <1>2, <2>5 DEF InnerTypes
    <3> QED
      BY <3>1, <3>3, <3>4, TypesJoin
  <2> QED
    BY <1>7, <2>4, <2>5 DEF TryCandidate
<1>8. CASE NextTactic /\ UNCHANGED <<heapVars, filter, repeated>>
  <2>1. OuterTypes'
    BY <1>1, <1>4, <1>8, OuterTyped
  <2>2. InnerTypes'
    BY <1>1, <1>2, <1>3, <1>8, TacticTyped DEF InnerTypes
  <2> QED
    BY <1>1, <1>2, <1>8, <2>1, <2>2, HeapUnchanged, TypesJoin
<1>9. CASE /\ NextArg \/ GiveUp(FALSE)
           /\ UNCHANGED <<heapVars, filter, tactic, repeated>>
  <2>1. OuterTypes'
    BY <1>1, <1>4, <1>9, OuterTyped
  <2> QED
    BY <1>1, <1>2, <1>9, <2>1, HeapUnchanged, InnerUnchanged, TypesJoin
    DEF innerVars
<1> QED
  BY <1>5, <1>6, <1>7, <1>8, <1>9 DEF PostHook

LEMMA TypeCall ==
  ASSUME Inv, NEW r \in {"PASS", "FAIL", "SKIP", "ERROR"}, ShrinkCall(r)
  PROVE  Types'
<1>1. HeapTypes /\ OuterTypes /\ InnerTypes
  BY TypesSplit DEF Inv
<1>2. HeapTypes'
  BY <1>1 DEF ShrinkCall, CallUses, HeapTypes
<1>3. OuterTypes'
  BY <1>1 DEF ShrinkCall, outerVars, OuterTypes
<1>4. InnerTypes'
  BY <1>1 DEF ShrinkCall, InnerTypes
<1> QED
  BY <1>2, <1>3, <1>4, TypesJoin

LEMMA TypeTrialPostHook ==
  ASSUME Inv, NEW h, TrialPostHook(h) PROVE Types'
<1>1. HeapTypes /\ OuterTypes /\ InnerTypes /\ InsideLoop
  BY TypesSplit DEF Inv, Rest
<1>2. UNCHANGED <<fails, filter, current, curPool, candidate, candPool, sres, res>>
  BY DEF TrialPostHook
<1>3. pc = "called" /\ TacticsLeft /\ argi \in ArgIds
  BY <1>1, ShrinkAssumption DEF TrialPostHook, InsideLoop
<1>4. CASE /\ repeated' = TRUE /\ pc' = "call"
           /\ UNCHANGED <<heapVars, outerVars, tactic>>
  <2>1. OuterTypes'
    BY <1>1, <1>4 DEF outerVars, OuterTypes
  <2>2. InnerTypes'
    BY <1>1, <1>2, <1>4 DEF InnerTypes
  <2> QED
    BY <1>1, <1>2, <1>4, <2>1, <2>2, HeapUnchanged, TypesJoin
<1>5. CASE Revert /\ UNCHANGED repeated
  <2>1. current \in Vals /\ curPool \in Vals \union {Null}
    BY <1>1, <1>3 DEF LocalsPoint, Inv, Rest, InnerTypes
  <2>2. args' \in Tuples
    BY <1>1, <1>5, <2>1 DEF Revert, Tuples, HeapTypes
  <2>3. pool' \in [ArgIds -> Vals \union {Null}]
    BY <1>1, <1>5, <2>1 DEF Revert, HeapTypes
  <2>4. HeapTypes'
    BY <1>1, <1>2, <1>5, <2>2, <2>3, FreeTypes DEF Revert, HeapTypes
  <2>5. OuterTypes'
    BY <1>1, <1>3, <1>5, OuterTyped DEF Revert
  <2>6. InnerTypes'
    BY <1>1, <1>2, <1>3, <1>5, TacticTyped DEF Revert, InnerTypes
  <2> QED
    BY <2>4, <2>5, <2>6, TypesJoin
<1>6. CASE (Commit \/ Abandon) /\ UNCHANGED repeated
  <2>1. OuterTypes'
    BY <1>1, <1>3, <1>6, OuterTyped DEF Commit, Abandon
  <2>2. HeapTypes'
    BY <1>1, <1>2, <1>6, FreeTypes DEF Commit, Abandon, HeapTypes
  <2>3. InnerTypes'
    BY <1>1, <1>2, <1>6, InnerUnchanged DEF Commit, Abandon, innerVars
  <2> QED
    BY <2>1, <2>2, <2>3, TypesJoin
<1> QED
  BY <1>4, <1>5, <1>6 DEF TrialPostHook

(* Every step of theft_shrink keeps the types.                             *)
LEMMA TypeStep == Inv /\ [ShrinkStep \/ ShrinkOver]_shrinkVars => Types'
<1> SUFFICES ASSUME Inv, [ShrinkStep \/ ShrinkOver]_shrinkVars PROVE Types'
  OBVIOUS
<1>1. CASE ShrinkStep
  BY <1>1, TypeArgs, TypePreHook, TypeCallback, TypePostHook, TypeCall,
     TypeTrialPostHook DEF ShrinkStep
<1>2. CASE UNCHANGED shrinkVars
  <2>1. HeapTypes /\ OuterTypes /\ InnerTypes
    BY TypesSplit DEF Inv
  <2>2. HeapTypes' /\ InnerTypes'
    BY <1>2, <2>1, HeapUnchanged, InnerUnchanged DEF shrinkVars
  <2>3. OuterTypes'
    BY <1>2, <2>1 DEF shrinkVars, outerVars, OuterTypes
  <2> QED
    BY <2>2, <2>3, TypesJoin
<1> QED
  BY <1>1, <1>2 DEF ShrinkOver

-----------------------------------------------------------------------------
(* Steps and the heap: what is freed was allocated, and what remains are   *)
(* the objects of the arguments.                                           *)

InArg == pc \in {"tactic", "shrink", "shrunk", "call", "called"}

LEMMA ArgFacts ==
  ASSUME Inv, InArg
  PROVE  argi \in ArgIds /\ args \in Tuples /\ args[argi] \in Vals
BY ArgTypes DEF Inv, Rest, InArg, Types, HeapTypes

LEMMA CandidateFacts ==
  ASSUME Inv, HasCandidate \/ Trying
  PROVE  /\ current \in Vals /\ candidate \in Vals /\ candidate # current
         /\ Objects(argi, candidate, candPool) = Owned(argi, candidate)
         /\ HasCandidate => current = args[argi]
         /\ Trying => /\ args[argi] = candidate
                      /\ Objects(argi, current, curPool) = Owned(argi, current)
BY DEF Inv, Rest, LocalsPoint, Owned

(* A candidate that is not tried is freed.                                 *)
LEMMA CandidateDropped ==
  ASSUME Inv, HasCandidate, Free(Objects(argi, candidate, candPool)), args' = args
  PROVE  Mine' = Holding(args') /\ misuse' = misuse
<1>1. Mine = Holding(args) \union Owned(argi, candidate)
  BY DEF Inv, Rest, HeapOwned, Extra
<1>2. Owned(argi, candidate) \intersect Holding(args) = {}
  BY ArgFacts, CandidateFacts, HoldingExcept DEF InArg
<1>3. Mine' = Mine \ Owned(argi, candidate) /\ misuse' = misuse
  BY <1>1, CandidateFacts DEF Free, Mine
<1> QED
  BY <1>1, <1>2, <1>3

(* A candidate takes the current instance's place, which stays allocated.  *)
LEMMA CandidateTried ==
  ASSUME Inv, HasCandidate, args' = [args EXCEPT ![argi] = candidate], heap' = heap
  PROVE  Mine' = Holding(args') \union Owned(argi, current)
<1>1. Mine = Holding(args) \union Owned(argi, candidate)
  BY DEF Inv, Rest, HeapOwned, Extra
<1>2. /\ Holding(args') = (Holding(args) \ Owned(argi, current))
                            \union Owned(argi, candidate)
      /\ Owned(argi, current) \subseteq Holding(args)
  <2>1. argi \in ArgIds /\ args \in Tuples
    BY ArgFacts DEF InArg
  <2>2. candidate \in Vals /\ current = args[argi] /\ args[argi] # candidate
    BY CandidateFacts
  <2> QED
    BY <2>1, <2>2, HoldingExcept
<1> QED
  BY <1>1, <1>2, MineUnchanged

(* A candidate that has been called stays, and the instance before it goes.*)
LEMMA CurrentDropped ==
  ASSUME Inv, Trying, Free(Objects(argi, current, curPool)), args' = args
  PROVE  Mine' = Holding(args') /\ misuse' = misuse
<1>1. Mine = Holding(args) \union Owned(argi, current)
  BY DEF Inv, Rest, HeapOwned, Extra
<1>2. Owned(argi, current) \intersect Holding(args) = {}
  BY ArgFacts, CandidateFacts, HoldingExcept DEF InArg
<1>3. Mine' = Mine \ Owned(argi, current) /\ misuse' = misuse
  BY <1>1, CandidateFacts DEF Free, Mine
<1> QED
  BY <1>1, <1>2, <1>3

(* Or the other way round.                                                 *)
LEMMA CandidateReverted ==
  ASSUME Inv, Trying, Free(Objects(argi, candidate, candPool)),
         args' = [args EXCEPT ![argi] = current]
  PROVE  Mine' = Holding(args') /\ misuse' = misuse
<1>1. Mine = Holding(args) \union Owned(argi, current)
  BY DEF Inv, Rest, HeapOwned, Extra
<1>2. /\ Holding(args') = (Holding(args) \ Owned(argi, candidate))
                            \union Owned(argi, current)
      /\ Owned(argi, candidate) \subseteq Holding(args)
  <2>1. argi \in ArgIds /\ args \in Tuples
    BY ArgFacts DEF InArg
  <2>2. current \in Vals /\ candidate = args[argi] /\ args[argi] # current
    BY CandidateFacts
  <2> QED
    BY <2>1, <2>2, HoldingExcept
<1>3. Owned(argi, current) \intersect Owned(argi, candidate) = {}
  BY ArgFacts, CandidateFacts, OwnedDisjoint DEF InArg
<1>4. Mine' = Mine \ Owned(argi, candidate) /\ misuse' = misuse
  BY <1>1, <1>2, CandidateFacts DEF Free, Mine
<1> QED
  BY <1>1, <1>2, <1>3, <1>4

LEMMA PoolFollowsExcept ==
  ASSUME Inv, argi \in ArgIds, NEW v,
         args' = [args EXCEPT ![argi] = v],
         pool' = [pool EXCEPT ![argi] = PoolOf(argi, v)]
  PROVE  PoolFollows'
BY DEF Inv, Rest, PoolFollows, PoolOf, Types, HeapTypes, Tuples

(* A step to where no candidate is around.                                 *)
LEMMA Calm ==
  ASSUME pc' \in {"arg", "tactic", "done", "aborted"},
         pc' = "tactic" => argi' \in Shrinkable,
         PoolFollows', Mine' = Holding(args'), MemorySafe',
         Deterministic /\ (pc' \in {"arg", "tactic"} \/ (pc' = "done" /\ ok')) =>
           args' \in fails'
  PROVE  Rest'
<1>1. InsideLoop' /\ LocalsPoint'
  BY DEF InsideLoop, LocalsPoint
<1>2. HeapOwned'
  BY DEF HeapOwned, Extra
<1>3. FailureKept'
  BY DEF FailureKept, Deterministic
<1> QED
  BY <1>1, <1>2, <1>3 DEF Rest

LEMMA RestArgs ==
  Inv /\ (ArgShrinkable \/ ArgSkipped \/ ArgsDone \/ TacticsSpent) => Rest'
<1> SUFFICES ASSUME Inv, ArgShrinkable \/ ArgSkipped \/ ArgsDone \/ TacticsSpent
             PROVE  Rest'
  OBVIOUS
<1>1. /\ pc \in {"arg", "tactic"} /\ pc' \in {"arg", "tactic", "done"}
      /\ pc' = "tactic" => argi' \in Shrinkable
      /\ UNCHANGED <<args, pool, heap, misuse, fails>>
  BY DEF ArgShrinkable, ArgSkipped, ArgsDone, TacticsSpent, NextArg, StartShrink,
         Return, heapVars, outerVars
<1>2. Mine = Holding(args) /\ (Deterministic => args \in fails)
  BY <1>1 DEF Inv, Rest, HeapOwned, Extra, FailureKept
<1>3. PoolFollows' /\ MemorySafe'
  BY <1>1 DEF Inv, Rest, PoolFollows, MemorySafe
<1> QED
  BY <1>1, <1>2, <1>3, Calm, MineUnchanged

LEMMA RestPreHook ==
  ASSUME Inv, NEW h, PreHook(h) PROVE Rest'
<1>1. /\ pc = "tactic" /\ TacticsLeft /\ argi \in Shrinkable
      /\ UNCHANGED <<args, pool, heap, misuse, fails, argi, tactic>>
      /\ current' = args[argi] /\ curPool' = pool[argi]
      /\ candidate' = Null /\ candPool' = Null
  BY DEF PreHook, Inv, Rest, InsideLoop, heapVars, outerVars, GiveUp
<1>2. Mine = Holding(args) /\ (Deterministic => args \in fails)
  BY <1>1 DEF Inv, Rest, HeapOwned, Extra, FailureKept
<1>3. PoolFollows' /\ MemorySafe'
  BY <1>1 DEF Inv, Rest, PoolFollows, MemorySafe
<1>4. CASE pc' = "done"
  BY <1>1, <1>2, <1>3, <1>4, Calm, MineUnchanged
<1>5. CASE pc' = "shrink"
  <2>1. InsideLoop' /\ LocalsPoint'
    BY <1>1, <1>5 DEF InsideLoop, LocalsPoint, TacticsLeft
  <2>2. HeapOwned' /\ FailureKept'
    BY <1>1, <1>2, <1>5, MineUnchanged DEF HeapOwned, Extra, FailureKept, Deterministic
  <2> QED
    BY <1>3, <2>1, <2>2 DEF Rest
<1> QED
  BY <1>4, <1>5 DEF PreHook, GiveUp, Return

LEMMA RestCallback ==
  ASSUME Inv, NEW o \in Vals \union NoCandidate, ShrinkCallback(o)
  PROVE  Rest'
<1>1. /\ pc = "shrink" /\ pc' = "shrunk" /\ TacticsLeft /\ argi \in Shrinkable
      /\ UNCHANGED <<args, pool, misuse, fails, argi, tactic, current, curPool>>
      /\ current = args[argi] /\ curPool = pool[argi]
      /\ candidate = Null /\ candPool = Null
  BY DEF ShrinkCallback, Inv, Rest, InsideLoop, LocalsPoint, outerVars
<1>2. Mine = Holding(args) /\ (Deterministic => args \in fails)
  BY <1>1 DEF Inv, Rest, HeapOwned, Extra, FailureKept
<1>3. PoolFollows' /\ MemorySafe' /\ InsideLoop' /\ FailureKept'
  BY <1>1, <1>2 DEF Inv, Rest, PoolFollows, MemorySafe, InsideLoop, TacticsLeft,
                    FailureKept, Deterministic
<1>4. argi \in ArgIds /\ current \in Vals /\ tactic \in 0 .. MaxTactics
  BY <1>1, ArgFacts DEF InArg, Inv, Types, HeapTypes, InnerTypes
<1>5. CASE o \in Vals
  <2>1. sres' = "ok" /\ candidate' = o /\ candPool' = PoolOf(argi, o)
    BY <1>5 DEF ShrinkCallback, PoolOf
  <2>2. o # current
    BY <1>4, <1>5, ShrinkAssumption DEF ShrinkCallback
  <2>3. heap' = heap \union Owned(argi, o)
    BY <1>5, <2>1 DEF ShrinkCallback, Owned
  <2>4. Mine' = Mine \union Owned(argi, o)
    BY <1>4, <1>5, <2>3, OwnedTypes DEF Mine
  <2>5. LocalsPoint' /\ HeapOwned'
    BY <1>1, <1>2, <1>4, <1>5, <2>1, <2>2, <2>4 DEF LocalsPoint, HeapOwned, Extra
  <2> QED
    BY <1>3, <2>5 DEF Rest
<1>6. CASE o \notin Vals
  <2>1. sres' # "ok" /\ UNCHANGED <<candidate, candPool, heap>>
    BY <1>6, ShrinkAssumption DEF ShrinkCallback
  <2>2. LocalsPoint' /\ HeapOwned'
    BY <1>1, <1>2, <2>1, MineUnchanged DEF LocalsPoint, HeapOwned, Extra
  <2> QED
    BY <1>3, <2>2 DEF Rest
<1> QED
  BY <1>5, <1>6

LEMMA RestPostHook ==
  ASSUME Inv, NEW h, PostHook(h) PROVE Rest'
<1>1. /\ pc = "shrunk" /\ TacticsLeft /\ argi \in Shrinkable /\ argi \in ArgIds
      /\ UNCHANGED <<fails, current, curPool, candidate, candPool, sres, res>>
  BY ShrinkAssumption DEF PostHook, Inv, Rest, InsideLoop
<1>2. Deterministic => args \in fails
  BY <1>1 DEF Inv, Rest, FailureKept
<1>3. UNCHANGED <<args, pool>> => PoolFollows'
  BY DEF Inv, Rest, PoolFollows
<1>4. misuse' \subseteq misuse \union {"free_null"} => MemorySafe'
  BY DEF Inv, Rest, MemorySafe
<1>5. ~ HasCandidate => Mine = Holding(args) /\ candidate = Null
  BY <1>1 DEF Inv, Rest, HeapOwned, Extra, LocalsPoint
<1>6. HasCandidate => candidate # Null
  BY CandidateFacts, ShrinkAssumption
<1>7. CASE ~ HasCandidate /\ UNCHANGED heapVars
           /\ (NextTactic \/ NextArg \/ GiveUp(FALSE)
                \/ (pc' = "aborted" /\ UNCHANGED outerVars))
  <2>1. /\ pc' \in {"arg", "tactic", "done", "aborted"}
        /\ pc' = "tactic" => argi' \in Shrinkable
        /\ pc' = "done" => ~ ok'
    BY <1>1, <1>7 DEF NextTactic, NextArg, GiveUp, Return, outerVars
  <2>2. Mine' = Holding(args') /\ PoolFollows' /\ MemorySafe' /\ args' = args
    BY <1>3, <1>4, <1>5, <1>7, MineUnchanged DEF heapVars
  <2> QED
    BY <1>1, <1>2, <2>1, <2>2, Calm
<1>8. CASE PostHookErrs
  <2>1. pc' = "done" /\ ~ ok' /\ UNCHANGED <<args, pool>>
    BY <1>8 DEF PostHookErrs, GiveUp, Return
  <2>2. Mine' = Holding(args') /\ MemorySafe'
    <3>1. CASE HasCandidate
      <4>1. Free(Objects(argi, candidate, candPool))
        BY <1>6, <1>8, <3>1 DEF PostHookErrs
      <4> QED
        BY <1>4, <2>1, <3>1, <4>1, CandidateDropped
    <3>2. CASE ~ HasCandidate
      <4>1. heap' = heap /\ misuse' = misuse \union {"free_null"}
        BY <1>5, <1>8, <3>2 DEF PostHookErrs
      <4> QED
        BY <1>4, <1>5, <2>1, <3>2, <4>1, MineUnchanged
    <3> QED
      BY <3>1, <3>2
  <2> QED
    BY <1>3, <2>1, <2>2, Calm
<1>9. ASSUME HasCandidate, TryCandidate PROVE Rest'
  <2>1. CASE /\ Free(Objects(argi, candidate, candPool)) /\ NextTactic
             /\ UNCHANGED <<args, pool, filter, repeated>>
    <3>1. Mine' = Holding(args') /\ MemorySafe' /\ PoolFollows'
      BY <1>3, <1>4, <1>9, <2>1, CandidateDropped
    <3>2. pc' = "tactic" /\ argi' \in Shrinkable /\ (args' \in fails' \/ ~ Deterministic)
      BY <1>1, <1>2, <2>1 DEF NextTactic, outerVars
    <3> QED
      BY <1>1, <2>1, <3>1, <3>2, Calm DEF NextTactic, outerVars
  <2>2. CASE /\ args' = [args EXCEPT ![argi] = candidate]
             /\ pool' = [pool EXCEPT ![argi] = candPool]
             /\ pc' = "call"
             /\ UNCHANGED <<heap, misuse, outerVars, tactic>>
    <3>1. /\ current \in Vals /\ candidate \in Vals /\ candidate # current
          /\ candPool = PoolOf(argi, candidate) /\ current = args[argi]
          /\ curPool = PoolOf(argi, current)
      BY <1>1, <1>9 DEF Inv, Rest, LocalsPoint, PoolFollows
    <3>2. PoolFollows'
      BY <1>1, <2>2, <3>1, PoolFollowsExcept
    <3>3. HeapOwned'
      BY <1>1, <1>9, <2>2, CandidateTried DEF HeapOwned, Extra, outerVars
    <3>4. args \in Tuples
      BY DEF Inv, Types, HeapTypes
    <3>5. args' [argi] = candidate /\ [args' EXCEPT ![argi] = current] = args
      BY <1>1, <2>2, <3>1, <3>4 DEF Tuples
    <3>6. InsideLoop' /\ LocalsPoint' /\ MemorySafe'
      BY <1>1, <1>4, <2>2, <3>1, <3>5 DEF InsideLoop, LocalsPoint, TacticsLeft, outerVars
    <3>7. FailureKept'
      BY <1>1, <1>2, <2>2, <3>5 DEF FailureKept, Deterministic, outerVars
    <3> QED
      BY <3>2, <3>3, <3>6, <3>7 DEF Rest
  <2> QED
    BY <1>9, <2>1, <2>2 DEF TryCandidate
<1> QED
  BY <1>1, <1>7, <1>8, <1>9, ShrinkAssumption DEF PostHook

LEMMA RestCall ==
  ASSUME Inv, NEW r \in {"PASS", "FAIL", "SKIP", "ERROR"}, ShrinkCall(r)
  PROVE  Rest'
<1>1. /\ pc = "call" /\ pc' = "called" /\ TacticsLeft /\ argi \in Shrinkable
      /\ UNCHANGED <<args, pool, heap, fails, argi, tactic, current, curPool,
                     candidate, candPool>>
      /\ res' = r /\ r \in Says
  BY DEF ShrinkCall, Inv, Rest, InsideLoop, outerVars
<1>2. \A a \in ArgIds : Inst(a, args[a]) \in heap
  <2> SUFFICES ASSUME NEW a \in ArgIds PROVE Inst(a, args[a]) \in heap
    OBVIOUS
  <2>1. args[a] \in Vals
    BY DEF Inv, Types, HeapTypes, Tuples
  <2>2. Inst(a, args[a]) \in Holding(args)
    BY <2>1, OwnedMembers, HoldingMembers
  <2> QED
    BY <2>2 DEF Inv, Rest, HeapOwned, Mine
<1>3. misuse' = misuse
  BY <1>2 DEF ShrinkCall, CallUses
<1>4. PoolFollows' /\ InsideLoop' /\ LocalsPoint' /\ MemorySafe'
  BY <1>1, <1>3 DEF Inv, Rest, PoolFollows, InsideLoop, LocalsPoint, MemorySafe,
                    TacticsLeft
<1>5. HeapOwned'
  BY <1>1, MineUnchanged DEF Inv, Rest, HeapOwned, Extra
<1>6. Deterministic /\ r = "FAIL" => args \in fails
  BY <1>1 DEF Says, Deterministic
<1>7. FailureKept'
  BY <1>1, <1>6 DEF Inv, Rest, FailureKept, Deterministic
<1> QED
  BY <1>4, <1>5, <1>7 DEF Rest

LEMMA RestTrialPostHook ==
  ASSUME Inv, NEW h, TrialPostHook(h) PROVE Rest'
<1>1. /\ pc = "called" /\ TacticsLeft /\ argi \in Shrinkable /\ argi \in ArgIds
      /\ UNCHANGED <<fails, current, curPool, candidate, candPool, sres, res>>
  BY ShrinkAssumption DEF TrialPostHook, Inv, Rest, InsideLoop
<1>2. misuse' = misuse => MemorySafe'
  BY DEF Inv, Rest, MemorySafe
<1>3. /\ curPool = PoolOf(argi, current)
      /\ Deterministic => [args EXCEPT ![argi] = current] \in fails
      /\ Deterministic /\ res = "FAIL" => args \in fails
  BY <1>1 DEF Inv, Rest, LocalsPoint, FailureKept
<1>4. CASE pc' = "call" /\ UNCHANGED <<heapVars, outerVars, tactic>>
  <2>1. PoolFollows' /\ InsideLoop' /\ LocalsPoint'
    BY <1>1, <1>4 DEF Inv, Rest, PoolFollows, InsideLoop, LocalsPoint, TacticsLeft,
                      heapVars, outerVars
  <2>2. HeapOwned' /\ FailureKept'
    BY <1>1, <1>4, MineUnchanged DEF Inv, Rest, HeapOwned, Extra, FailureKept, Deterministic,
                      heapVars, outerVars
  <2> QED
    BY <1>2, <1>4, <2>1, <2>2 DEF Rest, heapVars
<1>5. CASE Revert
  <2>1. Mine' = Holding(args') /\ MemorySafe'
    BY <1>1, <1>2, <1>5, CandidateReverted DEF Revert
  <2>2. PoolFollows'
    BY <1>1, <1>3, <1>5, PoolFollowsExcept DEF Revert
  <2>3. pc' = "tactic" /\ argi' = argi /\ args' = [args EXCEPT ![argi] = current]
    BY <1>5 DEF Revert, NextTactic, outerVars
  <2> QED
    BY <1>1, <1>3, <2>1, <2>2, <2>3, Calm
<1>6. CASE (res = "FAIL" /\ Commit) \/ Abandon
  <2>1. Free(Objects(argi, current, curPool)) /\ UNCHANGED <<args, pool>>
    BY <1>6 DEF Commit, Abandon
  <2>2. Mine' = Holding(args') /\ MemorySafe'
    BY <1>1, <1>2, <2>1, CurrentDropped
  <2>3. PoolFollows'
    BY <2>1 DEF Inv, Rest, PoolFollows
  <2>4. (pc' = "arg" /\ res = "FAIL") \/ (pc' = "done" /\ ~ ok')
    BY <1>6 DEF Commit, Abandon, SameArg, GiveUp, Return
  <2> QED
    BY <1>1, <1>3, <2>1, <2>2, <2>3, <2>4, Calm
<1> QED
  BY <1>4, <1>5, <1>6 DEF TrialPostHook

LEMMA RestStep == Inv /\ [ShrinkStep \/ ShrinkOver]_shrinkVars => Rest'
<1> SUFFICES ASSUME Inv, [ShrinkStep \/ ShrinkOver]_shrinkVars PROVE Rest'
  OBVIOUS
<1>1. CASE ShrinkStep
  BY <1>1, RestArgs, RestPreHook, RestCallback, RestPostHook, RestCall,
     RestTrialPostHook DEF ShrinkStep
<1>2. CASE UNCHANGED shrinkVars
  <2> USE <1>2 DEF shrinkVars, heapVars, outerVars, innerVars, Inv, Rest
  <2>1. PoolFollows' /\ InsideLoop' /\ LocalsPoint' /\ MemorySafe'
    BY DEF PoolFollows, InsideLoop, LocalsPoint, TacticsLeft, MemorySafe
  <2>2. HeapOwned' /\ FailureKept'
    BY MineUnchanged DEF HeapOwned, Extra, FailureKept, Deterministic
  <2> QED
    BY <2>1, <2>2
<1> QED
  BY <1>1, <1>2 DEF ShrinkOver

(* Shrinking leaves the rest of the heap alone.                            *)
LEMMA AroundKept ==
  ASSUME Inv, [ShrinkStep \/ ShrinkOver]_shrinkVars
  PROVE  heap' \ Heap = heap \ Heap
<1>1. ASSUME NEW objs, objs \subseteq Heap, Free(objs) PROVE heap' \ Heap = heap \ Heap
  BY <1>1 DEF Free
<1>2. ASSUME HasCandidate \/ Trying
      PROVE  /\ Objects(argi, candidate, candPool) \subseteq Heap
             /\ Trying => Objects(argi, current, curPool) \subseteq Heap
  BY <1>2, ArgFacts, CandidateFacts, OwnedTypes DEF InArg
<1>3. ASSUME NEW o, o \in Vals \union NoCandidate, ShrinkCallback(o)
      PROVE  heap' \ Heap = heap \ Heap
  <2>1. argi \in ArgIds
    BY <1>3, ArgFacts DEF ShrinkCallback, InArg
  <2>2. o \in Vals => Objects(argi, o, PoolOf(argi, o)) \subseteq Heap
    BY <2>1, OwnedTypes DEF Owned
  <2> QED
    BY <1>3, <2>2 DEF ShrinkCallback, PoolOf
<1>4. ASSUME NEW h, PostHook(h) PROVE heap' \ Heap = heap \ Heap
  <2>1. ~ HasCandidate => candidate = Null
    BY <1>4 DEF PostHook, Inv, Rest, LocalsPoint
  <2>2. HasCandidate /\ Free(Objects(argi, candidate, candPool))
          => heap' \ Heap = heap \ Heap
    BY <1>1, <1>2
  <2>3. PostHookErrs \/ (HasCandidate /\ TryCandidate) \/ heap' = heap
    BY <1>4 DEF PostHook, heapVars
  <2>4. PostHookErrs => heap' = heap \/ (HasCandidate /\ Free(Objects(argi, candidate, candPool)))
    BY <2>1 DEF PostHookErrs
  <2>5. TryCandidate => heap' = heap \/ Free(Objects(argi, candidate, candPool))
    BY DEF TryCandidate
  <2> QED
    BY <2>2, <2>3, <2>4, <2>5
<1>5. ASSUME NEW h, TrialPostHook(h) PROVE heap' \ Heap = heap \ Heap
  <2>1. Trying
    BY <1>5 DEF TrialPostHook
  <2>2. \/ heap' = heap \/ Free(Objects(argi, candidate, candPool))
        \/ Free(Objects(argi, current, curPool))
    BY <1>5 DEF TrialPostHook, Revert, Commit, Abandon, heapVars
  <2> QED
    BY <1>1, <1>2, <2>1, <2>2
<1>6. CASE heap' = heap
  BY <1>6
<1> QED
  BY <1>3, <1>4, <1>5, <1>6 DEF ShrinkStep, ShrinkOver, shrinkVars, heapVars,
     ArgShrinkable, ArgSkipped, ArgsDone, TacticsSpent, PreHook, ShrinkCall

-----------------------------------------------------------------------------
(* The theorems.                                                           *)

LEMMA InvStep == Inv /\ [ShrinkStep \/ ShrinkOver]_shrinkVars => Inv'
BY TypeStep, RestStep DEF Inv

LEMMA Invariant == ShrinkSpec => [](Inv /\ heap \subseteq Heap)
<1>1. ShrinkInit => heap \subseteq Heap
  BY InitInv
<1>2. /\ Inv /\ heap \subseteq Heap /\ [ShrinkStep \/ ShrinkOver]_shrinkVars
      => Inv' /\ (heap \subseteq Heap)'
  BY InvStep, AroundKept
<1> QED
  BY InitInv, <1>1, <1>2, PTL DEF ShrinkSpec

(* The variables of theft_shrink and attempt_to_shrink_arg have their types.*)
THEOREM ShrinkTypeCorrect == ShrinkSpec => []ShrinkTypeOK
<1>1. Inv /\ heap \subseteq Heap => ShrinkTypeOK
  BY DEF Inv, Types, HeapTypes, OuterTypes, InnerTypes, ShrinkTypeOK
<1> QED
  BY Invariant, <1>1, PTL

(***************************************************************************)
(* Whatever the callbacks and hooks of shrinking answer, nothing is freed  *)
(* twice or used after it was freed.                                       *)
(***************************************************************************)
THEOREM ShrinkIsMemorySafe == ShrinkSpec => []MemorySafe
<1>1. Inv => MemorySafe
  BY DEF Inv, Rest
<1> QED
  BY Invariant, <1>1, PTL

(* When theft_shrink returns, the heap is what the trial is going to free. *)
THEOREM ShrinkLeavesTheArguments == ShrinkSpec => []HeapIsArgs
<1>1. Inv /\ heap \subseteq Heap => HeapIsArgs
  <2> SUFFICES ASSUME Inv, heap \subseteq Heap, pc = "done"
               PROVE  heap = UNION {Objects(a, args[a], pool[a]) : a \in ArgIds}
    BY DEF HeapIsArgs
  <2>1. heap = Holding(args)
    BY DEF Inv, Rest, HeapOwned, Extra, Mine
  <2> QED
    BY <2>1 DEF Inv, Rest, PoolFollows, Holding, Owned
<1> QED
  BY Invariant, <1>1, PTL

(* An instance and the bit pool it was built from are never separated.     *)
THEOREM PoolsFollowInstances == ShrinkSpec => []PoolIsOfInstance
<1>1. Inv => PoolIsOfInstance
  BY ShrinkAssumption DEF Inv, Rest, PoolFollows, PoolOf, PoolIsOfInstance
<1> QED
  BY Invariant, <1>1, PTL

(***************************************************************************)
(* If the property is a function of its arguments, shrinking a failure     *)
(* ends with a failure: what is reported is a counterexample.              *)
(***************************************************************************)
THEOREM ShrinkingKeepsFailing == ShrinkSpec => []CounterexampleFails
<1>1. Inv => CounterexampleFails
  BY DEF Inv, Rest, FailureKept, CounterexampleFails
<1> QED
  BY Invariant, <1>1, PTL

-----------------------------------------------------------------------------
(* The search for a local minimum.                                         *)

(***************************************************************************)
(* What the search relies on.  The filter claims nothing that was not      *)
(* marked.  "The same combination of instance, env info, and shrinking     *)
(* tactic number should always simplify to the same new instance"          *)
(* (doc/shrinking.md:54-56), unless there is an error, and a shrink is     *)
(* "simpler" (inc/theft_types.h:125): of a smaller size, so that repeated  *)
(* shrinking does not come back to where it was.                           *)
(***************************************************************************)
Reliable(size) ==
  /\ HasBloom => ~ FalsePositives
  /\ size \in [Vals -> Nat]
  /\ \A a \in ArgIds, v \in Vals, t \in 0 .. MaxTactics - 1 :
       \A o \in Vals \intersect Candidates(a, v, t) :
         size[o] < size[v] /\ Candidates(a, v, t) \subseteq {o, ShrinkError}

(* The arguments last committed to: what Revert would go back to.          *)
Base == IF Trying THEN [args EXCEPT ![argi] = current] ELSE args

(* The tuples that tactic t of argument a leads to from the tuple f.       *)
LeadsTo(f, a, t) == {[f EXCEPT ![a] = o] : o \in Vals \intersect Candidates(a, f[a], t)}

(* No tactic that comes to be tried on argument a of f finds a failure.    *)
Exhausted(f, a) ==
  \A t \in 0 .. MaxTactics - 1 :
    (\A w \in 0 .. t - 1 : NoMore \notin Candidates(a, f[a], w)) =>
      LeadsTo(f, a, t) \intersect fails = {}

Searching == pc \notin {"done", "aborted"}

(* A failure called before is what the search came through, none of its    *)
(* arguments smaller than it is now; or it is the one being tried.         *)
CalledBefore(size) ==
  Searching => \A c \in called \intersect fails :
    \/ Trying /\ c = args
    \/ \A a \in ArgIds : size[Base[a]] <= size[c[a]]

(* Arguments passed since the last progress have nothing to offer.         *)
ArgsExhausted ==
  Searching /\ ~ progress =>
    \A a \in Shrinkable : a < argi => Exhausted(Base, a)

(* Nor have the tactics already tried on this one.                         *)
TacticsExhausted ==
  InArg => \A u \in 0 .. tactic - 1 : LeadsTo(Base, argi, u) \intersect fails = {}

(* What came of the tactic, and of the call.                               *)
TacticGave ==
  /\ pc = "shrunk" /\ sres # "ok" => sres \in Candidates(argi, current, tactic)
  /\ HasCandidate \/ Trying => candidate \in Candidates(argi, current, tactic)
  /\ pc = "called" /\ res # "FAIL" => args \notin fails

SearchInv(size) ==
  /\ CalledBefore(size) /\ ArgsExhausted /\ TacticsExhausted /\ TacticGave
  /\ LocalMinimum

(* A step that leaves the arguments committed to as they are.              *)
LEMMA ExhaustedKept ==
  ASSUME fails' = fails, NEW f, NEW a, Exhausted(f, a)
  PROVE  Exhausted(f, a)'
BY DEF Exhausted, LeadsTo

(* Nothing is offered where every tactic is exhausted.                     *)
LEMMA ExhaustedOffers ==
  ASSUME NEW a, Exhausted(args, a)
  PROVE  Offered(a) \intersect fails = {}
<1> SUFFICES ASSUME NEW x \in Offered(a), x \in fails PROVE FALSE
  OBVIOUS
<1>1. PICK t \in {u \in 0 .. MaxTactics - 1 : \A w \in 0 .. u - 1 :
                     NoMore \notin Candidates(a, args[a], w)},
           o \in Vals :
        o \in Candidates(a, args[a], t) /\ x = [args EXCEPT ![a] = o]
  BY DEF Offered
<1>2. x \in LeadsTo(args, a, t)
  BY <1>1 DEF LeadsTo
<1> QED
  BY <1>1, <1>2 DEF Exhausted

LEMMA SearchInit ==
  ASSUME NEW size, Reliable(size), ShrinkInit
  PROVE  SearchInv(size)
<1>1. pc = "arg" /\ argi = 1 /\ called \subseteq {args} /\ args \in Tuples
  BY DEF ShrinkInit
<1>2. \A a \in ArgIds : size[args[a]] \in Nat
  BY <1>1 DEF Reliable, Tuples
<1>3. CalledBefore(size)
  BY <1>1, <1>2 DEF CalledBefore, Base
<1>4. Shrinkable \subseteq ArgIds /\ \A a \in ArgIds : ~ a < 1
  BY ShrinkAssumption DEF ArgIds
<1>5. ArgsExhausted
  BY <1>1, <1>4 DEF ArgsExhausted
<1> QED
  BY <1>1, <1>3, <1>5 DEF SearchInv, TacticsExhausted, InArg, TacticGave, LocalMinimum

(* The loop over the arguments.                                            *)
LEMMA SearchArgs ==
  ASSUME NEW size, Reliable(size), Inv, SearchInv(size),
         ArgShrinkable \/ ArgSkipped \/ ArgsDone \/ TacticsSpent
  PROVE  SearchInv(size)'
<1>1. /\ pc \in {"arg", "tactic"} /\ pc' \in {"arg", "tactic", "done"}
      /\ UNCHANGED <<args, fails, filter>>
  BY DEF ArgShrinkable, ArgSkipped, ArgsDone, TacticsSpent, NextArg, StartShrink,
         Return, heapVars
<1>2. Base = args /\ Base' = args
  BY <1>1 DEF Base
<1>3. CalledBefore(size)'
  BY <1>1, <1>2 DEF SearchInv, CalledBefore, Searching
<1>4. TacticGave'
  BY <1>1 DEF TacticGave
<1>5. argi \in Int /\ Shrinkable \subseteq ArgIds /\ Arity \in Nat
      /\ \A a \in Shrinkable : a \in Int
  BY ShrinkAssumption DEF ArgIds, Inv, Types, OuterTypes
<1>6. CASE ArgShrinkable
  <2>1. UNCHANGED <<argi, progress>> /\ pc' = "tactic" /\ tactic' = 0
    BY <1>6 DEF ArgShrinkable, outerVars
  <2>2. TacticsExhausted'
    BY <2>1 DEF TacticsExhausted
  <2>3. ArgsExhausted'
    BY <1>1, <1>2, <2>1, ExhaustedKept DEF SearchInv, ArgsExhausted, Searching
  <2> QED
    BY <1>3, <1>4, <2>1, <2>2, <2>3 DEF SearchInv, LocalMinimum
<1>7. CASE ArgSkipped
  <2>1. /\ argi' = argi + 1 /\ progress' = progress /\ pc = "arg" /\ pc' = "arg"
        /\ argi \notin Shrinkable
    BY <1>7 DEF ArgSkipped
  <2>2. \A a \in Shrinkable : a < argi' => a < argi
    <3> SUFFICES ASSUME NEW a \in Shrinkable, a < argi' PROVE a < argi
      OBVIOUS
    <3>1. a \in Int /\ a # argi
      BY <1>5, <2>1
    <3> QED
      BY <1>5, <2>1, <3>1
  <2>3. ArgsExhausted'
    BY <1>1, <1>2, <2>1, <2>2, ExhaustedKept DEF SearchInv, ArgsExhausted, Searching
  <2> QED
    BY <1>3, <1>4, <2>1, <2>3 DEF SearchInv, LocalMinimum, TacticsExhausted, InArg
<1>8. CASE ArgsDone
  <2>1. CASE progress /\ StartShrink
    <3>1. pc' = "arg" /\ argi' = 1
      BY <2>1 DEF StartShrink
    <3>2. \A a \in Shrinkable : ~ a < argi'
      BY <1>5, <3>1 DEF ArgIds
    <3> QED
      BY <1>3, <1>4, <3>1, <3>2 DEF SearchInv, LocalMinimum, TacticsExhausted,
         InArg, ArgsExhausted
  <2>2. CASE ~ progress /\ Return(TRUE)
    <3>1. pc' = "done" /\ pc = "arg" /\ argi > Arity
      BY <1>8, <2>2 DEF ArgsDone, Return
    <3>2. \A a \in Shrinkable : a < argi
      BY <1>5, <3>1 DEF ArgIds
    <3>3. \A a \in Shrinkable : Exhausted(args, a)
      BY <1>2, <2>2, <3>1, <3>2 DEF SearchInv, ArgsExhausted, Searching
    <3>4. \A a \in Shrinkable : (Offered(a) \intersect fails = {})'
      BY <1>1, <3>3, ExhaustedOffers DEF Offered
    <3>5. LocalMinimum'
      BY <3>4 DEF LocalMinimum
    <3> QED
      BY <1>3, <1>4, <3>1, <3>5 DEF SearchInv, TacticsExhausted, InArg, ArgsExhausted,
         Searching
  <2> QED
    BY <1>8, <2>1, <2>2 DEF ArgsDone
<1>9. CASE TacticsSpent
  <2>1. /\ pc = "tactic" /\ pc' = "arg" /\ argi' = argi + 1 /\ progress' = progress
        /\ tactic \in Int /\ MaxTactics \in Nat /\ tactic >= MaxTactics
    BY <1>9, ShrinkAssumption DEF TacticsSpent, NextArg, TacticsLeft, Inv, Types, InnerTypes
  <2>2. \A t \in 0 .. MaxTactics - 1 : t \in 0 .. tactic - 1
    BY <2>1
  <2>3. Exhausted(args, argi)
    BY <1>2, <2>1, <2>2 DEF SearchInv, TacticsExhausted, InArg, Exhausted
  <2>4. \A a \in Shrinkable : a < argi' => a < argi \/ a = argi
    <3> SUFFICES ASSUME NEW a \in Shrinkable, a < argi' PROVE a < argi \/ a = argi
      OBVIOUS
    <3>1. a \in Int
      BY <1>5
    <3> QED
      BY <1>5, <2>1, <3>1
  <2>5. ArgsExhausted'
    BY <1>1, <1>2, <2>1, <2>3, <2>4, ExhaustedKept DEF SearchInv, ArgsExhausted, Searching
  <2> QED
    BY <1>3, <1>4, <2>1, <2>5 DEF SearchInv, LocalMinimum, TacticsExhausted, InArg
<1> QED
  BY <1>6, <1>7, <1>8, <1>9

(* A return from within the loop over the arguments, or an abort.          *)
LEMMA SearchLeft ==
  ASSUME NEW size, pc' \in {"done", "aborted"},
         pc' = "done" /\ ok' => argi' \in ArgIds
  PROVE  SearchInv(size)'
<1>1. pc' = "done" /\ ok' => ~ argi' > Arity
  BY ShrinkAssumption DEF ArgIds
<1>2. LocalMinimum'
  BY <1>1 DEF LocalMinimum
<1> QED
  BY <1>2 DEF SearchInv, CalledBefore, Searching, ArgsExhausted, TacticsExhausted,
     InArg, TacticGave

(* A step within a tactic: the arguments committed to stay.                *)
LEMMA SearchGoesOn ==
  ASSUME NEW size, SearchInv(size), InArg, InArg', Base' = Base,
         UNCHANGED <<fails, argi, progress, tactic>>,
         CalledBefore(size)', TacticGave'
  PROVE  SearchInv(size)'
<1>1. pc' \notin {"done", "aborted"} /\ pc \notin {"done", "aborted"}
  BY DEF InArg
<1>2. ArgsExhausted'
  BY <1>1, ExhaustedKept DEF SearchInv, ArgsExhausted, Searching
<1>3. TacticsExhausted'
  BY DEF SearchInv, TacticsExhausted, LeadsTo
<1> QED
  BY <1>1, <1>2, <1>3 DEF SearchInv, LocalMinimum

LEMMA SearchPreHook ==
  ASSUME NEW size, Reliable(size), Inv, SearchInv(size), NEW h, PreHook(h)
  PROVE  SearchInv(size)'
<1>1. /\ pc = "tactic" /\ pc' \in {"shrink", "done"} /\ argi \in ArgIds
      /\ UNCHANGED <<args, fails, filter, argi, progress, tactic>>
  BY ArgFacts DEF PreHook, GiveUp, Return, heapVars, outerVars, InArg
<1>2. CASE pc' = "done"
  BY <1>1, <1>2, SearchLeft
<1>3. CASE pc' = "shrink"
  <2>1. Base = args /\ Base' = args
    BY <1>1, <1>3 DEF Base
  <2>2. CalledBefore(size)'
    BY <1>1, <1>3, <2>1 DEF SearchInv, CalledBefore, Searching
  <2> QED
    BY <1>1, <1>3, <2>1, <2>2, SearchGoesOn DEF InArg, TacticGave
<1> QED
  BY <1>1, <1>2, <1>3

LEMMA SearchCallback ==
  ASSUME NEW size, Reliable(size), Inv, SearchInv(size),
         NEW o \in Vals \union NoCandidate, ShrinkCallback(o)
  PROVE  SearchInv(size)'
<1>1. /\ pc = "shrink" /\ pc' = "shrunk"
      /\ UNCHANGED <<args, fails, filter, argi, progress, tactic, current>>
      /\ o \in Candidates(argi, current, tactic)
      /\ o \in Vals => sres' = "ok" /\ candidate' = o
      /\ o \notin Vals => sres' = o /\ o # "ok"
  BY ShrinkAssumption DEF ShrinkCallback, outerVars
<1>2. Base = args /\ Base' = args
  BY <1>1 DEF Base
<1>3. CalledBefore(size)'
  BY <1>1, <1>2 DEF SearchInv, CalledBefore, Searching
<1>4. TacticGave'
  BY <1>1 DEF TacticGave
<1> QED
  BY <1>1, <1>2, <1>3, <1>4, SearchGoesOn DEF InArg

(* On to the next tactic when the current one leads to no failure.         *)
LEMMA SearchNextTactic ==
  ASSUME NEW size, Reliable(size), Inv, SearchInv(size), InArg,
         NextTactic, Base' = Base, fails' = fails, called' = called,
         Trying => args \notin fails,
         LeadsTo(Base, argi, tactic) \intersect fails = {}
  PROVE  SearchInv(size)'
<1>1. /\ pc' = "tactic" /\ tactic' = tactic + 1 /\ tactic \in Int
      /\ UNCHANGED <<argi, progress>>
  BY ShrinkAssumption DEF NextTactic, outerVars, Inv, Types, InnerTypes
<1>2. CalledBefore(size)'
  BY <1>1 DEF SearchInv, CalledBefore, Searching, InArg
<1>3. ArgsExhausted'
  BY <1>1, ExhaustedKept DEF SearchInv, ArgsExhausted, Searching, InArg
<1>4. \A u \in 0 .. tactic' - 1 : u \in 0 .. tactic - 1 \/ u = tactic
  BY <1>1
<1>5. \A u \in 0 .. tactic' - 1 : LeadsTo(Base, argi, u) \intersect fails = {}
  BY <1>4 DEF SearchInv, TacticsExhausted
<1>6. TacticsExhausted'
  BY <1>1, <1>5 DEF TacticsExhausted, LeadsTo
<1> QED
  BY <1>1, <1>2, <1>3, <1>6 DEF SearchInv, TacticGave, LocalMinimum

(* A tactic that gave a value gives no other; one that gave none has none. *)
LEMMA OneCandidate ==
  ASSUME NEW size, Reliable(size), Inv, pc \in {"shrunk", "call", "called"},
         NEW g \in Candidates(argi, Base[argi], tactic), g # ShrinkError
  PROVE  /\ tactic \in 0 .. MaxTactics - 1
         /\ g \in Vals => LeadsTo(Base, argi, tactic) = {[Base EXCEPT ![argi] = g]}
         /\ g \notin Vals => LeadsTo(Base, argi, tactic) = {}
<1>1. argi \in ArgIds
  BY ArgFacts DEF InArg
<1>2. TacticsLeft /\ tactic \in 0 .. MaxTactics /\ MaxTactics \in Nat
  BY ShrinkAssumption DEF Inv, Rest, InsideLoop, Types, InnerTypes
<1>3. tactic \in 0 .. MaxTactics - 1
  BY <1>2 DEF TacticsLeft
<1>4. Base[argi] \in Vals
  BY ArgFacts, CandidateFacts, <1>1 DEF Base, InArg, Tuples
<1>5. \A o \in Vals \intersect Candidates(argi, Base[argi], tactic) : o = g
  BY <1>1, <1>3, <1>4 DEF Reliable
<1> QED
  BY <1>3, <1>5 DEF LeadsTo

(* A candidate is smaller than what it was made from.                      *)
LEMMA CandidateSmaller ==
  ASSUME NEW size, Reliable(size), Inv, SearchInv(size), HasCandidate \/ Trying
  PROVE  size[candidate] < size[current]
<1>1. argi \in ArgIds
  BY ArgFacts DEF InArg
<1>2. TacticsLeft /\ tactic \in 0 .. MaxTactics /\ MaxTactics \in Nat
  BY ShrinkAssumption DEF Inv, Rest, InsideLoop, Types, InnerTypes
<1>3. tactic \in 0 .. MaxTactics - 1
  BY <1>2 DEF TacticsLeft
<1>4. current \in Vals /\ candidate \in Vals
  BY CandidateFacts
<1>5. candidate \in Candidates(argi, current, tactic)
  BY DEF SearchInv, TacticGave
<1> QED
  BY <1>1, <1>3, <1>4, <1>5 DEF Reliable

(* The filter knows the candidate's tuple: it has not failed, or the search*)
(* would have come through something smaller than it is now.               *)
LEMMA KnownDoesNotFail ==
  ASSUME NEW size, Reliable(size), Inv, SearchInv(size), HasCandidate,
         [args EXCEPT ![argi] = candidate] \in called
  PROVE  [args EXCEPT ![argi] = candidate] \notin fails
<1> DEFINE new == [args EXCEPT ![argi] = candidate]
<1>1. argi \in ArgIds /\ args \in Tuples
  BY ArgFacts DEF InArg
<1>2. current = args[argi] /\ new[argi] = candidate
  BY <1>1, CandidateFacts DEF Tuples
<1>3. size[candidate] < size[current]
  BY CandidateSmaller
<1>4. size[candidate] \in Nat /\ size[current] \in Nat
  BY CandidateFacts DEF Reliable
<1> SUFFICES ASSUME new \in fails PROVE FALSE
  OBVIOUS
<1>5. ~ Trying /\ Searching /\ Base = args
  BY DEF Searching, Base
<1> HIDE DEF new
<1>6. new \in called
  BY DEF new
<1>7. size[args[argi]] <= size[new[argi]]
  BY <1>1, <1>5, <1>6 DEF SearchInv, CalledBefore
<1> QED
  BY <1>2, <1>3, <1>4, <1>7

LEMMA SearchPostHook ==
  ASSUME NEW size, Reliable(size), Inv, SearchInv(size), NEW h, PostHook(h)
  PROVE  SearchInv(size)'
<1>1. /\ pc = "shrunk" /\ argi \in ArgIds /\ InArg /\ Searching
      /\ UNCHANGED <<fails, current, curPool, candidate, candPool, sres, res>>
  BY ArgFacts DEF PostHook, InArg, Searching
<1>2. Base = args /\ current = args[argi] /\ args \in Tuples
  BY <1>1, ArgFacts DEF Base, Inv, Rest, LocalsPoint
<1>3. ASSUME \/ pc' = "aborted" /\ UNCHANGED outerVars
             \/ GiveUp(FALSE)
      PROVE  SearchInv(size)'
  <2>1. pc' \in {"done", "aborted"} /\ (pc' = "done" => ~ ok')
    BY <1>3 DEF GiveUp, Return
  <2> QED
    BY <2>1, SearchLeft
<1>4. ASSUME sres = DeadEnd, sres # "ok", NextTactic,
             UNCHANGED <<heapVars, filter, repeated>>
      PROVE  SearchInv(size)'
  <2>1. sres \in Candidates(argi, Base[argi], tactic) /\ sres # ShrinkError
        /\ sres \notin Vals
    BY <1>1, <1>2, <1>4, ShrinkAssumption DEF SearchInv, TacticGave
  <2>2. LeadsTo(Base, argi, tactic) = {}
    BY <1>1, <2>1, OneCandidate
  <2>3. Base' = Base /\ called' = called
    BY <1>2, <1>4 DEF Base, NextTactic, heapVars
  <2> QED
    BY <1>1, <1>4, <2>2, <2>3, SearchNextTactic
<1>5. ASSUME sres = NoMore, sres # "ok", NextArg,
             UNCHANGED <<heapVars, filter, tactic, repeated>>
      PROVE  SearchInv(size)'
  <2>1. sres \in Candidates(argi, Base[argi], tactic) /\ sres # ShrinkError
        /\ sres \notin Vals
    BY <1>1, <1>2, <1>5, ShrinkAssumption DEF SearchInv, TacticGave
  <2>2. LeadsTo(Base, argi, tactic) = {} /\ tactic \in 0 .. MaxTactics - 1
    BY <1>1, <2>1, OneCandidate
  <2>3. /\ pc' = "arg" /\ argi' = argi + 1 /\ UNCHANGED <<progress, args, filter>>
        /\ Base' = Base
    BY <1>2, <1>5 DEF Base, NextArg, heapVars
  <2>4. Exhausted(args, argi)
    <3> SUFFICES ASSUME NEW t \in 0 .. MaxTactics - 1,
                        \A w \in 0 .. t - 1 : NoMore \notin Candidates(argi, args[argi], w)
                 PROVE  LeadsTo(args, argi, t) \intersect fails = {}
      BY DEF Exhausted
    <3>1. tactic \notin 0 .. t - 1
      BY <1>2, <1>5, <2>1
    <3>2. MaxTactics \in Nat
      BY ShrinkAssumption
    <3>3. t \in 0 .. tactic - 1 \/ t = tactic
      BY <2>2, <3>1, <3>2
    <3> QED
      BY <1>1, <1>2, <2>2, <3>3 DEF SearchInv, TacticsExhausted
  <2>5. argi \in Int /\ \A a \in Shrinkable : a \in Int
    BY <1>1, ShrinkAssumption DEF ArgIds
  <2>6. \A a \in Shrinkable : a < argi' => a < argi \/ a = argi
    <3> SUFFICES ASSUME NEW a \in Shrinkable, a < argi' PROVE a < argi \/ a = argi
      OBVIOUS
    <3>1. a \in Int
      BY <2>5
    <3> QED
      BY <2>3, <2>5, <3>1
  <2>7. ArgsExhausted'
    BY <1>1, <1>2, <2>3, <2>4, <2>6, ExhaustedKept DEF SearchInv, ArgsExhausted, Searching
  <2>8. CalledBefore(size)'
    BY <1>1, <2>3 DEF SearchInv, CalledBefore, Searching
  <2> QED
    BY <2>3, <2>7, <2>8 DEF SearchInv, TacticGave, TacticsExhausted, InArg, LocalMinimum
<1>6. ASSUME sres = "ok", TryCandidate PROVE SearchInv(size)'
  <2> DEFINE new == [args EXCEPT ![argi] = candidate]
  <2>1. HasCandidate
    BY <1>1, <1>6
  <2>2. candidate \in Candidates(argi, Base[argi], tactic) /\ candidate \in Vals
        /\ candidate # ShrinkError
    BY <1>2, <2>1, CandidateFacts, ShrinkAssumption DEF SearchInv, TacticGave
  <2>3. CASE HasBloom /\ Seen(new, TRUE) /\ NextTactic
             /\ UNCHANGED <<args, pool, filter, repeated>>
    <3>1. new \in called
      BY <2>3 DEF Seen, Reliable
    <3>2. LeadsTo(Base, argi, tactic) = {new}
      BY <1>1, <1>2, <2>2, OneCandidate
    <3>3. new \notin fails
      BY <2>1, <3>1, KnownDoesNotFail
    <3>4. Base' = Base
      BY <1>2, <2>3 DEF Base, NextTactic
    <3> QED
      BY <1>1, <2>3, <3>2, <3>3, <3>4, SearchNextTactic
  <2>4. CASE /\ args' = new /\ MarkCalled(new) /\ pc' = "call"
             /\ UNCHANGED <<outerVars, tactic>>
    <3>1. Base' = Base
      BY <1>1, <1>2, <2>4 DEF Base, Tuples, outerVars
    <3>2. called' \subseteq called \union {args'}
      BY <2>4 DEF MarkCalled
    <3>3. CalledBefore(size)'
      BY <1>1, <2>4, <3>1, <3>2 DEF SearchInv, CalledBefore, Searching
    <3>4. TacticGave'
      BY <1>1, <1>2, <2>2, <2>4 DEF TacticGave, outerVars
    <3> QED
      BY <1>1, <2>4, <3>1, <3>3, <3>4, SearchGoesOn DEF InArg, outerVars
  <2> QED
    BY <1>6, <2>3, <2>4 DEF TryCandidate
<1>7. PostHookErrs => GiveUp(FALSE)
  BY DEF PostHookErrs
<1> QED
  BY <1>3, <1>4, <1>5, <1>6, <1>7, ShrinkAssumption DEF PostHook

LEMMA SearchCall ==
  ASSUME NEW size, Reliable(size), Inv, SearchInv(size),
         NEW r \in {"PASS", "FAIL", "SKIP", "ERROR"}, ShrinkCall(r)
  PROVE  SearchInv(size)'
<1>1. /\ pc = "call" /\ pc' = "called" /\ res' = r
      /\ UNCHANGED <<args, fails, filter, argi, progress, tactic, current, candidate>>
      /\ args \in fails => r = "FAIL"
  BY DEF ShrinkCall, Says, outerVars
<1>2. Base' = Base
  BY <1>1 DEF Base
<1>3. CalledBefore(size)' /\ TacticGave'
  BY <1>1, <1>2 DEF SearchInv, CalledBefore, Searching, TacticGave
<1> QED
  BY <1>1, <1>2, <1>3, SearchGoesOn DEF InArg

LEMMA SearchTrialPostHook ==
  ASSUME NEW size, Reliable(size), Inv, SearchInv(size), NEW h, TrialPostHook(h)
  PROVE  SearchInv(size)'
<1>1. /\ pc = "called" /\ argi \in ArgIds /\ InArg /\ args \in Tuples
      /\ UNCHANGED <<fails, filter, current, candidate, res>>
  BY ArgFacts DEF TrialPostHook, InArg
<1>2. /\ Base = [args EXCEPT ![argi] = current] /\ Base[argi] = current
      /\ args = [Base EXCEPT ![argi] = candidate]
      /\ current \in Vals /\ candidate \in Vals
  BY <1>1, CandidateFacts DEF Base, Tuples
<1>3. CASE pc' = "call" /\ UNCHANGED <<heapVars, outerVars, tactic>>
  <2>1. Base' = Base /\ args' = args
    BY <1>1, <1>3 DEF Base, heapVars, outerVars
  <2>2. CalledBefore(size)' /\ TacticGave'
    BY <1>1, <1>3, <2>1 DEF SearchInv, CalledBefore, Searching, TacticGave, outerVars
  <2> QED
    BY <1>1, <1>3, <2>1, <2>2, SearchGoesOn DEF InArg, outerVars
<1>4. ASSUME res \in {"PASS", "SKIP"}, Revert PROVE SearchInv(size)'
  <2>1. args \notin fails
    BY <1>1, <1>4 DEF SearchInv, TacticGave
  <2>2. Base' = Base
    BY <1>2, <1>4 DEF Base, Revert, NextTactic
  <2>3. candidate \in Candidates(argi, Base[argi], tactic) /\ candidate # ShrinkError
    BY <1>1, <1>2, ShrinkAssumption DEF SearchInv, TacticGave
  <2>4. LeadsTo(Base, argi, tactic) = {args}
    BY <1>1, <1>2, <2>3, OneCandidate
  <2> QED
    BY <1>1, <1>4, <2>1, <2>2, <2>4, SearchNextTactic DEF Revert
<1>5. CASE Commit
  <2>1. pc' = "arg" /\ progress' /\ UNCHANGED <<args, argi>> /\ Base' = args
    BY <1>5 DEF Commit, SameArg, Base
  <2>2. \A a \in ArgIds : /\ size[args[a]] \in Nat /\ size[Base[a]] \in Nat
                          /\ size[args[a]] <= size[Base[a]]
    <3> SUFFICES ASSUME NEW a \in ArgIds
                 PROVE  /\ size[args[a]] \in Nat /\ size[Base[a]] \in Nat
                        /\ size[args[a]] <= size[Base[a]]
      OBVIOUS
    <3>1. Base \in Tuples
      BY <1>1, <1>2 DEF Tuples
    <3>2. args[a] \in Vals /\ Base[a] \in Vals
      BY <1>1, <3>1 DEF Tuples
    <3>3. size[args[a]] \in Nat /\ size[Base[a]] \in Nat
      BY <3>2 DEF Reliable
    <3>4. CASE a # argi
      <4>1. args[a] = Base[a]
        BY <1>1, <1>2, <3>4 DEF Tuples
      <4> QED
        BY <3>3, <4>1
    <3>5. CASE a = argi
      <4>1. args[a] = candidate /\ Base[a] = current
        BY <1>1, <1>2, <3>5, CandidateFacts
      <4>2. size[candidate] < size[current]
        BY <1>1, CandidateSmaller
      <4> QED
        BY <3>3, <4>1, <4>2
    <3> QED
      BY <3>4, <3>5
  <2>3. CalledBefore(size)'
    <3> SUFFICES ASSUME NEW c \in called, c \in fails, NEW a \in ArgIds
                 PROVE  size[args[a]] <= size[c[a]]
      BY <1>1, <2>1 DEF CalledBefore, Searching
    <3>1. c = args \/ size[Base[a]] <= size[c[a]]
      BY <1>1 DEF SearchInv, CalledBefore, Searching
    <3>2. c[a] \in Vals /\ size[c[a]] \in Nat
      BY DEF Inv, Types, HeapTypes, Tuples, Reliable
    <3> QED
      BY <2>2, <3>1, <3>2
  <2> QED
    BY <2>1, <2>3 DEF SearchInv, ArgsExhausted, TacticsExhausted, InArg, TacticGave,
       LocalMinimum
<1>6. CASE Abandon
  <2>1. pc' = "done" /\ ~ ok'
    BY <1>6 DEF Abandon, GiveUp, Return
  <2> QED
    BY <2>1, SearchLeft
<1> QED
  BY <1>3, <1>4, <1>5, <1>6 DEF TrialPostHook

LEMMA SearchStep ==
  ASSUME NEW size, Reliable(size), Inv, SearchInv(size),
         [ShrinkStep \/ ShrinkOver]_shrinkVars
  PROVE  SearchInv(size)'
<1>1. CASE ShrinkStep
  BY <1>1, SearchArgs, SearchPreHook, SearchCallback, SearchPostHook, SearchCall,
     SearchTrialPostHook DEF ShrinkStep
<1>2. CASE UNCHANGED shrinkVars
  <2> USE <1>2 DEF shrinkVars, heapVars, outerVars, innerVars, SearchInv
  <2>1. Base' = Base
    BY DEF Base
  <2>2. CalledBefore(size)' /\ TacticsExhausted' /\ TacticGave'
    BY <2>1 DEF CalledBefore, Searching, TacticsExhausted, LeadsTo, InArg, TacticGave
  <2>3. ArgsExhausted'
    BY <2>1, ExhaustedKept DEF ArgsExhausted, Searching
  <2>4. LocalMinimum'
    BY DEF LocalMinimum, Offered, Deterministic
  <2> QED
    BY <2>2, <2>3, <2>4
<1> QED
  BY <1>1, <1>2 DEF ShrinkOver

(***************************************************************************)
(* Where callbacks and filter are as Reliable says, shrinking that no hook *)
(* halts ends in a local minimum, even with the tuples called before       *)
(* skipped: no tactic leads from the counterexample to another.            *)
(***************************************************************************)
THEOREM ShrinkingEndsInALocalMinimum ==
  ASSUME NEW size, Reliable(size)
  PROVE  ShrinkSpec => []LocalMinimum
<1>1. ShrinkInit => Inv /\ SearchInv(size)
  BY InitInv, SearchInit
<1>2. Inv /\ SearchInv(size) /\ [ShrinkStep \/ ShrinkOver]_shrinkVars
        => Inv' /\ SearchInv(size)'
  BY InvStep, SearchStep
<1>3. SearchInv(size) => LocalMinimum
  BY DEF SearchInv
<1> QED
  BY <1>1, <1>2, <1>3, PTL DEF ShrinkSpec
=============================================================================
