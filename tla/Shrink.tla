------------------------------- MODULE Shrink -------------------------------
(***************************************************************************)
(* theft_shrink and attempt_to_shrink_arg (src/src/theft_shrink.c): the    *)
(* greedy search for smaller arguments on which the property still fails.  *)
(* The callbacks and hooks are the environment: each may give any answer   *)
(* that the constants allow.  What an instance is made of is abstracted to *)
(* a value, and an object on the heap to its kind, argument and value.     *)
(***************************************************************************)
EXTENDS Integers

CONSTANTS
  Arity,             \* number of arguments
  Vals,              \* the values an instance can have
  Null,              \* the NULL pointer
  AutoArgs,          \* the arguments with autoshrinking enabled
  Basic,             \* the arguments with a shrink callback
  DeadEnd, NoMore, ShrinkError,  \* enum theft_shrink_res, less the OK
  Candidates(_,_,_), \* what shrinking <argument, value, tactic> may give: a
                     \* value for OK, or one of the three above
  MaxTactics,        \* THEFT_MAX_TACTICS
  HasBloom,          \* all arguments are hashable, so t->bloom is used
  MemFails,          \* malloc may fail
  FalsePositives,    \* the filter may claim what was never marked
  Others,            \* what the property may say where it does not fail
  HookSays           \* per hook, the results it may give; {"none"}: not set

ArgIds == 1 .. Arity
Tuples == [ArgIds -> Vals]
NoCandidate == {DeadEnd, NoMore, ShrinkError}

ASSUME ShrinkAssumption ==
  /\ Arity \in Nat \ {0}
  /\ AutoArgs \subseteq ArgIds /\ Basic \subseteq ArgIds
  /\ AutoArgs \intersect Basic = {}
  /\ Null \notin Vals
  /\ NoCandidate \intersect Vals = {} /\ "ok" \notin NoCandidate
  /\ DeadEnd # NoMore /\ DeadEnd # ShrinkError /\ NoMore # ShrinkError
  /\ \A a \in ArgIds, v \in Vals, t \in 0 .. MaxTactics :
       Candidates(a, v, t) \subseteq
         (Vals \ {v}) \union NoCandidate
  /\ MaxTactics \in Nat
  /\ {HasBloom, MemFails, FalsePositives} \subseteq BOOLEAN
  /\ Others \subseteq {"PASS", "FAIL", "SKIP", "ERROR"}

VARIABLES
  pc,        \* where theft_shrink is
  args,      \* t->trial.args[].instance
  pool,      \* t->trial.args[].u.as.env->bit_pool
  heap,      \* the instances and bit pools allocated and not freed
  misuse,    \* what was done to the heap that must not be done
  fails,     \* the argument tuples on which the property fails
  called,    \* the tuples marked in the bloom filter
  forgotten, \* history: the tuples whose last mark was lost
  argi, progress,             \* locals of theft_shrink
  tactic, current, curPool,   \* locals of attempt_to_shrink_arg
  candidate, candPool, sres, res, repeated,
  ok         \* what theft_shrink returned

heapVars  == <<args, pool, heap, misuse>>
outerVars == <<argi, progress, ok>>
innerVars == <<tactic, current, curPool, candidate, candPool, sres, res, repeated>>
filter    == <<called, forgotten>>
shrinkVars == <<pc, heapVars, fails, filter, outerVars, innerVars>>

Inst(a, v) == <<"inst", a, v>>
Pool(a, v) == <<"pool", a, v>>

Heap == ({"inst"} \X ArgIds \X Vals) \union ({"pool"} \X AutoArgs \X Vals)

(* The objects of argument a: instance v and, if there is one, bit pool b. *)
Objects(a, v, b) == {Inst(a, v)} \union (IF b = Null THEN {} ELSE {Pool(a, b)})

(* theft_shrink's return: pc "done" with ok telling success.                 *)
Return(b) == pc' = "done" /\ ok' = b

Free(objs) ==
  /\ heap' = heap \ objs
  /\ misuse' = misuse \union
       (IF objs \subseteq heap THEN {} ELSE {"bad_free"})

(* What a hook may answer; a hook that is not set lets theft continue.     *)
Answers(h) == {IF x = "none" THEN "CONTINUE" ELSE x : x \in HookSays[h]}
HookSet(h) == HookSays[h] # {"none"}

(* theft_shrink begins with the first argument.                            *)
StartShrink == pc' = "arg" /\ argi' = 1 /\ progress' = FALSE

ShrinkInit ==
  /\ pc = "arg"
  /\ args \in Tuples
  /\ pool = [a \in ArgIds |-> IF a \in AutoArgs THEN args[a] ELSE Null]
  /\ heap = UNION {Objects(a, args[a], pool[a]) : a \in ArgIds}
  /\ misuse = {}
  /\ fails \in {F \in SUBSET Tuples : args \in F}
  /\ \/ called = (IF HasBloom THEN {args} ELSE {}) /\ forgotten = {}
     \/ HasBloom /\ MemFails /\ called = {} /\ forgotten = {args}
  /\ argi = 1 /\ progress = FALSE /\ ok = FALSE
  /\ tactic = 0 /\ current = Null /\ curPool = Null
  /\ candidate = Null /\ candPool = Null
  /\ sres = "none" /\ res = "none" /\ repeated = FALSE

-----------------------------------------------------------------------------
(* theft_shrink: the loop over the arguments.                              *)

ArgShrinkable ==
  /\ pc = "arg"
  /\ argi \in AutoArgs \union Basic
  /\ pc' = "tactic"
  /\ tactic' = 0
  /\ UNCHANGED <<heapVars, fails, filter, outerVars, current, curPool,
                 candidate, candPool, sres, res, repeated>>

ArgSkipped ==
  /\ pc = "arg"
  /\ argi \in ArgIds \ (AutoArgs \union Basic)
  /\ argi' = argi + 1
  /\ UNCHANGED <<pc, heapVars, fails, filter, progress, ok, innerVars>>

(* Past the last argument: another pass if any argument made progress.     *)
ArgsDone ==
  /\ pc = "arg"
  /\ argi > Arity
  /\ \/ progress /\ StartShrink /\ UNCHANGED ok
     \/ ~ progress /\ Return(TRUE) /\ UNCHANGED <<argi, progress>>
  /\ UNCHANGED <<heapVars, fails, filter, innerVars>>

(* SHRINK_DEAD_END: on to the next argument.                               *)
NextArg == pc' = "arg" /\ argi' = argi + 1 /\ UNCHANGED <<progress, ok>>

(* A bug: the progress is forgotten.                                       *)
SameArgNoProgress == pc' = "arg" /\ UNCHANGED <<argi, progress, ok>>

(* SHRINK_OK: the same argument again, from tactic 0.                      *)
SameArg == pc' = "arg" /\ progress' = TRUE /\ UNCHANGED <<argi, ok>>

GiveUp(b) == Return(b) /\ UNCHANGED <<argi, progress>>

-----------------------------------------------------------------------------
(* attempt_to_shrink_arg: one tactic after the other.                      *)

(* A bug: one tactic too many.                                             *)
OneTacticMore == tactic <= MaxTactics

TacticsLeft == tactic < MaxTactics

(* `continue` in the loop over the tactics.                                *)
NextTactic == pc' = "tactic" /\ tactic' = tactic + 1 /\ UNCHANGED outerVars

TacticsSpent ==
  /\ pc = "tactic"
  /\ ~ TacticsLeft
  /\ NextArg
  /\ UNCHANGED <<heapVars, fails, filter, innerVars>>

(* The shrink_pre hook, and the locals the iteration starts with.          *)
PreHook(h) ==
  /\ pc = "tactic"
  /\ TacticsLeft
  /\ current' = args[argi]
  /\ curPool' = pool[argi]
  /\ candidate' = Null /\ candPool' = Null
  /\ CASE h = "CONTINUE" -> pc' = "shrink" /\ UNCHANGED outerVars
       [] h = "HALT"     -> GiveUp(TRUE)
       [] OTHER          -> GiveUp(FALSE)
  /\ UNCHANGED <<heapVars, fails, filter, tactic, sres, res, repeated>>

(***************************************************************************)
(* ti->shrink, or theft_autoshrink_shrink: on OK there is a new instance,  *)
(* and a new bit pool if the argument autoshrinks.                         *)
(***************************************************************************)
ShrinkCallback(o) ==
  /\ pc = "shrink"
  /\ o \in Candidates(argi, current, tactic)
  /\ pc' = "shrunk"
  /\ IF o \in Vals
     THEN /\ sres' = "ok"
          /\ candidate' = o
          /\ candPool' = IF argi \in AutoArgs THEN o ELSE Null
          /\ heap' = heap \union Objects(argi, candidate', candPool')
     ELSE sres' = o /\ UNCHANGED <<candidate, candPool, heap>>
  /\ UNCHANGED <<args, pool, misuse, fails, filter, outerVars, tactic,
                 current, curPool, res, repeated>>

(* An error of the shrink_post hook: drop the candidate and stop.          *)
PostHookErrs ==
  /\ IF candidate = Null
     THEN misuse' = misuse \union {"free_null"} /\ UNCHANGED heap
     ELSE Free(Objects(argi, candidate, candPool))
  /\ GiveUp(FALSE)
  /\ UNCHANGED <<args, pool, filter, tactic, repeated>>

(***************************************************************************)
(* theft_call_check_called: the filter knows the tuple, or is mistaken.    *)
(***************************************************************************)
Seen(tuple, hit) ==
  IF tuple \in called THEN hit ELSE hit => FalsePositives

(* A bug: the filter is never told.                                        *)
MarkNothing(tuple) == UNCHANGED filter

(***************************************************************************)
(* theft_call_mark_called.  It ignores what theft_bloom_mark returns, so   *)
(* the mark is lost when there is no memory for another filter.            *)
(***************************************************************************)
MarkCalled(tuple) ==
  \/ /\ called' = IF HasBloom THEN called \union {tuple} ELSE called
     /\ forgotten' = forgotten \ {tuple}
  \/ /\ HasBloom /\ MemFails
     /\ forgotten' = forgotten \union {tuple}
     /\ UNCHANGED called

(* The candidate takes its place in the arguments to be checked and called.*)
TryCandidate ==
  LET new == [args EXCEPT ![argi] = candidate] IN
  \E hit \in (IF HasBloom THEN BOOLEAN ELSE {FALSE}) :
    /\ HasBloom => Seen(new, hit)
    /\ IF hit
       THEN /\ Free(Objects(argi, candidate, candPool))
            /\ NextTactic
            /\ UNCHANGED <<args, pool, filter, repeated>>
       ELSE /\ args' = new
            /\ pool' = [pool EXCEPT ![argi] = candPool]
            /\ MarkCalled(new)
            /\ repeated' = FALSE
            /\ pc' = "call"
            /\ UNCHANGED <<heap, misuse, outerVars, tactic>>

(***************************************************************************)
(* The shrink_post hook, then what the shrink callback's answer asks for.  *)
(* A hook that is set asserts that the answer is none of its errors.       *)
(***************************************************************************)
PostHook(h) ==
  /\ pc = "shrunk"
  /\ IF sres = ShrinkError /\ HookSet("shrink_post")
     THEN pc' = "aborted" /\ UNCHANGED <<heapVars, filter, outerVars, tactic, repeated>>
     ELSE IF h # "CONTINUE" THEN PostHookErrs
     ELSE CASE sres = "ok"       -> TryCandidate
            [] sres = DeadEnd  ->
                 NextTactic /\ UNCHANGED <<heapVars, filter, repeated>>
            [] sres = NoMore    ->
                 NextArg /\ UNCHANGED <<heapVars, filter, tactic, repeated>>
            [] OTHER             ->
                 GiveUp(FALSE) /\ UNCHANGED <<heapVars, filter, tactic, repeated>>
  /\ UNCHANGED <<fails, current, curPool, candidate, candPool, sres, res>>

(* What the property may say of the arguments.                             *)
Says == IF args \in fails THEN {"FAIL"} ELSE Others

(* The property is given live instances, or memory is misused.             *)
CallUses ==
  misuse' = misuse \union
    (IF \A a \in ArgIds : Inst(a, args[a]) \in heap THEN {} ELSE {"use_freed"})

ShrinkCall(r) ==
  /\ pc = "call"
  /\ r \in Says
  /\ res' = r
  /\ pc' = "called"
  /\ CallUses
  /\ UNCHANGED <<args, pool, heap, fails, filter, outerVars, tactic, current,
                 curPool, candidate, candPool, sres, repeated>>

(* Bugs: the wrong instance is freed; the bit pool, or the instance, of the*)
(* candidate stays in the arguments.                                       *)
RevertFreesCurrent ==
  /\ args' = [args EXCEPT ![argi] = current]
  /\ pool' = [pool EXCEPT ![argi] = curPool]
  /\ Free(Objects(argi, current, curPool))
  /\ NextTactic
RevertKeepsPool ==
  /\ args' = [args EXCEPT ![argi] = current]
  /\ Free(Objects(argi, candidate, candPool))
  /\ NextTactic /\ UNCHANGED pool
RevertKeepsArgs ==
  /\ Free(Objects(argi, candidate, candPool))
  /\ NextTactic /\ UNCHANGED <<args, pool>>

(* PASS or SKIP: back to the current instance, and on to the next tactic.  *)
Revert ==
  /\ args' = [args EXCEPT ![argi] = current]
  /\ pool' = [pool EXCEPT ![argi] = curPool]
  /\ Free(Objects(argi, candidate, candPool))
  /\ NextTactic

(* A bug: the instance that was replaced is not freed.                     *)
CommitKeepsOld == SameArg /\ UNCHANGED <<args, pool, tactic, heap, misuse>>

(* FAIL: the candidate replaces the current instance.                      *)
Commit ==
  /\ Free(Objects(argi, current, curPool))
  /\ SameArg
  /\ UNCHANGED <<args, pool, tactic>>

(* A bug: the candidate is freed while it is still in the arguments.       *)
AbandonFreesCandidate ==
  /\ Free(Objects(argi, candidate, candPool))
  /\ GiveUp(FALSE)
  /\ UNCHANGED <<args, pool, tactic>>

(* An error: the candidate stays in the arguments, for the trial to free.  *)
Abandon ==
  /\ Free(Objects(argi, current, curPool))
  /\ GiveUp(FALSE)
  /\ UNCHANGED <<args, pool, tactic>>

(* The shrink_trial_post hook, then what the last call's result asks for.  *)
TrialPostHook(h) ==
  /\ pc = "called"
  /\ CASE h = "REPEAT" \/ (h = "REPEAT_ONCE" /\ ~ repeated) ->
            /\ repeated' = TRUE
            /\ pc' = "call"
            /\ UNCHANGED <<heapVars, outerVars, tactic>>
       [] h = "CONTINUE" \/ (h = "REPEAT_ONCE" /\ repeated) ->
            /\ CASE res \in {"PASS", "SKIP"} -> Revert
                 [] res = "FAIL"             -> Commit
                 [] OTHER                    -> Abandon
            /\ UNCHANGED repeated
       [] OTHER -> Abandon /\ UNCHANGED repeated
  /\ UNCHANGED <<fails, filter, current, curPool, candidate, candPool, sres, res>>

-----------------------------------------------------------------------------
ShrinkStep ==
  \/ ArgShrinkable \/ ArgSkipped \/ ArgsDone
  \/ TacticsSpent
  \/ \E h \in Answers("shrink_pre") : PreHook(h)
  \/ \E o \in Vals \union NoCandidate : ShrinkCallback(o)
  \/ \E h \in Answers("shrink_post") : PostHook(h)
  \/ \E r \in {"PASS", "FAIL", "SKIP", "ERROR"} : ShrinkCall(r)
  \/ \E h \in Answers("shrink_trial_post") : TrialPostHook(h)

ShrinkOver == pc \in {"done", "aborted"} /\ UNCHANGED shrinkVars

ShrinkSpec == ShrinkInit /\ [][ShrinkStep \/ ShrinkOver]_shrinkVars
-----------------------------------------------------------------------------
(* Properties.                                                             *)

Results == {"none", "PASS", "FAIL", "SKIP", "ERROR"}

(* Every variable of theft_shrink and attempt_to_shrink_arg has its type.  *)
ShrinkTypeOK ==
  /\ pc \in {"arg", "tactic", "shrink", "shrunk", "call", "called", "done",
             "aborted"}
  /\ args \in Tuples
  /\ pool \in [ArgIds -> Vals \union {Null}]
  /\ heap \subseteq Heap
  /\ misuse \subseteq {"bad_free", "free_null", "use_freed"}
  /\ fails \subseteq Tuples
  /\ called \subseteq Tuples /\ forgotten \subseteq Tuples
  /\ argi \in 1 .. Arity + 1 /\ progress \in BOOLEAN /\ ok \in BOOLEAN
  /\ tactic \in 0 .. MaxTactics
  /\ {current, curPool, candidate, candPool} \subseteq Vals \union {Null}
  /\ sres \in {"none", "ok"} \union NoCandidate
  /\ res \in Results /\ repeated \in BOOLEAN

(***************************************************************************)
(* Nothing is freed twice or used after it was freed, on any path through  *)
(* commit, revert, skip and the error returns.  The one misuse the code has*)
(* is free_null: a shrink_post hook's error after a tactic without a       *)
(* candidate calls the free callback on NULL.                              *)
(***************************************************************************)
MemorySafe == misuse \subseteq {"free_null"}

(***************************************************************************)
(* When theft_shrink returns, for whatever reason, the heap holds exactly  *)
(* what theft_trial_free_args is going to free: no leak, no dangling       *)
(* pointer in the arguments.                                               *)
(***************************************************************************)
HeapIsArgs ==
  pc = "done" =>
    heap = UNION {Objects(a, args[a], pool[a]) : a \in ArgIds}

(***************************************************************************)
(* An instance and the bit pool it was built from are committed, reverted  *)
(* and dropped together, or the next tactic mutates somebody else's bits.  *)
(***************************************************************************)
PoolIsOfInstance ==
  \A a \in AutoArgs : pool[a] = args[a]

(* The property is a function of its arguments, and hooks do not interfere.*)
Deterministic == "FAIL" \notin Others

(***************************************************************************)
(* What theft_shrink leaves in the arguments, and the trial reports as the *)
(* counterexample, makes the property fail.                                *)
(***************************************************************************)
CounterexampleFails ==
  Deterministic /\ pc = "done" /\ ok => args \in fails

(* What the tactics of argument a lead to from the current arguments.      *)
Offered(a) ==
  {[args EXCEPT ![a] = o] : o \in Vals \intersect
     UNION {Candidates(a, args[a], t) : t \in
              {u \in 0 .. MaxTactics - 1 : \A w \in 0 .. u - 1 :
                 NoMore \notin Candidates(a, args[a], w)}}}

(***************************************************************************)
(* "Continue as long as progress is made, i.e., until a local minimum is   *)
(* reached": unless a hook halted the shrinking, no tactic leads from the  *)
(* final arguments to a failing tuple.                                     *)
(***************************************************************************)
LocalMinimum ==
  Deterministic /\ pc = "done" /\ ok /\ argi > Arity =>
    \A a \in AutoArgs \union Basic : Offered(a) \intersect fails = {}
=============================================================================
