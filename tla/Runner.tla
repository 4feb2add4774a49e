------------------------------- MODULE Runner -------------------------------
(***************************************************************************)
(* A whole run: theft_run_trials and run_step (src/src/theft_run.c),       *)
(* theft_trial_run, report_on_failure and theft_trial_free_args            *)
(* (src/src/theft_trial.c), composed with the shrinking of Shrink, which   *)
(* works on the same arguments, bit pools, bloom filter and heap.          *)
(***************************************************************************)
EXTENDS Shrink, Sequences

CONSTANTS
  Trials,          \* t->prop.trial_count
  Seeds,           \* seeds, as the PRNG hands them out
  RunSeed,         \* t->seeds.run_seed
  AlwaysSeeds,     \* t->seeds.always_seeds
  Allocs(_,_),     \* what the alloc callback may give <seed, argument>: a
  AllocSkip, AllocError                 \* value, or one of these

ASSUME RunnerAssumption ==
  /\ Trials \in Nat \ {0}
  /\ RunSeed \in Seeds
  /\ AlwaysSeeds \in Seq(Seeds)
  /\ Vals # {} /\ AllocSkip # AllocError
  /\ {AllocSkip, AllocError} \intersect (Vals \union {Null}) = {}
  /\ \A s \in Seeds, a \in ArgIds :
       Allocs(s, a) \subseteq Vals \union {AllocSkip, AllocError}

VARIABLES
  trial, limit, seed,   \* locals of theft_run_trials
  counters,             \* t->counters
  tres,                 \* the result passed to the trial_post hook
  step,                 \* enum run_step_res of the current run_step
  result,               \* what theft_run_trials returned
  used,                 \* history: the seeds trials were given
  ran                   \* history: the tuples the property was called on,
                        \* repetitions at a hook's request aside

loopVars == <<trial, limit>>
runVars  == <<trial, limit, seed, counters, tres, step, result, used>>
vars == <<shrinkVars, runVars, ran>>

Env(a) == <<"env", a>>
NoArgs == [a \in ArgIds |-> Null]

Init ==
  /\ pc = "run_pre"
  /\ args = NoArgs /\ pool = NoArgs /\ heap = {} /\ misuse = {}
  /\ fails \in SUBSET Tuples
  /\ called = {} /\ forgotten = {}
  /\ argi = 1 /\ progress = FALSE /\ ok = FALSE
  /\ tactic = 0 /\ current = Null /\ curPool = Null
  /\ candidate = Null /\ candPool = Null
  /\ sres = "none" /\ res = "none" /\ repeated = FALSE
  /\ trial = 0 /\ limit = Trials /\ seed = RunSeed
  /\ counters = [pass |-> 0, fail |-> 0, skip |-> 0, dup |-> 0]
  /\ tres = "none" /\ step = "none" /\ result = "none"
  /\ used = {} /\ ran = {}

(* A bug: duplicates are not counted.                                      *)
CountNoDup(c) ==
  counters' = IF c = "dup" THEN counters ELSE [counters EXCEPT ![c] = @ + 1]

Count(c) == counters' = [counters EXCEPT ![c] = @ + 1]

Finish(r) == pc' = "finished" /\ result' = r

(* A bug: one trial too many.                                              *)
OneTrialMore == trial <= limit

(* The condition of the loop over the trials.                              *)
TrialsLeft == trial < limit

RunPreHook(h) ==
  /\ pc = "run_pre"
  /\ IF h = "CONTINUE" THEN pc' = "loop" /\ UNCHANGED result
                       ELSE Finish("ERROR")
  /\ UNCHANGED <<heapVars, fails, filter, outerVars, innerVars, loopVars, seed,
                 counters, tres, step, used>>

-----------------------------------------------------------------------------
(* run_step, up to the arguments.                                          *)

NextTrial == trial' = trial + 1

(***************************************************************************)
(* run_step returns r: theft_run_trials clears t->trial, and goes on to the*)
(* next trial, ends the loop, or returns THEFT_RUN_ERROR.                  *)
(***************************************************************************)
StepReturns(r) ==
  /\ args' = NoArgs /\ pool' = NoArgs
  /\ step' = r
  /\ IF r \in {"OK", "HALT"}
     THEN /\ pc' = "loop"
          /\ NextTrial
          /\ limit' = IF r = "HALT" THEN trial ELSE limit
          /\ UNCHANGED result
     ELSE Finish("ERROR") /\ UNCHANGED loopVars

(* A bug: after the always seeds, the seed is what they left.              *)
NoReset == IF trial < Len(AlwaysSeeds) THEN AlwaysSeeds[trial + 1] ELSE seed

(* The always seeds first, then the run seed, then what the last trial left.*)
TrialSeed ==
  IF trial < Len(AlwaysSeeds) THEN AlwaysSeeds[trial + 1]
  ELSE IF AlwaysSeeds # <<>> /\ trial = Len(AlwaysSeeds) THEN RunSeed
  ELSE seed

(* init_arg_info gives every autoshrinking argument an environment.        *)
StepBegins ==
  /\ pc = "loop"
  /\ TrialsLeft
  /\ seed' = TrialSeed
  /\ heap' = heap \union {Env(a) : a \in AutoArgs}
  /\ pc' = "gen_pre"
  /\ UNCHANGED <<args, pool, misuse, fails, filter, outerVars, innerVars,
                 loopVars, counters, tres, step, result, used>>

(* malloc fails for argument a's: those of the arguments before it remain. *)
EnvFails(a) ==
  /\ pc = "loop"
  /\ TrialsLeft
  /\ MemFails
  /\ seed' = TrialSeed
  /\ heap' = heap \union {Env(b) : b \in {x \in AutoArgs : x < a}}
  /\ StepReturns("GEN_ERROR")
  /\ UNCHANGED <<misuse, fails, filter, outerVars, innerVars, counters, tres,
                 used>>

GenArgsPreHook(h) ==
  /\ pc = "gen_pre"
  /\ IF h = "CONTINUE"
     THEN /\ pc' = "gen" /\ argi' = 1 /\ used' = used \union {seed}
          /\ UNCHANGED <<args, pool, loopVars, step, result>>
     ELSE /\ StepReturns(IF h = "HALT" THEN "HALT" ELSE "GEN_ERROR")
          /\ UNCHANGED <<argi, used>>
  /\ UNCHANGED <<heap, misuse, fails, filter, progress, ok, innerVars, seed,
                 counters, tres>>

(***************************************************************************)
(* gen_all_args, one argument.  The bit pool is in place before the alloc  *)
(* callback is asked, and stays there when it says SKIP or ERROR.          *)
(***************************************************************************)
GenArg(o) ==
  /\ pc = "gen"
  /\ argi <= Arity
  /\ o \in Allocs(seed, argi)
  /\ LET b == IF argi \notin AutoArgs THEN Null
              ELSE IF o \in Vals THEN o ELSE CHOOSE v \in Vals : TRUE IN
     /\ pool' = [pool EXCEPT ![argi] = b]
     /\ heap' = heap \union (IF o \in Vals THEN {Inst(argi, o)} ELSE {})
                     \union (IF b = Null THEN {} ELSE {Pool(argi, b)})
  /\ CASE o \in Vals     -> /\ args' = [args EXCEPT ![argi] = o]
                            /\ argi' = argi + 1
                            /\ UNCHANGED <<pc, counters, tres>>
       [] o = AllocSkip  -> /\ pc' = "gen_post" /\ tres' = "SKIP"
                            /\ Count("skip")
                            /\ UNCHANGED <<args, argi>>
       [] o = AllocError -> /\ pc' = "gen_post" /\ tres' = "ERROR"
                            /\ UNCHANGED <<args, argi, counters>>
  /\ UNCHANGED <<misuse, fails, filter, progress, ok, innerVars, loopVars,
                 seed, step, result, used>>

(* All generated: a duplicate, if the filter says so, is not tried.        *)
GenDone ==
  /\ pc = "gen"
  /\ argi > Arity
  /\ \E hit \in (IF HasBloom THEN BOOLEAN ELSE {FALSE}) :
       /\ HasBloom => Seen(args, hit)
       /\ IF hit THEN pc' = "gen_post" /\ tres' = "DUP" /\ Count("dup")
                 ELSE pc' = "trial_pre" /\ UNCHANGED <<tres, counters>>
  /\ UNCHANGED <<heapVars, fails, filter, outerVars, innerVars, loopVars, seed,
                 step, result, used>>

(* run_step is settled; a step that is OK draws the next trial's seed.     *)
Settle(r) ==
  /\ pc' = "free"
  /\ step' = r
  /\ IF r = "OK" THEN seed' \in Seeds ELSE UNCHANGED seed

(* The trial_post hook of a trial without a call.                          *)
GenPostHook(h) ==
  /\ pc = "gen_post"
  /\ Settle(IF tres = "ERROR" THEN "GEN_ERROR"
            ELSE IF h = "ERROR" THEN "TRIAL_ERROR" ELSE "OK")
  /\ UNCHANGED <<heapVars, fails, filter, outerVars, innerVars, loopVars,
                 counters, tres, result, used>>

TrialPreHook(h) ==
  /\ pc = "trial_pre"
  /\ CASE h = "CONTINUE" -> pc' = "trial" /\ UNCHANGED <<step, seed>>
       [] h = "HALT"     -> Settle("HALT")
       [] OTHER          -> Settle("TRIAL_ERROR")
  /\ UNCHANGED <<heapVars, fails, filter, outerVars, innerVars, loopVars,
                 counters, tres, result, used>>

-----------------------------------------------------------------------------
(* theft_trial_run.                                                        *)

(* Mark the tuple, call the property, count its result; FAIL is shrunk.    *)
Trial(r) ==
  /\ pc = "trial"
  /\ r \in Says
  /\ MarkCalled(args)
  /\ CallUses
  /\ tres' = r
  /\ CASE r = "FAIL" -> StartShrink /\ UNCHANGED counters
       [] r = "PASS" -> pc' = "trial_post" /\ Count("pass")
       [] r = "SKIP" -> pc' = "trial_post" /\ Count("skip")
       [] OTHER      -> pc' = "trial_post" /\ UNCHANGED counters
  /\ r # "FAIL" => UNCHANGED <<argi, progress>>
  /\ UNCHANGED <<args, pool, heap, fails, ok, innerVars, loopVars, seed, step,
                 result, used>>

(* The trial_post hook of a trial that did not fail.                       *)
TrialPostHookRuns(h) ==
  /\ pc = "trial_post"
  /\ Settle(IF tres = "ERROR" \/ h = "ERROR" THEN "TRIAL_ERROR" ELSE "OK")
  /\ UNCHANGED <<heapVars, fails, filter, outerVars, innerVars, loopVars,
                 counters, tres, result, used>>

(* theft_shrink failed: trial_post is told ERROR, whatever it answers.     *)
ShrinkFailed ==
  /\ pc = "done"
  /\ ~ ok
  /\ tres' = "ERROR"
  /\ Settle("TRIAL_ERROR")
  /\ UNCHANGED <<heapVars, fails, filter, outerVars, innerVars, loopVars,
                 counters, result, used>>

ShrinkDone ==
  /\ pc = "done"
  /\ ok
  /\ Count("fail")
  /\ pc' = "counterexample"
  /\ UNCHANGED <<heapVars, fails, filter, outerVars, innerVars, loopVars, seed,
                 tres, step, result, used>>

-----------------------------------------------------------------------------
(* report_on_failure: the counterexample hook, trial_post, repetitions.    *)

CounterexampleHook(h) ==
  /\ pc = "counterexample"
  /\ IF h = "CONTINUE" THEN pc' = "report" /\ UNCHANGED <<step, seed>>
                       ELSE Settle("TRIAL_ERROR")
  /\ UNCHANGED <<heapVars, fails, filter, outerVars, innerVars, loopVars,
                 counters, tres, result, used>>

(* trial_post asks for the failure to be run again, or the trial ends.     *)
Reported(h) ==
  CASE h = "REPEAT" -> pc' = "rerun" /\ UNCHANGED <<step, seed>>
    [] h = "ERROR"  -> Settle("TRIAL_ERROR")
    [] OTHER        -> Settle("OK")

ReportHook(h) ==
  /\ pc = "report"
  /\ Reported(IF h = "REPEAT_ONCE" THEN "REPEAT" ELSE h)
  /\ UNCHANGED <<heapVars, fails, filter, outerVars, innerVars, loopVars,
                 counters, tres, result, used>>

(* The failed property is called again, on the shrunk arguments.           *)
Rerun(r) ==
  /\ pc = "rerun"
  /\ r \in Says
  /\ CallUses
  /\ CASE r = "FAIL" -> pc' = "rereport" /\ UNCHANGED <<step, seed>>
       [] r = "SKIP" -> Settle("OK")
       [] OTHER      -> Settle("TRIAL_ERROR")
  /\ UNCHANGED <<args, pool, heap, fails, filter, outerVars, innerVars,
                 loopVars, counters, tres, result, used>>

(* The hook again; REPEAT_ONCE has been obeyed by now.                     *)
RereportHook(h) ==
  /\ pc = "rereport"
  /\ Reported(h)
  /\ UNCHANGED <<heapVars, fails, filter, outerVars, innerVars, loopVars,
                 counters, tres, result, used>>

(* A bug: the bit pools are left alone.                                    *)
NoPoolsFreed ==
  {Env(a) : a \in AutoArgs}
    \union {Inst(a, args[a]) : a \in {b \in ArgIds : args[b] # Null}}

(* The environment, bit pool and instance of each argument.                *)
TrialObjects ==
  {Env(a) : a \in AutoArgs}
    \union {Pool(a, pool[a]) : a \in {b \in AutoArgs : pool[b] # Null}}
    \union {Inst(a, args[a]) : a \in {b \in ArgIds : args[b] # Null}}

(* theft_trial_free_args, and the return of run_step.                      *)
FreeArgs ==
  /\ pc = "free"
  /\ Free(TrialObjects)
  /\ StepReturns(step)
  /\ UNCHANGED <<fails, filter, outerVars, innerVars, seed, counters, tres,
                 used>>

(* A bug: a pass hides the failures.                                       *)
PassFirst == IF counters.pass > 0 THEN "PASS"
             ELSE IF counters.fail > 0 THEN "FAIL" ELSE "SKIP"

RunResult == IF counters.fail > 0 THEN "FAIL"
             ELSE IF counters.pass > 0 THEN "PASS" ELSE "SKIP"

(* The run_post hook, and the result from the counters.                    *)
RunPostHook(h) ==
  /\ pc = "loop"
  /\ ~ TrialsLeft
  /\ Finish(IF h # "CONTINUE" THEN "ERROR" ELSE RunResult)
  /\ UNCHANGED <<heapVars, fails, filter, outerVars, innerVars, loopVars, seed,
                 counters, tres, step, used>>

-----------------------------------------------------------------------------
RunStep ==
  \/ \E h \in Answers("run_pre") : RunPreHook(h)
  \/ StepBegins
  \/ \E a \in AutoArgs : EnvFails(a)
  \/ \E h \in Answers("gen_args_pre") : GenArgsPreHook(h)
  \/ \E o \in Vals \union {AllocSkip, AllocError} : GenArg(o)
  \/ GenDone
  \/ \E h \in Answers("trial_pre") : TrialPreHook(h)
  \/ \E h \in Answers("trial_post") :
       GenPostHook(h) \/ TrialPostHookRuns(h) \/ ReportHook(h) \/ RereportHook(h)
  \/ \E r \in {"PASS", "FAIL", "SKIP", "ERROR"} : Trial(r) \/ Rerun(r)
  \/ ShrinkFailed \/ ShrinkDone
  \/ \E h \in Answers("counterexample") : CounterexampleHook(h)
  \/ FreeArgs
  \/ \E h \in Answers("run_post") : RunPostHook(h)

(* The property is about to be called on arguments for the first time.     *)
FirstCall == pc = "trial" \/ (pc = "call" /\ ~ repeated)

Step ==
  /\ RunStep \/ (ShrinkStep /\ UNCHANGED runVars)
  /\ ran' = IF FirstCall THEN ran \union {args} ELSE ran

Over == pc \in {"finished", "aborted"} /\ UNCHANGED vars

Spec == Init /\ [][Step \/ Over]_vars

(* One thread, and callbacks and hooks that return.                        *)
FairSpec == Spec /\ WF_vars(Step)

-----------------------------------------------------------------------------
(* Properties.                                                             *)

(* The variables of theft_run_trials, run_step and theft_trial_run.        *)
TypeOK ==
  /\ trial \in 0 .. Trials /\ limit \in 0 .. Trials
  /\ seed \in Seeds /\ used \subseteq Seeds
  /\ counters \in [{"pass", "fail", "skip", "dup"} -> 0 .. Trials]
  /\ tres \in Results \union {"DUP"}
  /\ step \in {"none", "OK", "HALT", "GEN_ERROR", "TRIAL_ERROR"}
  /\ result \in {"none", "PASS", "FAIL", "SKIP", "ERROR"}
  /\ args \in [ArgIds -> Vals \union {Null}]
  /\ pool \in [ArgIds -> Vals \union {Null}]
  /\ argi \in 1 .. Arity + 1

(***************************************************************************)
(* Between trials and when the run is over, nothing is allocated: every    *)
(* instance, bit pool and environment was freed.  Two paths do not keep to *)
(* it: gen_args_pre stops the run (theft_run.c:252-256), or there is no    *)
(* memory for the environment of the second of several autoshrinking       *)
(* arguments (theft_run.c:416-419).                                        *)
(***************************************************************************)
NothingLeaks == pc \in {"loop", "finished"} => heap = {}

(***************************************************************************)
(* With the bloom filter, the property is called on no tuple twice in a    *)
(* run, whether it was generated or reached by shrinking, unless the last  *)
(* mark of that very tuple was lost for lack of memory.                    *)
(***************************************************************************)
NewTuple ==
  HasBloom /\ FirstCall' /\ pc' # pc => args' \notin ran \ forgotten
NoTupleTwice == [][NewTuple]_vars

(***************************************************************************)
(* The report's counters account for each trial that was run, once.        *)
(***************************************************************************)
EveryTrialCounted ==
  pc = "loop" /\ trial >= limit =>
    counters.pass + counters.fail + counters.skip + counters.dup = limit

(***************************************************************************)
(* A run that does not say FAIL or ERROR never saw the property fail: no   *)
(* failure is lost in shrinking, repeating or reporting it.                *)
(***************************************************************************)
NoFailureLost ==
  Deterministic /\ result \in {"PASS", "SKIP"} => ran \intersect fails = {}

(***************************************************************************)
(* What the counterexample hook and the repetitions are given makes the    *)
(* property fail.                                                          *)
(***************************************************************************)
ReportedFails ==
  Deterministic /\ pc \in {"counterexample", "report", "rerun", "rereport"} =>
    args \in fails

(***************************************************************************)
(* A run that is not halted and long enough has tried all the always seeds *)
(* and the run seed itself.                                                *)
(***************************************************************************)
AlwaysSeedsTried ==
  pc = "loop" /\ trial >= limit /\ limit = Trials /\ Trials > Len(AlwaysSeeds) =>
    {AlwaysSeeds[k] : k \in 1 .. Len(AlwaysSeeds)} \union {RunSeed} \subseteq used

(***************************************************************************)
(* The run ends, also when tactics go round in circles.  Only two things   *)
(* keep it going: a hook that asks for the failure to be run again each    *)
(* time, or marks of tuples reached by shrinking that are lost without end.*)
(***************************************************************************)
RunEnds ==
  \/ <>(pc \in {"finished", "aborted"})
  \/ []<>(pc = "rerun")
  \/ []<>(pc = "call" /\ args \in forgotten)
=============================================================================
