---------------------------- MODULE RunnerProofs ----------------------------
(***************************************************************************)
(* Proofs of the safety properties of Runner, for any number of trials,    *)
(* arguments, values and seeds, and any answers of callbacks and hooks.    *)
(* Each of the five parts below is an invariant; the part about the heap   *)
(* takes that of ShrinkProofs for as long as theft_shrink runs.            *)
(***************************************************************************)
EXTENDS Runner, ShrinkProofs

USE DEF filter

ShrinkPcs == {"arg", "tactic", "shrink", "shrunk", "call", "called", "done", "aborted"}
Between == {"run_pre", "loop", "finished"}
Generating == {"gen_pre", "gen", "gen_post"}
OnTrial == {"trial_pre", "trial", "trial_post"}
Reporting == {"counterexample", "report", "rerun", "rereport"}
Pcs == ShrinkPcs \union Between \union Generating \union OnTrial \union Reporting
         \union {"free"}

StepResults == {"OK", "HALT", "GEN_ERROR", "TRIAL_ERROR"}
Names == {"pass", "fail", "skip", "dup"}

LEMMA ShrinkPc ==
  ASSUME ShrinkStep
  PROVE  pc \in ShrinkPcs \ {"done", "aborted"} /\ pc' \in ShrinkPcs
<1>1. ArgShrinkable \/ ArgSkipped \/ ArgsDone \/ TacticsSpent =>
        pc \in {"arg", "tactic"} /\ pc' \in ShrinkPcs
  BY DEF ArgShrinkable, ArgSkipped, ArgsDone, TacticsSpent, StartShrink, Return,
         NextArg, ShrinkPcs
<1>2. ASSUME NEW h, PreHook(h) PROVE pc = "tactic" /\ pc' \in ShrinkPcs
  BY <1>2 DEF PreHook, GiveUp, Return, ShrinkPcs
<1>3. ASSUME NEW o, ShrinkCallback(o) PROVE pc = "shrink" /\ pc' \in ShrinkPcs
  BY <1>3 DEF ShrinkCallback, ShrinkPcs
<1>4. ASSUME NEW h, PostHook(h) PROVE pc = "shrunk" /\ pc' \in ShrinkPcs
  <2>1. PostHookErrs \/ NextTactic \/ NextArg \/ GiveUp(FALSE) => pc' \in ShrinkPcs
    BY DEF PostHookErrs, NextTactic, NextArg, GiveUp, Return, ShrinkPcs
  <2>2. TryCandidate => pc' \in ShrinkPcs
    BY <2>1 DEF TryCandidate, ShrinkPcs
  <2>3. "aborted" \in ShrinkPcs
    BY DEF ShrinkPcs
  <2> QED
    BY <1>4, <2>1, <2>2, <2>3 DEF PostHook
<1>5. ASSUME NEW r, ShrinkCall(r) PROVE pc = "call" /\ pc' \in ShrinkPcs
  BY <1>5 DEF ShrinkCall, ShrinkPcs
<1>6. ASSUME NEW h, TrialPostHook(h) PROVE pc = "called" /\ pc' \in ShrinkPcs
  BY <1>6 DEF TrialPostHook, Revert, Commit, Abandon, NextTactic, SameArg, GiveUp,
              Return, ShrinkPcs
<1> QED
  BY <1>1, <1>2, <1>3, <1>4, <1>5, <1>6 DEF ShrinkStep, ShrinkPcs

-----------------------------------------------------------------------------
(* The trials are counted.                                                 *)

Sum == counters.pass + counters.fail + counters.skip + counters.dup

(* The trial under way is not in the counters yet, or it is.               *)
Uncounted ==
  \/ pc \in {"gen_pre", "gen", "trial_pre", "trial"} \union ShrinkPcs
  \/ pc \in {"gen_post", "trial_post"} /\ tres = "ERROR"
  \/ pc = "free" /\ step = "HALT"
Counted ==
  \/ pc \in Reporting
  \/ pc \in {"gen_post", "trial_post"} /\ tres # "ERROR"
  \/ pc = "free" /\ step = "OK"

RunTypes ==
  /\ pc \in Pcs
  /\ trial \in 0 .. Trials /\ limit \in 0 .. Trials
  /\ seed \in Seeds /\ used \subseteq Seeds
  /\ tres \in Results \union {"DUP"}
  /\ step \in StepResults \union {"none"}
  /\ pc = "free" => step # "none"
  /\ result \in {"none", "PASS", "FAIL", "SKIP", "ERROR"}

Counting ==
  /\ counters \in [Names -> Nat]
  /\ Sum <= Trials
  /\ pc \in {"run_pre", "loop"} =>
       \/ trial <= limit /\ Sum = trial
       \/ trial = limit + 1 /\ Sum = limit /\ limit < Trials
  /\ pc \notin Between => trial < limit /\ Sum <= trial + 1
  /\ Uncounted => Sum = trial
  /\ Counted => Sum = trial + 1

LEMMA CountTypes ==
  ASSUME counters \in [Names -> Nat], NEW c \in Names, Count(c)
  PROVE  counters' \in [Names -> Nat] /\ Sum' = Sum + 1 /\ Sum \in Nat
BY DEF Count, Names, Sum

LEMMA TrialSeedType ==
  ASSUME RunTypes PROVE TrialSeed \in Seeds
BY RunnerAssumption DEF RunTypes, TrialSeed

USE DEF ShrinkPcs, Between, Generating, OnTrial, Reporting, Pcs, StepResults

LEMMA InitCounting == Init => RunTypes /\ Counting
<1> SUFFICES ASSUME Init PROVE RunTypes /\ Counting
  OBVIOUS
<1>1. Trials \in Nat /\ RunSeed \in Seeds
  BY RunnerAssumption
<1>2. counters = [pass |-> 0, fail |-> 0, skip |-> 0, dup |-> 0]
  BY DEF Init
<1>3. counters \in [Names -> Nat] /\ Sum = 0
  BY <1>2 DEF Names, Sum
<1> QED
  BY <1>1, <1>3 DEF Init, RunTypes, Counting, Uncounted, Counted, Results

(* A step that leaves the counters alone.                                  *)
LEMMA Same == ASSUME counters' = counters PROVE Sum' = Sum
BY Zenon DEF Sum

LEMMA SumNat == Counting => Sum \in Nat
BY DEF Counting, Sum, Names

(* The steps of theft_run_trials, and those up to the arguments.           *)
LEMMA CountingOuter ==
  ASSUME RunTypes, Counting,
         \/ \E h : RunPreHook(h) \/ GenArgsPreHook(h) \/ RunPostHook(h)
         \/ StepBegins \/ FreeArgs \/ \E a : EnvFails(a)
  PROVE  RunTypes' /\ Counting'
<1>1. Sum \in Nat /\ Trials \in Nat
  BY SumNat, RunnerAssumption
<1>2. counters' = counters /\ Sum' = Sum
  BY Same DEF RunPreHook, GenArgsPreHook, RunPostHook, StepBegins, FreeArgs, EnvFails
<1>3. ASSUME NEW r \in StepResults, StepReturns(r), pc \notin {"run_pre", "finished"},
             trial < limit,
             r = "OK" => Sum = trial + 1, r = "HALT" => Sum = trial,
             seed' \in Seeds, used' \subseteq Seeds, tres' = tres
      PROVE  RunTypes' /\ Counting'
  BY <1>1, <1>2, <1>3 DEF StepReturns, NextTrial, Finish, RunTypes, Counting,
     Uncounted, Counted, loopVars
<1>4. ASSUME NEW h, RunPreHook(h) PROVE RunTypes' /\ Counting'
  BY <1>1, <1>2, <1>4 DEF RunPreHook, Finish, loopVars, RunTypes, Counting, Uncounted,
     Counted
<1>5. ASSUME NEW h, GenArgsPreHook(h) PROVE RunTypes' /\ Counting'
  <2>1. CASE h = "CONTINUE"
    BY <1>1, <1>2, <1>5, <2>1 DEF GenArgsPreHook, loopVars, RunTypes, Counting,
       Uncounted, Counted
  <2>2. CASE h # "CONTINUE"
    <3>1. StepReturns(IF h = "HALT" THEN "HALT" ELSE "GEN_ERROR")
      BY <1>5, <2>2 DEF GenArgsPreHook
    <3>2. seed' \in Seeds /\ used' \subseteq Seeds /\ tres' = tres /\ pc = "gen_pre"
      BY <1>5, <2>2 DEF GenArgsPreHook, RunTypes
    <3>3. trial < limit /\ Sum = trial
      BY <3>2 DEF Counting, Uncounted
    <3> QED
      BY <1>3, <3>1, <3>2, <3>3
  <2> QED
    BY <2>1, <2>2
<1>6. ASSUME NEW h, RunPostHook(h) PROVE RunTypes' /\ Counting'
  BY <1>1, <1>2, <1>6 DEF RunPostHook, Finish, RunResult, loopVars, RunTypes,
     Counting, Uncounted, Counted
<1>7. CASE StepBegins
  BY <1>1, <1>2, <1>7, TrialSeedType DEF StepBegins, TrialsLeft, loopVars, RunTypes,
     Counting, Uncounted, Counted
<1>8. ASSUME NEW a, EnvFails(a) PROVE RunTypes' /\ Counting'
  <2>1. /\ StepReturns("GEN_ERROR") /\ pc = "loop" /\ trial < limit
        /\ seed' \in Seeds /\ used' \subseteq Seeds /\ tres' = tres
    BY <1>8, TrialSeedType DEF EnvFails, TrialsLeft, RunTypes
  <2> QED
    BY <1>3, <2>1
<1>9. CASE FreeArgs
  <2>1. /\ StepReturns(step) /\ pc = "free" /\ step \in StepResults /\ trial < limit
        /\ seed' \in Seeds /\ used' \subseteq Seeds /\ tres' = tres
        /\ step = "OK" => Sum = trial + 1
        /\ step = "HALT" => Sum = trial
    BY <1>9 DEF FreeArgs, RunTypes, Counting, Uncounted, Counted
  <2> QED
    BY <1>3, <2>1
<1> QED
  BY <1>4, <1>5, <1>6, <1>7, <1>8, <1>9

(* The others: from the arguments to what becomes of the trial.            *)
LEMMA CountingInner ==
  ASSUME RunTypes, Counting,
         \/ GenDone \/ ShrinkFailed \/ ShrinkDone
         \/ \E o \in Vals \union {AllocSkip, AllocError} : GenArg(o)
         \/ \E h : \/ GenPostHook(h) \/ TrialPreHook(h) \/ TrialPostHookRuns(h)
                   \/ CounterexampleHook(h) \/ ReportHook(h) \/ RereportHook(h)
         \/ \E r \in {"PASS", "FAIL", "SKIP", "ERROR"} : Trial(r) \/ Rerun(r)
  PROVE  RunTypes' /\ Counting'
<1>1. Sum \in Nat /\ Trials \in Nat
  BY SumNat, RunnerAssumption
<1>2. UNCHANGED <<trial, limit, used, result>>
  BY DEF GenDone, ShrinkFailed, ShrinkDone, GenArg, GenPostHook, TrialPreHook,
     TrialPostHookRuns, CounterexampleHook, ReportHook, RereportHook, Trial, Rerun,
     loopVars
<1>3. pc \notin Between /\ trial < limit
  BY DEF GenDone, ShrinkFailed, ShrinkDone, GenArg, GenPostHook, TrialPreHook,
     TrialPostHookRuns, CounterexampleHook, ReportHook, RereportHook, Trial, Rerun,
     Counting
<1>4. ASSUME NEW r \in StepResults, Settle(r), counters' = counters,
             r = "OK" => Sum = trial + 1, r = "HALT" => Sum = trial,
             tres' \in Results \union {"DUP"}
      PROVE  RunTypes' /\ Counting'
  BY <1>1, <1>2, <1>3, <1>4, Same DEF Settle, RunTypes, Counting, Uncounted, Counted
<1>5. ASSUME NEW o \in Vals \union {AllocSkip, AllocError}, GenArg(o)
      PROVE  RunTypes' /\ Counting'
  <2>1. pc = "gen" /\ seed' = seed /\ step' = step
    BY <1>5 DEF GenArg
  <2>2. CASE pc' = pc /\ counters' = counters /\ tres' = tres
    BY <1>1, <1>2, <1>3, <2>1, <2>2, Same DEF RunTypes, Counting, Uncounted, Counted
  <2>3. CASE pc' = "gen_post" /\ tres' = "SKIP" /\ Count("skip")
    BY <1>1, <1>2, <1>3, <2>1, <2>3, CountTypes DEF RunTypes, Counting, Uncounted,
       Counted, Results, Names
  <2>4. CASE pc' = "gen_post" /\ tres' = "ERROR" /\ counters' = counters
    BY <1>1, <1>2, <1>3, <2>1, <2>4, Same DEF RunTypes, Counting, Uncounted, Counted,
       Results
  <2>5. /\ o \in Vals => pc' = pc /\ counters' = counters /\ tres' = tres
        /\ o = AllocSkip => pc' = "gen_post" /\ tres' = "SKIP" /\ Count("skip")
        /\ o = AllocError => pc' = "gen_post" /\ tres' = "ERROR" /\ counters' = counters
    <3>1. AllocSkip # AllocError /\ AllocSkip \notin Vals /\ AllocError \notin Vals
      BY RunnerAssumption
    <3> QED
      BY <1>5, <3>1 DEF GenArg
  <2> QED
    BY <2>2, <2>3, <2>4, <2>5
<1>6. CASE GenDone
  <2>1. pc = "gen" /\ seed' = seed /\ step' = step
    BY <1>6 DEF GenDone
  <2>2. CASE pc' = "gen_post" /\ tres' = "DUP" /\ Count("dup")
    BY <1>1, <1>2, <1>3, <2>1, <2>2, CountTypes DEF RunTypes, Counting, Uncounted,
       Counted, Results, Names
  <2>3. CASE pc' = "trial_pre" /\ tres' = tres /\ counters' = counters
    BY <1>1, <1>2, <1>3, <2>1, <2>3, Same DEF RunTypes, Counting, Uncounted, Counted
  <2> QED
    BY <1>6, <2>2, <2>3 DEF GenDone
<1>7. ASSUME NEW r \in {"PASS", "FAIL", "SKIP", "ERROR"}, Trial(r)
      PROVE  RunTypes' /\ Counting'
  <2>1. pc = "trial" /\ seed' = seed /\ step' = step /\ tres' = r
    BY <1>7 DEF Trial
  <2>2. CASE pc' = "arg" /\ r = "FAIL" /\ counters' = counters
    BY <1>1, <1>2, <1>3, <2>1, <2>2, Same DEF RunTypes, Counting, Uncounted, Counted,
       Results
  <2>3. ASSUME NEW c \in {"pass", "skip"}, pc' = "trial_post", r # "ERROR", Count(c)
        PROVE  RunTypes' /\ Counting'
    BY <1>1, <1>2, <1>3, <2>1, <2>3, CountTypes DEF RunTypes, Counting, Uncounted,
       Counted, Results, Names
  <2>4. CASE pc' = "trial_post" /\ r = "ERROR" /\ counters' = counters
    BY <1>1, <1>2, <1>3, <2>1, <2>4, Same DEF RunTypes, Counting, Uncounted, Counted,
       Results
  <2>5. /\ r = "FAIL" => pc' = "arg" /\ counters' = counters
        /\ r = "PASS" => pc' = "trial_post" /\ Count("pass")
        /\ r = "SKIP" => pc' = "trial_post" /\ Count("skip")
        /\ r = "ERROR" => pc' = "trial_post" /\ counters' = counters
    BY <1>7 DEF Trial, StartShrink
  <2> QED
    BY <2>2, <2>3, <2>4, <2>5
<1>8. CASE ShrinkDone
  <2>1. /\ pc = "done" /\ pc' = "counterexample" /\ Count("fail")
        /\ UNCHANGED <<seed, tres, step>>
    BY <1>8 DEF ShrinkDone
  <2> QED
    BY <1>1, <1>2, <1>3, <2>1, CountTypes DEF RunTypes, Counting, Uncounted, Counted,
       Names
<1>9. CASE ShrinkFailed
  BY <1>4, <1>9 DEF ShrinkFailed, Results
<1>10. ASSUME NEW h, GenPostHook(h) PROVE RunTypes' /\ Counting'
  <2>1. PICK r \in {"GEN_ERROR", "TRIAL_ERROR", "OK"} :
          Settle(r) /\ (r = "OK" => tres # "ERROR")
    BY <1>10 DEF GenPostHook
  <2>2. pc = "gen_post" /\ counters' = counters /\ tres' = tres
    BY <1>10 DEF GenPostHook
  <2> QED
    BY <1>4, <2>1, <2>2 DEF RunTypes, Counting, Counted
<1>11. ASSUME NEW h, TrialPostHookRuns(h) PROVE RunTypes' /\ Counting'
  <2>1. PICK r \in {"TRIAL_ERROR", "OK"} : Settle(r) /\ (r = "OK" => tres # "ERROR")
    BY <1>11 DEF TrialPostHookRuns
  <2>2. pc = "trial_post" /\ counters' = counters /\ tres' = tres
    BY <1>11 DEF TrialPostHookRuns
  <2> QED
    BY <1>4, <2>1, <2>2 DEF RunTypes, Counting, Counted
<1>12. ASSUME NEW h, TrialPreHook(h) PROVE RunTypes' /\ Counting'
  <2>1. pc = "trial_pre" /\ counters' = counters /\ tres' = tres /\ Sum = trial
    BY <1>12 DEF TrialPreHook, Counting, Uncounted
  <2>2. CASE pc' = "trial" /\ UNCHANGED <<step, seed>>
    BY <1>1, <1>2, <1>3, <2>1, <2>2, Same DEF RunTypes, Counting, Uncounted, Counted
  <2>3. CASE Settle("HALT") \/ Settle("TRIAL_ERROR")
    BY <1>4, <2>1, <2>3 DEF RunTypes
  <2> QED
    BY <1>12, <2>2, <2>3 DEF TrialPreHook
<1>13. ASSUME pc \in Reporting, pc' \in Reporting, UNCHANGED <<step, seed, counters, tres>>
       PROVE  RunTypes' /\ Counting'
  BY <1>1, <1>2, <1>3, <1>13, Same DEF RunTypes, Counting, Uncounted, Counted
<1>14. ASSUME NEW r \in {"OK", "TRIAL_ERROR"}, Settle(r), pc \in Reporting,
              UNCHANGED <<counters, tres>>
       PROVE  RunTypes' /\ Counting'
  BY <1>4, <1>14 DEF RunTypes, Counting, Counted
<1>15. ASSUME NEW h, CounterexampleHook(h) \/ ReportHook(h) \/ RereportHook(h)
       PROVE  RunTypes' /\ Counting'
  BY <1>13, <1>14, <1>15 DEF CounterexampleHook, ReportHook, RereportHook, Reported
<1>16. ASSUME NEW r \in {"PASS", "FAIL", "SKIP", "ERROR"}, Rerun(r)
       PROVE  RunTypes' /\ Counting'
  BY <1>13, <1>14, <1>16 DEF Rerun
<1> QED
  BY <1>5, <1>6, <1>7, <1>8, <1>9, <1>10, <1>11, <1>12, <1>15, <1>16

LEMMA CountingStep ==
  RunTypes /\ Counting /\ [Step \/ Over]_vars => RunTypes' /\ Counting'
<1> SUFFICES ASSUME RunTypes, Counting, [Step \/ Over]_vars
             PROVE  RunTypes' /\ Counting'
  OBVIOUS
<1>1. CASE RunStep
  BY <1>1, CountingOuter, CountingInner DEF RunStep
<1>2. CASE ShrinkStep /\ UNCHANGED runVars
  <2>1. pc \in ShrinkPcs /\ pc' \in ShrinkPcs /\ UNCHANGED runVars
    BY <1>2, ShrinkPc
  <2> QED
    BY <2>1, Same DEF runVars, RunTypes, Counting, Uncounted, Counted
<1>3. CASE UNCHANGED vars
  BY <1>3, Same DEF vars, shrinkVars, runVars, RunTypes, Counting, Uncounted, Counted
<1> QED
  BY <1>1, <1>2, <1>3 DEF Step, Over

-----------------------------------------------------------------------------
(* The seeds are tried.                                                    *)

(* The first n trials have had the seeds they must have.                   *)
Tried(n) ==
  /\ \A k \in 1 .. Len(AlwaysSeeds) : k <= n => AlwaysSeeds[k] \in used
  /\ n > Len(AlwaysSeeds) => RunSeed \in used

(* The seed is the one that trial number n + 1 must have.                  *)
SeedFor(n) ==
  /\ n < Len(AlwaysSeeds) => seed = AlwaysSeeds[n + 1]
  /\ n = Len(AlwaysSeeds) => seed = RunSeed

SeedsUsed ==
  /\ pc \in {"run_pre", "loop"} /\ trial = 0 => seed = RunSeed
  /\ pc \in {"run_pre", "loop"} /\ trial <= limit => Tried(trial)
  /\ pc = "gen_pre" => Tried(trial) /\ SeedFor(trial)
  /\ pc \notin Between \union {"gen_pre"} => Tried(trial + 1)

LEMMA AlwaysSeedsAre == Len(AlwaysSeeds) \in Nat /\ (AlwaysSeeds = <<>> <=> Len(AlwaysSeeds) = 0)
BY RunnerAssumption

LEMMA TriedSame == ASSUME used' = used, NEW n \in Nat, Tried(n) PROVE Tried(n)'
BY DEF Tried

LEMMA InitSeeds == Init => SeedsUsed
BY AlwaysSeedsAre DEF Init, SeedsUsed, Tried

LEMMA SeedsStep ==
  RunTypes /\ Counting /\ SeedsUsed /\ [Step \/ Over]_vars => SeedsUsed'
<1> SUFFICES ASSUME RunTypes, Counting, SeedsUsed, [Step \/ Over]_vars PROVE SeedsUsed'
  OBVIOUS
<1>1. trial \in Nat /\ limit \in Nat
  BY RunnerAssumption DEF RunTypes
<1>2. ASSUME NEW r \in StepResults, StepReturns(r), used' = used, pc # "run_pre",
             r = "OK" => Tried(trial + 1)
      PROVE  SeedsUsed'
  BY <1>1, <1>2, TriedSame DEF StepReturns, NextTrial, Finish, SeedsUsed
<1>3. ASSUME NEW h, RunPreHook(h) PROVE SeedsUsed'
  <2>1. /\ pc' \in {"loop", "finished"} /\ UNCHANGED <<trial, limit, seed, used>>
        /\ pc = "run_pre"
    BY <1>3 DEF RunPreHook, loopVars, Finish
  <2> QED
    BY <1>1, <2>1, TriedSame DEF SeedsUsed
<1>4. CASE StepBegins
  <2>1. pc = "loop" /\ pc' = "gen_pre" /\ trial < limit /\ seed' = TrialSeed
        /\ UNCHANGED <<trial, used>>
    BY <1>4 DEF StepBegins, TrialsLeft, loopVars
  <2>2. Tried(trial)'
    BY <1>1, <2>1, TriedSame DEF SeedsUsed
  <2>3. SeedFor(trial)'
    BY <1>1, <2>1, AlwaysSeedsAre DEF SeedFor, TrialSeed, SeedsUsed
  <2> QED
    BY <2>1, <2>2, <2>3 DEF SeedsUsed
<1>5. ASSUME NEW a, EnvFails(a) PROVE SeedsUsed'
  BY <1>2, <1>5 DEF EnvFails
<1>6. ASSUME NEW h, GenArgsPreHook(h) PROVE SeedsUsed'
  <2>1. CASE h = "CONTINUE"
    <3>1. pc = "gen_pre" /\ pc' = "gen" /\ used' = used \union {seed} /\ trial' = trial
      BY <1>6, <2>1 DEF GenArgsPreHook, loopVars
    <3>2. Tried(trial + 1)'
      <4>1. Tried(trial) /\ SeedFor(trial)
        BY <3>1 DEF SeedsUsed
      <4> QED
        BY <1>1, <3>1, <4>1, AlwaysSeedsAre DEF Tried, SeedFor
    <3> QED
      BY <3>1, <3>2 DEF SeedsUsed
  <2>2. CASE h # "CONTINUE"
    <3>1. /\ StepReturns(IF h = "HALT" THEN "HALT" ELSE "GEN_ERROR")
          /\ used' = used /\ pc = "gen_pre"
      BY <1>6, <2>2 DEF GenArgsPreHook
    <3> QED
      BY <1>2, <3>1
  <2> QED
    BY <2>1, <2>2
<1>7. CASE FreeArgs
  <2>1. StepReturns(step) /\ used' = used /\ pc = "free" /\ step \in StepResults
    BY <1>7 DEF FreeArgs, RunTypes
  <2> QED
    BY <1>2, <2>1 DEF SeedsUsed
<1>8. ASSUME NEW h, RunPostHook(h) PROVE SeedsUsed'
  BY <1>8 DEF RunPostHook, Finish, SeedsUsed
<1>9. ASSUME pc \notin Between \union {"gen_pre"}, pc' \notin Between \union {"gen_pre"},
             UNCHANGED <<trial, used>>
      PROVE  SeedsUsed'
  BY <1>1, <1>9, TriedSame DEF SeedsUsed
<1>10. CASE ShrinkStep /\ UNCHANGED runVars
  BY <1>9, <1>10, ShrinkPc DEF runVars
<1>11. CASE UNCHANGED vars
  BY <1>1, <1>11, TriedSame DEF vars, shrinkVars, runVars, SeedsUsed, SeedFor
<1>12. ASSUME \/ GenDone \/ ShrinkFailed \/ ShrinkDone
              \/ \E o \in Vals \union {AllocSkip, AllocError} : GenArg(o)
       PROVE  SeedsUsed'
  <2>1. UNCHANGED <<trial, used>> /\ pc \in {"gen", "done"}
    BY <1>12 DEF GenDone, ShrinkFailed, ShrinkDone, GenArg, loopVars
  <2>2. pc' \in {"gen", "gen_post", "trial_pre", "free", "counterexample"}
    BY <1>12, RunnerAssumption DEF GenDone, ShrinkFailed, ShrinkDone, GenArg, Settle
  <2> QED
    BY <1>9, <2>1, <2>2
<1>13. ASSUME NEW h, \/ GenPostHook(h) \/ TrialPreHook(h) \/ TrialPostHookRuns(h)
                     \/ CounterexampleHook(h) \/ ReportHook(h) \/ RereportHook(h)
       PROVE  SeedsUsed'
  <2>1. UNCHANGED <<trial, used>> /\ pc \in {"gen_post", "trial_pre", "trial_post"} \union Reporting
    BY <1>13 DEF GenPostHook, TrialPreHook, TrialPostHookRuns, CounterexampleHook,
       ReportHook, RereportHook, loopVars
  <2>2. pc' \in {"trial", "free"} \union Reporting
    BY <1>13 DEF GenPostHook, TrialPreHook, TrialPostHookRuns, CounterexampleHook,
       ReportHook, RereportHook, Reported, Settle
  <2> QED
    BY <1>9, <2>1, <2>2
<1>14. ASSUME NEW r \in {"PASS", "FAIL", "SKIP", "ERROR"}, Trial(r) \/ Rerun(r)
       PROVE  SeedsUsed'
  <2>1. UNCHANGED <<trial, used>> /\ pc \in {"trial", "rerun"}
    BY <1>14 DEF Trial, Rerun, loopVars
  <2>2. pc' \in {"arg", "trial_post", "rereport", "free"}
    BY <1>14 DEF Trial, Rerun, Settle, StartShrink
  <2> QED
    BY <1>9, <2>1, <2>2
<1> QED
  BY <1>3, <1>4, <1>5, <1>6, <1>7, <1>8, <1>10, <1>11, <1>12, <1>13, <1>14
  DEF Step, Over, RunStep

-----------------------------------------------------------------------------
(* The tuples the property was called on.                                  *)

(***************************************************************************)
(* What has been called is marked, but for lost marks.  Arguments that     *)
(* passed the filter are not; a candidate is marked before it is called.   *)
(***************************************************************************)
Marked ==
  HasBloom =>
    /\ ran \ forgotten \subseteq called
    /\ pc \in {"trial_pre", "trial"} => args \notin called
    /\ pc \in {"call", "called"} => args \in called \union forgotten

RanStep == ran' = IF FirstCall THEN ran \union {args} ELSE ran

(* A tuple is marked, or its mark is lost.                                 *)
LEMMA MarkMarks ==
  ASSUME NEW tuple, HasBloom, MarkCalled(tuple), ran \ forgotten \subseteq called
  PROVE  /\ tuple \in called' \union forgotten'
         /\ (ran \union {tuple}) \ forgotten' \subseteq called'
BY DEF MarkCalled

LEMMA MarkedShrink ==
  ASSUME Marked, ShrinkStep, RanStep PROVE Marked'
<1> SUFFICES ASSUME HasBloom PROVE Marked'
  BY DEF Marked
<1>1. ran' \ forgotten \subseteq called
  BY ShrinkPc DEF Marked, RanStep, FirstCall
<1>2. ASSUME UNCHANGED filter, pc' \notin {"call", "called"} PROVE Marked'
  BY <1>1, <1>2, ShrinkPc DEF Marked
<1>3. ASSUME NEW h, PostHook(h) PROVE Marked'
  <2>1. pc = "shrunk" /\ ran' = ran
    BY <1>3 DEF PostHook, RanStep, FirstCall
  <2>2. CASE UNCHANGED filter /\ pc' \notin {"call", "called"}
    BY <1>2, <2>2
  <2>3. CASE TryCandidate /\ ~ (UNCHANGED filter /\ pc' \notin {"call", "called"})
    <3> DEFINE new == [args EXCEPT ![argi] = candidate]
    <3>1. /\ Seen(new, FALSE) /\ args' = new /\ MarkCalled(new)
          /\ repeated' = FALSE /\ pc' = "call"
      BY <2>3 DEF TryCandidate, NextTactic
    <3> HIDE DEF new
    <3>2. ran \ forgotten \subseteq called
      BY DEF Marked
    <3>3. new \in called' \union forgotten' /\ (ran \union {new}) \ forgotten' \subseteq called'
      BY <3>1, <3>2, MarkMarks
    <3> QED
      BY <2>1, <3>1, <3>3 DEF Marked
  <2>4. TryCandidate \/ (UNCHANGED filter /\ pc' \notin {"call", "called"})
    BY <1>3 DEF PostHook, PostHookErrs, GiveUp, Return, NextTactic, NextArg
  <2> QED
    BY <2>2, <2>3, <2>4
<1>4. ASSUME NEW r, ShrinkCall(r) PROVE Marked'
  BY <1>1, <1>4 DEF ShrinkCall, Marked
<1>5. ASSUME NEW h, TrialPostHook(h) PROVE Marked'
  <2>1. pc = "called" /\ UNCHANGED filter
    BY <1>5 DEF TrialPostHook
  <2>2. CASE pc' = "call"
    <3>1. args' = args /\ repeated' = TRUE
      BY <1>5, <2>2 DEF TrialPostHook, heapVars, Revert, Commit, Abandon, NextTactic,
         SameArg, GiveUp, Return
    <3> QED
      BY <1>1, <2>1, <2>2, <3>1 DEF Marked
  <2>3. pc' # "called"
    BY <1>5 DEF TrialPostHook, Revert, Commit, Abandon, NextTactic, SameArg, GiveUp, Return
  <2> QED
    BY <1>2, <2>1, <2>2, <2>3
<1>6. ASSUME \/ ArgShrinkable \/ ArgSkipped \/ ArgsDone \/ TacticsSpent
             \/ \E h : PreHook(h)
             \/ \E o : ShrinkCallback(o)
      PROVE  Marked'
  <2>1. UNCHANGED filter /\ pc' \notin {"call", "called"}
    BY <1>6 DEF ArgShrinkable, ArgSkipped, ArgsDone, TacticsSpent, PreHook,
       ShrinkCallback, StartShrink, Return, NextArg, GiveUp
  <2> QED
    BY <1>2, <2>1
<1> QED
  BY <1>3, <1>4, <1>5, <1>6 DEF ShrinkStep

LEMMA MarkedStep == Marked /\ [Step \/ Over]_vars => Marked'
<1> SUFFICES ASSUME Marked, HasBloom, [Step \/ Over]_vars PROVE Marked'
  BY DEF Marked
<1>1. CASE ShrinkStep /\ RanStep
  BY <1>1, MarkedShrink
<1>2. ASSUME UNCHANGED filter, ran' = ran, pc' \notin {"trial_pre", "trial"} \union ShrinkPcs
      PROVE  Marked'
  BY <1>2 DEF Marked
<1>3. CASE GenDone /\ RanStep
  <2>1. pc = "gen" /\ UNCHANGED filter /\ args' = args /\ ran' = ran
    BY <1>3 DEF GenDone, heapVars, RanStep, FirstCall
  <2>2. CASE pc' = "trial_pre"
    <3>1. Seen(args, FALSE)
      BY <1>3, <2>2 DEF GenDone
    <3> QED
      BY <2>1, <2>2, <3>1 DEF Marked, Seen
  <2> QED
    BY <1>2, <1>3, <2>1, <2>2 DEF GenDone
<1>4. ASSUME NEW h, TrialPreHook(h), RanStep PROVE Marked'
  <2>1. /\ pc = "trial_pre" /\ UNCHANGED filter /\ args' = args /\ ran' = ran
        /\ pc' \in {"trial", "free"}
    BY <1>4 DEF TrialPreHook, heapVars, Settle, RanStep, FirstCall
  <2> QED
    BY <2>1 DEF Marked
<1>5. ASSUME NEW r, r \in {"PASS", "FAIL", "SKIP", "ERROR"}, Trial(r), RanStep PROVE Marked'
  <2>1. /\ pc = "trial" /\ MarkCalled(args) /\ ran' = ran \union {args}
        /\ pc' \in {"arg", "trial_post"}
    BY <1>5 DEF Trial, StartShrink, RanStep, FirstCall
  <2>2. ran' \ forgotten' \subseteq called'
    BY <2>1, MarkMarks DEF Marked
  <2> QED
    BY <2>1, <2>2 DEF Marked
<1>6. CASE RanStep /\ \/ StepBegins \/ ShrinkFailed \/ ShrinkDone \/ FreeArgs
                      \/ \E a : EnvFails(a)
                      \/ \E o \in Vals \union {AllocSkip, AllocError} : GenArg(o)
  <2>1. UNCHANGED filter /\ pc \notin {"trial", "call"}
    BY <1>6 DEF StepBegins, ShrinkFailed, ShrinkDone, FreeArgs, EnvFails, GenArg
  <2>2. pc' \in {"loop", "finished", "gen_pre", "gen", "gen_post", "free", "counterexample"}
    BY <1>6, RunnerAssumption DEF StepBegins, ShrinkFailed, ShrinkDone, FreeArgs, EnvFails,
       GenArg, StepReturns, Finish, Settle
  <2> QED
    BY <1>2, <1>6, <2>1, <2>2 DEF RanStep, FirstCall
<1>7. ASSUME RanStep, NEW h,
             \/ RunPreHook(h) \/ GenArgsPreHook(h) \/ RunPostHook(h) \/ GenPostHook(h)
             \/ TrialPostHookRuns(h) \/ CounterexampleHook(h) \/ ReportHook(h)
             \/ RereportHook(h)
      PROVE  Marked'
  <2>1. UNCHANGED filter /\ pc \notin {"trial", "call"}
    BY <1>7 DEF RunPreHook, GenArgsPreHook, RunPostHook, GenPostHook, TrialPostHookRuns,
       CounterexampleHook, ReportHook, RereportHook
  <2>2. pc' \in {"loop", "finished", "gen", "free"} \union Reporting
    BY <1>7 DEF RunPreHook, GenArgsPreHook, RunPostHook, GenPostHook, TrialPostHookRuns,
       CounterexampleHook, ReportHook, RereportHook, Reported, StepReturns, Finish, Settle
  <2> QED
    BY <1>2, <1>7, <2>1, <2>2 DEF RanStep, FirstCall
<1>8. ASSUME RanStep, NEW r \in {"PASS", "FAIL", "SKIP", "ERROR"}, Rerun(r) PROVE Marked'
  <2>1. UNCHANGED filter /\ pc = "rerun" /\ pc' \in {"rereport", "free"}
    BY <1>8 DEF Rerun, Settle
  <2> QED
    BY <1>2, <1>8, <2>1 DEF RanStep, FirstCall
<1>9. CASE UNCHANGED vars
  BY <1>9 DEF vars, shrinkVars, heapVars, innerVars, Marked
<1> QED
  BY <1>1, <1>3, <1>4, <1>5, <1>6, <1>7, <1>8, <1>9 DEF Step, Over, RunStep, RanStep

-----------------------------------------------------------------------------
(* The failures the property showed.                                       *)

FailureSeen ==
  /\ pc # "finished" => result = "none"
  /\ result \in {"PASS", "SKIP"} => counters.fail = 0
  /\ ran \intersect fails # {} =>
       \/ counters.fail > 0
       \/ pc \in ShrinkPcs
       \/ pc = "free" /\ step = "TRIAL_ERROR"
       \/ pc = "finished" /\ result = "ERROR"

LEMMA FailsFixed == [Step \/ Over]_vars => fails' = fails
<1>1. ShrinkStep => fails' = fails
  BY DEF ShrinkStep, ArgShrinkable, ArgSkipped, ArgsDone, TacticsSpent, PreHook,
     ShrinkCallback, PostHook, ShrinkCall, TrialPostHook
<1>2. RunStep => fails' = fails
  BY DEF RunStep, RunPreHook, StepBegins, EnvFails, GenArgsPreHook, GenArg, GenDone,
     GenPostHook, TrialPreHook, TrialPostHookRuns, ReportHook, RereportHook, Trial,
     Rerun, ShrinkFailed, ShrinkDone, CounterexampleHook, FreeArgs, RunPostHook
<1> QED
  BY <1>1, <1>2 DEF Step, Over, vars, shrinkVars

LEMMA FailureStep ==
  RunTypes /\ Counting /\ FailureSeen /\ [Step \/ Over]_vars => FailureSeen'
<1> SUFFICES ASSUME RunTypes, Counting, FailureSeen, [Step \/ Over]_vars
             PROVE  FailureSeen'
  OBVIOUS
<1>1. counters.fail \in Nat
  BY DEF Counting, Names
<1>2. fails' = fails
  BY FailsFixed
<1>3. ASSUME ShrinkStep, UNCHANGED runVars PROVE FailureSeen'
  BY <1>3, ShrinkPc DEF FailureSeen, runVars
<1>4. ASSUME counters'.fail = counters.fail, ran' = ran, result' = result,
             pc' \notin ShrinkPcs \union {"finished"}, pc \notin ShrinkPcs \union {"free", "finished"}
      PROVE  FailureSeen'
  BY <1>2, <1>4 DEF FailureSeen
<1>5. ASSUME NEW c \in {"pass", "skip", "dup"}, Count(c) PROVE counters'.fail = counters.fail
  BY <1>5 DEF Count, Counting, Names
<1>6. ASSUME RanStep, counters' = counters, pc \in {"loop", "gen_pre", "free"},
             NEW r \in StepResults, StepReturns(r), pc = "free" => r = step
      PROVE  FailureSeen'
  <2>1. ran' = ran
    BY <1>6 DEF RanStep, FirstCall
  <2>2. \/ pc' = "loop" /\ r \in {"OK", "HALT"} /\ result' = result
        \/ pc' = "finished" /\ result' = "ERROR"
    BY <1>6 DEF StepReturns, Finish
  <2> QED
    BY <1>2, <1>6, <2>1, <2>2 DEF FailureSeen
<1>7. CASE RanStep /\ \/ StepBegins \/ GenDone
                      \/ \E o \in Vals \union {AllocSkip, AllocError} : GenArg(o)
  <2>1. /\ pc \in {"loop", "gen"} /\ pc' \in {"gen_pre", "gen", "gen_post", "trial_pre"}
        /\ result' = result
    BY <1>7, RunnerAssumption DEF StepBegins, GenDone, GenArg, loopVars
  <2>2. counters' = counters \/ Count("skip") \/ Count("dup")
    BY <1>7, RunnerAssumption DEF StepBegins, GenDone, GenArg
  <2> QED
    BY <1>4, <1>5, <1>7, <2>1, <2>2 DEF RanStep, FirstCall
<1>8. ASSUME RanStep, NEW h,
             \/ GenPostHook(h) \/ TrialPreHook(h) \/ TrialPostHookRuns(h)
             \/ CounterexampleHook(h) \/ ReportHook(h) \/ RereportHook(h)
      PROVE  FailureSeen'
  <2>1. /\ pc \in {"gen_post", "trial_pre", "trial_post"} \union Reporting
        /\ UNCHANGED <<result, counters>>
    BY <1>8 DEF GenPostHook, TrialPreHook, TrialPostHookRuns, CounterexampleHook,
       ReportHook, RereportHook, loopVars
  <2>2. pc' \in {"trial", "free"} \union Reporting
    BY <1>8 DEF GenPostHook, TrialPreHook, TrialPostHookRuns, CounterexampleHook,
       ReportHook, RereportHook, Reported, Settle
  <2> QED
    BY <1>4, <1>8, <2>1, <2>2 DEF RanStep, FirstCall
<1>9. ASSUME RanStep, NEW r \in {"PASS", "FAIL", "SKIP", "ERROR"}, Trial(r)
      PROVE  FailureSeen'
  <2>1. pc = "trial" /\ ran' = ran \union {args} /\ result' = result /\ r \in Says
    BY <1>9 DEF Trial, RanStep, FirstCall
  <2>2. CASE r = "FAIL"
    <3>1. pc' = "arg" /\ counters' = counters
      BY <1>9, <2>2 DEF Trial, StartShrink
    <3> QED
      BY <2>1, <3>1 DEF FailureSeen
  <2>3. CASE r # "FAIL"
    <3>1. args \notin fails
      BY <2>1, <2>3 DEF Says
    <3>2. pc' = "trial_post" /\ (counters' = counters \/ Count("pass") \/ Count("skip"))
      BY <1>9, <2>3 DEF Trial
    <3>3. counters'.fail = counters.fail
      BY <1>5, <3>2
    <3> QED
      BY <1>2, <2>1, <3>1, <3>2, <3>3 DEF FailureSeen
  <2> QED
    BY <2>2, <2>3
<1>10. ASSUME RanStep, NEW r \in {"PASS", "FAIL", "SKIP", "ERROR"}, Rerun(r)
       PROVE  FailureSeen'
  <2>1. pc = "rerun" /\ pc' \in {"rereport", "free"} /\ UNCHANGED <<result, counters>>
    BY <1>10 DEF Rerun, Settle, loopVars
  <2> QED
    BY <1>4, <1>10, <2>1 DEF RanStep, FirstCall
<1>11. ASSUME ShrinkFailed, RanStep PROVE FailureSeen'
  <2>1. /\ pc = "done" /\ pc' = "free" /\ step' = "TRIAL_ERROR"
        /\ UNCHANGED <<result, counters>>
    BY <1>11 DEF ShrinkFailed, Settle
  <2> QED
    BY <2>1 DEF FailureSeen
<1>12. ASSUME ShrinkDone, RanStep PROVE FailureSeen'
  <2>1. pc = "done" /\ pc' = "counterexample" /\ result' = result /\ Count("fail")
    BY <1>12 DEF ShrinkDone
  <2>2. counters'.fail = counters.fail + 1
    BY <2>1 DEF Count, Counting, Names
  <2> QED
    BY <1>1, <2>1, <2>2 DEF FailureSeen
<1>13. ASSUME NEW h, RunPreHook(h), RanStep PROVE FailureSeen'
  <2>1. /\ pc = "run_pre" /\ counters' = counters /\ ran' = ran
        /\ \/ pc' = "loop" /\ result' = result
           \/ pc' = "finished" /\ result' = "ERROR"
    BY <1>13 DEF RunPreHook, Finish, RanStep, FirstCall
  <2> QED
    BY <1>2, <2>1 DEF FailureSeen
<1>14. ASSUME NEW h, RunPostHook(h), RanStep PROVE FailureSeen'
  <2>1. /\ pc = "loop" /\ counters' = counters /\ ran' = ran /\ pc' = "finished"
        /\ result' \in {"ERROR", RunResult}
    BY <1>14 DEF RunPostHook, Finish, RanStep, FirstCall
  <2>2. counters.fail > 0 => result' \in {"ERROR", "FAIL"}
    BY <2>1 DEF RunResult
  <2> QED
    BY <1>1, <1>2, <2>1, <2>2 DEF FailureSeen
<1>15. ASSUME RanStep, FreeArgs \/ \E a : EnvFails(a) PROVE FailureSeen'
  <2>1. CASE FreeArgs
    <3>1. pc = "free" /\ StepReturns(step) /\ counters' = counters /\ step \in StepResults
      BY <2>1 DEF FreeArgs, RunTypes
    <3> QED
      BY <1>6, <1>15, <3>1
  <2>2. ASSUME NEW a, EnvFails(a) PROVE FailureSeen'
    <3>1. pc = "loop" /\ StepReturns("GEN_ERROR") /\ counters' = counters
      BY <2>2 DEF EnvFails
    <3> QED
      BY <1>6, <1>15, <3>1
  <2> QED
    BY <1>15, <2>1, <2>2
<1>16. ASSUME RanStep, NEW h, GenArgsPreHook(h) PROVE FailureSeen'
  <2>1. CASE h = "CONTINUE"
    <3>1. pc = "gen_pre" /\ pc' = "gen" /\ UNCHANGED <<result, counters>>
      BY <1>16, <2>1 DEF GenArgsPreHook
    <3> QED
      BY <1>4, <1>16, <3>1 DEF RanStep, FirstCall
  <2>2. CASE h # "CONTINUE"
    <3>1. /\ pc = "gen_pre" /\ counters' = counters
          /\ StepReturns(IF h = "HALT" THEN "HALT" ELSE "GEN_ERROR")
      BY <1>16, <2>2 DEF GenArgsPreHook
    <3> QED
      BY <1>6, <1>16, <3>1
  <2> QED
    BY <2>1, <2>2
<1>17. CASE UNCHANGED vars
  BY <1>17 DEF vars, shrinkVars, runVars, FailureSeen
<1> QED
  BY <1>3, <1>7, <1>8, <1>9, <1>10, <1>11, <1>12, <1>13, <1>14, <1>15, <1>16, <1>17
  DEF Step, Over, RunStep, RanStep

-----------------------------------------------------------------------------
(* The heap.  While theft_shrink runs, Inv of ShrinkProofs says what is    *)
(* allocated besides the environments; at other times of a trial it is     *)
(* what theft_trial_free_args is going to free.                            *)

Envs == {Env(a) : a \in AutoArgs}
Slots == [ArgIds -> Vals \union {Null}]

(* The locals of theft_shrink have their types at any time.                *)
LocalTypes ==
  /\ argi \in 1 .. Arity + 1 /\ progress \in BOOLEAN /\ ok \in BOOLEAN
  /\ InnerTypes
  /\ args \in Slots /\ pool \in Slots
  /\ misuse \subseteq {"bad_free", "free_null", "use_freed"}
  /\ fails \subseteq Tuples
  /\ called \subseteq Tuples /\ forgotten \subseteq Tuples

(***************************************************************************)
(* No gen_args_pre hook stops the run, and an environment that cannot be   *)
(* allocated is the only one: otherwise, see the run RunnerLeak.           *)
(***************************************************************************)
NeverLeft ==
  /\ Answers("gen_args_pre") \subseteq {"CONTINUE"}
  /\ MemFails => \A a, b \in AutoArgs : a = b

(* The arguments before argi have an instance each, the others nothing.    *)
GeneratedSoFar ==
  \A a \in ArgIds :
    IF a < argi THEN args[a] \in Vals /\ pool[a] = PoolOf(a, args[a])
                ELSE args[a] = Null /\ pool[a] = Null

HeapParts ==
  /\ pc \in Between \union {"gen_pre"} => args = NoArgs /\ pool = NoArgs
  /\ pc \in {"run_pre", "loop"} => heap = {} \/ (trial > limit /\ ~ NeverLeft)
  /\ pc = "finished" => heap = {} \/ ~ NeverLeft
  /\ pc = "gen" => GeneratedSoFar
  /\ pc \in OnTrial \union Reporting => args \in Tuples /\ PoolFollows
  /\ pc \notin Between \union ShrinkPcs => heap = TrialObjects
  /\ pc \in ShrinkPcs => Inv /\ heap \ Heap = Envs

RunMemory ==
  /\ LocalTypes
  /\ MemorySafe
  /\ HeapParts
  /\ Deterministic /\ pc \in Reporting => args \in fails

LEMMA EnvsOutside == Envs \intersect Heap = {}
<1> SUFFICES ASSUME NEW a \in AutoArgs, Env(a) \in Heap PROVE FALSE
  BY DEF Envs
<1>1. Env(a)[1] = "env"
  BY DEF Env
<1>2. \A x \in Heap : x[1] \in {"inst", "pool"}
  BY DEF Heap
<1> QED
  BY <1>1, <1>2

(* With all arguments generated, what the trial frees is what they own.    *)
LEMMA TrialHolds ==
  ASSUME args \in Tuples, PoolFollows
  PROVE  TrialObjects = Envs \union Holding(args)
<1>1. \A a \in ArgIds : args[a] \in Vals /\ args[a] # Null
  BY ShrinkAssumption DEF Tuples
<1>2. \A a \in ArgIds : pool[a] # Null <=> a \in AutoArgs
  BY <1>1 DEF PoolFollows, PoolOf
<1>3. \A a \in AutoArgs : a \in ArgIds /\ pool[a] = args[a]
  BY ShrinkAssumption DEF PoolFollows, PoolOf
<1>4. \A x : x \in TrialObjects <=>
         \/ x \in Envs
         \/ \E a \in AutoArgs : x = Pool(a, args[a])
         \/ \E a \in ArgIds : x = Inst(a, args[a])
  BY <1>1, <1>2, <1>3 DEF TrialObjects, Envs
<1>5. \A x : x \in Holding(args) <=>
         \E a \in ArgIds : x = Inst(a, args[a]) \/ (a \in AutoArgs /\ x = Pool(a, args[a]))
  <2>1. \A a \in ArgIds : \A x : x \in Owned(a, args[a]) <=>
          x = Inst(a, args[a]) \/ (a \in AutoArgs /\ x = Pool(a, args[a]))
    BY <1>1, OwnedMembers
  <2> QED
    BY <2>1, HoldingMembers
<1> QED
  BY <1>3, <1>4, <1>5

LEMMA TrialMine ==
  ASSUME args \in Tuples, PoolFollows, heap = TrialObjects
  PROVE  Mine = Holding(args) /\ heap \ Heap = Envs
<1>1. Holding(args) \subseteq Heap
  <2> SUFFICES ASSUME NEW x \in Holding(args) PROVE x \in Heap
    OBVIOUS
  <2>1. PICK a \in ArgIds : x \in Owned(a, args[a])
    BY HoldingMembers
  <2> QED
    BY <2>1, OwnedTypes DEF Tuples
<1> QED
  BY <1>1, TrialHolds, EnvsOutside DEF Mine

(* The property is given live instances.                                   *)
LEMMA CallSafe ==
  ASSUME args \in Tuples, heap = TrialObjects, CallUses
  PROVE  misuse' = misuse
<1>1. \A a \in ArgIds : args[a] # Null
  BY ShrinkAssumption DEF Tuples
<1>2. \A a \in ArgIds : Inst(a, args[a]) \in heap
  BY <1>1 DEF TrialObjects
<1> QED
  BY <1>2 DEF CallUses

LEMMA InitMemory == Init => RunMemory
<1> SUFFICES ASSUME Init PROVE RunMemory
  OBVIOUS
<1>1. Arity \in Nat /\ MaxTactics \in Nat /\ 1 \in 1 .. Arity + 1
  BY ShrinkAssumption
<1>2. InnerTypes
  <2>1. /\ tactic = 0 /\ current = Null /\ curPool = Null /\ candidate = Null
        /\ candPool = Null /\ sres = "none" /\ res = "none" /\ repeated = FALSE
    BY DEF Init
  <2>2. repeated \in BOOLEAN
    BY <2>1, Zenon
  <2>3. tactic \in 0 .. MaxTactics /\ res \in Results
    BY <1>1, <2>1 DEF Results
  <2> QED
    BY <2>1, <2>2, <2>3 DEF InnerTypes
<1>3. NoArgs \in Slots
  BY DEF NoArgs, Slots
<1>4. LocalTypes
  BY <1>1, <1>2, <1>3 DEF Init, LocalTypes
<1>5. HeapParts /\ MemorySafe
  BY DEF Init, HeapParts, MemorySafe
<1> QED
  BY <1>4, <1>5 DEF RunMemory, Init

LEMMA MemoryShrink ==
  ASSUME RunMemory, ShrinkStep PROVE RunMemory'
<1>1. pc \in ShrinkPcs /\ pc' \in ShrinkPcs
  BY ShrinkPc
<1>2. Inv /\ heap \ Heap = Envs
  BY <1>1 DEF RunMemory, HeapParts
<1>3. Inv' /\ heap' \ Heap = Envs
  BY <1>2, InvStep, AroundKept
<1>4. HeapParts'
  BY <1>1, <1>3 DEF HeapParts
<1>5. MemorySafe' /\ HeapTypes' /\ OuterTypes' /\ InnerTypes'
  BY <1>3 DEF Inv, Types, Rest
<1>6. args' \in Slots
  BY <1>5 DEF HeapTypes, Tuples, Slots
<1>7. LocalTypes'
  BY <1>5, <1>6 DEF LocalTypes, HeapTypes, OuterTypes, Slots
<1> QED
  BY <1>1, <1>4, <1>5, <1>7 DEF RunMemory

(* A step of the run that touches neither the locals of theft_shrink nor   *)
(* the heap.                                                               *)
LEMMA MemoryCalm ==
  ASSUME RunMemory, UNCHANGED <<heapVars, fails, filter, outerVars, innerVars>>,
         pc' \notin ShrinkPcs \union Between \union {"gen"},
         pc \notin ShrinkPcs \union Between,
         pc' \notin {"gen_pre"},
         pc' \in OnTrial => pc \in OnTrial,
         pc' \in Reporting => pc \in Reporting
  PROVE  RunMemory'
<1>1. LocalTypes'
  BY DEF RunMemory, LocalTypes, InnerTypes, heapVars, outerVars, innerVars
<1>2. TrialObjects' = TrialObjects
  BY DEF TrialObjects, heapVars
<1>3. HeapParts'
  BY <1>2 DEF RunMemory, HeapParts, PoolFollows, heapVars
<1>4. MemorySafe' /\ Deterministic' = Deterministic
  BY DEF RunMemory, MemorySafe, heapVars, Deterministic
<1> QED
  BY <1>1, <1>3, <1>4 DEF RunMemory, heapVars

(* The hooks and the results of trials.                                    *)
LEMMA MemoryHooks ==
  ASSUME RunMemory, NEW h,
         \/ GenPostHook(h) \/ TrialPreHook(h) \/ TrialPostHookRuns(h)
         \/ CounterexampleHook(h) \/ ReportHook(h) \/ RereportHook(h)
  PROVE  RunMemory'
<1>1. UNCHANGED <<heapVars, fails, filter, outerVars, innerVars>>
  BY DEF GenPostHook, TrialPreHook, TrialPostHookRuns, CounterexampleHook, ReportHook,
     RereportHook
<1>2. \/ pc \in {"gen_post", "trial_post"} /\ pc' = "free"
      \/ pc = "trial_pre" /\ pc' \in {"trial", "free"}
      \/ pc \in Reporting /\ pc' \in Reporting \union {"free"}
  BY DEF GenPostHook, TrialPreHook, TrialPostHookRuns, CounterexampleHook, ReportHook,
     RereportHook, Reported, Settle
<1> QED
  BY <1>1, <1>2, MemoryCalm

LEMMA MemoryRerun ==
  ASSUME RunMemory, NEW r \in {"PASS", "FAIL", "SKIP", "ERROR"}, Rerun(r)
  PROVE  RunMemory'
<1>1. /\ pc = "rerun" /\ pc' \in {"rereport", "free"} /\ CallUses
      /\ UNCHANGED <<args, pool, heap, fails, filter, outerVars, innerVars>>
  BY DEF Rerun, Settle
<1>2. args \in Tuples /\ heap = TrialObjects
  BY <1>1 DEF RunMemory, HeapParts
<1>3. UNCHANGED heapVars
  BY <1>1, <1>2, CallSafe DEF heapVars
<1> QED
  BY <1>1, <1>3, MemoryCalm

LEMMA MemoryTrial ==
  ASSUME RunMemory, NEW r \in {"PASS", "FAIL", "SKIP", "ERROR"}, Trial(r)
  PROVE  RunMemory'
<1>1. /\ pc = "trial" /\ MarkCalled(args) /\ CallUses
      /\ UNCHANGED <<args, pool, heap, fails, ok, innerVars>>
      /\ r \in Says
  BY DEF Trial
<1>2. args \in Tuples /\ PoolFollows /\ heap = TrialObjects
  BY <1>1 DEF RunMemory, HeapParts
<1>3. misuse' = misuse
  BY <1>1, <1>2, CallSafe
<1>4. args' \in Tuples /\ PoolFollows' /\ heap' = TrialObjects' /\ MemorySafe'
  BY <1>1, <1>2, <1>3 DEF PoolFollows, TrialObjects, RunMemory, MemorySafe
<1>5. \/ pc' = "trial_post" /\ UNCHANGED <<argi, progress>>
      \/ pc' = "arg" /\ argi' = 1 /\ progress' = FALSE /\ r = "FAIL"
  BY DEF Trial, StartShrink
<1>6. called' \subseteq Tuples /\ forgotten' \subseteq Tuples
  BY <1>1, <1>2 DEF MarkCalled, RunMemory, LocalTypes
<1>7. argi' \in 1 .. Arity + 1 /\ progress' \in BOOLEAN
  <2>1. Arity \in Nat \ {0} /\ argi \in 1 .. Arity + 1 /\ progress \in BOOLEAN
    BY ShrinkAssumption DEF RunMemory, LocalTypes
  <2>2. argi' \in 1 .. Arity + 1
    BY <1>5, <2>1
  <2>3. progress' \in BOOLEAN
    BY <1>5, <2>1, Zenon
  <2> QED
    BY <2>2, <2>3
<1>8. LocalTypes'
  BY <1>1, <1>3, <1>6, <1>7 DEF RunMemory, LocalTypes, InnerTypes, innerVars
<1>9. CASE pc' = "trial_post"
  BY <1>4, <1>8, <1>9 DEF RunMemory, HeapParts
<1>10. CASE pc' = "arg" /\ r = "FAIL"
  <2>1. Deterministic => args' \in fails'
    BY <1>1, <1>10 DEF Says, Deterministic
  <2>2. Mine' = Holding(args') /\ heap' \ Heap = Envs
    <3>1. Mine = Holding(args) /\ heap \ Heap = Envs
      BY <1>2, TrialMine
    <3> QED
      BY <1>1, <3>1, MineUnchanged
  <2>3. Rest'
    BY <1>4, <1>10, <2>1, <2>2, Calm
  <2>4. HeapTypes' /\ OuterTypes' /\ InnerTypes'
    BY <1>4, <1>8, <1>10 DEF LocalTypes, HeapTypes, OuterTypes, Slots
  <2>5. Inv'
    BY <2>3, <2>4 DEF Inv, Types
  <2>6. HeapParts'
    BY <1>10, <2>2, <2>5 DEF HeapParts
  <2> QED
    BY <1>4, <1>8, <1>10, <2>6 DEF RunMemory
<1> QED
  BY <1>5, <1>9, <1>10

LEMMA MemoryShrunk ==
  ASSUME RunMemory, ShrinkFailed \/ ShrinkDone PROVE RunMemory'
<1>1. /\ pc = "done" /\ UNCHANGED <<heapVars, fails, filter, outerVars, innerVars>>
      /\ \/ pc' = "free"
         \/ pc' = "counterexample" /\ ok
  BY DEF ShrinkFailed, ShrinkDone, Settle
<1>2. Inv /\ heap \ Heap = Envs
  BY <1>1 DEF RunMemory, HeapParts
<1>3. args \in Tuples /\ PoolFollows /\ Mine = Holding(args)
  BY <1>1, <1>2 DEF Inv, Types, HeapTypes, Rest, HeapOwned, Extra, HasCandidate, Trying
<1>4. heap = TrialObjects
  BY <1>2, <1>3, TrialHolds DEF Mine
<1>5. args' \in Tuples /\ PoolFollows' /\ heap' = TrialObjects'
  BY <1>1, <1>3, <1>4 DEF PoolFollows, TrialObjects, heapVars
<1>6. LocalTypes' /\ MemorySafe'
  BY <1>1 DEF RunMemory, LocalTypes, InnerTypes, MemorySafe, heapVars, outerVars, innerVars
<1>7. HeapParts'
  BY <1>1, <1>5 DEF HeapParts
<1>8. ok /\ Deterministic => args' \in fails'
  BY <1>1, <1>2 DEF Inv, Rest, FailureKept, heapVars
<1> QED
  BY <1>1, <1>6, <1>7, <1>8 DEF RunMemory, Deterministic

(* run_step returns, with the heap as the trial left it.                   *)
LEMMA MemoryReturns ==
  ASSUME RunMemory, RunTypes, pc \notin {"run_pre", "finished"}, trial < limit,
         NEW r \in StepResults, StepReturns(r),
         UNCHANGED <<fails, filter, misuse, outerVars, innerVars>>,
         heap' = {} \/ (r # "OK" /\ ~ NeverLeft)
  PROVE  RunMemory'
<1>1. args' = NoArgs /\ pool' = NoArgs
  BY DEF StepReturns
<1>2. LocalTypes'
  BY <1>1 DEF RunMemory, LocalTypes, InnerTypes, outerVars, innerVars, NoArgs, Slots
<1>3. \/ pc' = "loop" /\ (r = "HALT" => trial' = trial + 1 /\ limit' = trial)
      \/ pc' = "finished"
  BY DEF StepReturns, NextTrial, Finish
<1>4. r \in {"GEN_ERROR", "TRIAL_ERROR"} => pc' = "finished"
  BY DEF StepReturns, Finish
<1>5. heap' = {} \/ ~ NeverLeft
  OBVIOUS
<1>6. r = "HALT" => trial' > limit'
  <2>1. trial \in Nat
    BY RunnerAssumption DEF RunTypes
  <2>2. r = "HALT" => trial' = trial + 1 /\ limit' = trial
    BY DEF StepReturns, NextTrial
  <2> QED
    BY <2>1, <2>2
<1>7. pc' = "loop" => heap' = {} \/ (trial' > limit' /\ ~ NeverLeft)
  BY <1>4, <1>6
<1>8. HeapParts'
  BY <1>1, <1>3, <1>5, <1>7 DEF HeapParts
<1> QED
  BY <1>2, <1>3, <1>8 DEF RunMemory, MemorySafe

LEMMA MemoryLoop ==
  ASSUME RunMemory, RunTypes, Counting,
         \/ StepBegins \/ FreeArgs
         \/ \E a \in AutoArgs : EnvFails(a)
         \/ \E h : RunPreHook(h) \/ RunPostHook(h)
         \/ \E h \in Answers("gen_args_pre") : GenArgsPreHook(h)
  PROVE  RunMemory'
<1>1. trial \in Int /\ limit \in Int
  BY RunnerAssumption DEF RunTypes
<1>2. CASE StepBegins
  <2>1. /\ pc = "loop" /\ trial < limit /\ pc' = "gen_pre" /\ heap' = heap \union Envs
        /\ UNCHANGED <<args, pool, misuse, fails, filter, outerVars, innerVars>>
    BY <1>2 DEF StepBegins, TrialsLeft, Envs
  <2>2. heap = {} /\ args = NoArgs /\ pool = NoArgs
    BY <1>1, <2>1 DEF RunMemory, HeapParts
  <2>3. LocalTypes' /\ MemorySafe'
    BY <2>1 DEF RunMemory, LocalTypes, InnerTypes, MemorySafe, outerVars, innerVars
  <2>4. heap' = TrialObjects'
    <3>1. \A a \in ArgIds : args'[a] = Null /\ pool'[a] = Null
      BY <2>1, <2>2 DEF NoArgs
    <3>2. AutoArgs \subseteq ArgIds
      BY ShrinkAssumption
    <3> QED
      BY <2>1, <2>2, <3>1, <3>2 DEF TrialObjects, Envs
  <2>5. HeapParts'
    BY <2>1, <2>2, <2>4 DEF HeapParts
  <2> QED
    BY <2>1, <2>3, <2>5 DEF RunMemory
<1>3. CASE FreeArgs
  <2>1. /\ pc = "free" /\ Free(TrialObjects) /\ StepReturns(step) /\ step \in StepResults
        /\ UNCHANGED <<fails, filter, outerVars, innerVars>>
    BY <1>3 DEF FreeArgs, RunTypes
  <2>2. trial < limit /\ heap = TrialObjects
    BY <2>1 DEF Counting, RunMemory, HeapParts
  <2>3. heap' = {} /\ misuse' = misuse
    BY <2>1, <2>2 DEF Free
  <2> QED
    BY <2>1, <2>2, <2>3, MemoryReturns
<1>4. ASSUME NEW a \in AutoArgs, EnvFails(a) PROVE RunMemory'
  <2>1. /\ pc = "loop" /\ trial < limit /\ MemFails /\ StepReturns("GEN_ERROR")
        /\ heap' = heap \union {Env(b) : b \in {x \in AutoArgs : x < a}}
        /\ UNCHANGED <<misuse, fails, filter, outerVars, innerVars>>
    BY <1>4 DEF EnvFails, TrialsLeft
  <2>2. heap = {}
    BY <1>1, <2>1 DEF RunMemory, HeapParts
  <2>3. a \in Int
    BY ShrinkAssumption DEF ArgIds
  <2>4. NeverLeft => heap' = {}
    <3> SUFFICES ASSUME NeverLeft PROVE {x \in AutoArgs : x < a} = {}
      BY <2>1, <2>2
    <3>1. \A x \in AutoArgs : x = a
      BY <2>1 DEF NeverLeft
    <3>2. \A x \in AutoArgs : ~ (x < a)
      BY <2>3, <3>1
    <3> QED
      BY <3>2
  <2> QED
    BY <2>1, <2>4, MemoryReturns
<1>5. ASSUME NEW h, RunPreHook(h) \/ RunPostHook(h) PROVE RunMemory'
  <2>1. /\ UNCHANGED <<heapVars, fails, filter, outerVars, innerVars, trial, limit>>
        /\ pc \in {"run_pre", "loop"} /\ pc' \in {"loop", "finished"}
    BY <1>5 DEF RunPreHook, RunPostHook, Finish, loopVars
  <2>2. LocalTypes' /\ MemorySafe'
    BY <2>1 DEF RunMemory, LocalTypes, InnerTypes, MemorySafe, heapVars, outerVars,
       innerVars
  <2>3. HeapParts'
    BY <2>1 DEF RunMemory, HeapParts, heapVars
  <2> QED
    BY <2>1, <2>2, <2>3 DEF RunMemory
<1>6. ASSUME NEW h \in Answers("gen_args_pre"), GenArgsPreHook(h) PROVE RunMemory'
  <2>1. pc = "gen_pre" /\ trial < limit /\ heap = TrialObjects
    BY <1>6 DEF GenArgsPreHook, Counting, RunMemory, HeapParts
  <2>2. CASE h = "CONTINUE"
    <3>1. /\ pc' = "gen" /\ argi' = 1
          /\ UNCHANGED <<args, pool, heap, misuse, fails, filter, progress, ok, innerVars>>
      BY <1>6, <2>2 DEF GenArgsPreHook
    <3>2. Arity \in Nat /\ 1 \in 1 .. Arity + 1
      BY ShrinkAssumption
    <3>3. LocalTypes' /\ MemorySafe'
      BY <3>1, <3>2 DEF RunMemory, LocalTypes, InnerTypes, MemorySafe, innerVars
    <3>4. \A a \in ArgIds : args[a] = Null /\ pool[a] = Null
      BY <2>1 DEF RunMemory, HeapParts, NoArgs
    <3>5. GeneratedSoFar'
      BY <3>1, <3>2, <3>4 DEF GeneratedSoFar, ArgIds
    <3>6. heap' = TrialObjects'
      BY <2>1, <3>1 DEF TrialObjects
    <3>7. HeapParts'
      BY <3>1, <3>5, <3>6 DEF HeapParts
    <3> QED
      BY <3>1, <3>3, <3>7 DEF RunMemory
  <2>3. CASE h # "CONTINUE"
    <3>1. PICK r \in {"HALT", "GEN_ERROR"} : StepReturns(r)
      BY <1>6, <2>3 DEF GenArgsPreHook
    <3>2. UNCHANGED <<heap, misuse, fails, filter, outerVars, innerVars>>
      BY <1>6, <2>3 DEF GenArgsPreHook, outerVars
    <3>3. ~ NeverLeft
      BY <2>3 DEF NeverLeft
    <3> QED
      BY <2>1, <3>1, <3>2, <3>3, MemoryReturns
  <2> QED
    BY <2>2, <2>3
<1> QED
  BY <1>2, <1>3, <1>4, <1>5, <1>6

(* What the arguments get is what the trial is going to free.              *)
LEMMA SlotFilled ==
  ASSUME args \in Slots, pool \in Slots, NEW a \in ArgIds,
         NEW o \in Vals \union {Null}, NEW b \in Vals \union {Null},
         args[a] = Null, pool[a] = Null, a \notin AutoArgs => b = Null,
         args' = [args EXCEPT ![a] = o], pool' = [pool EXCEPT ![a] = b]
  PROVE  /\ args' \in Slots /\ pool' \in Slots
         /\ TrialObjects' = TrialObjects \union (IF o = Null THEN {} ELSE {Inst(a, o)})
                                        \union (IF b = Null THEN {} ELSE {Pool(a, b)})
<1>1. args' \in Slots /\ pool' \in Slots
  BY DEF Slots
<1>2. /\ args'[a] = o /\ pool'[a] = b
      /\ \A c \in ArgIds : c # a => args'[c] = args[c] /\ pool'[c] = pool[c]
  BY DEF Slots
<1>3. AutoArgs \subseteq ArgIds
  BY ShrinkAssumption
<1>4. {Inst(c, args'[c]) : c \in {d \in ArgIds : args'[d] # Null}} =
        {Inst(c, args[c]) : c \in {d \in ArgIds : args[d] # Null}}
          \union (IF o = Null THEN {} ELSE {Inst(a, o)})
  BY <1>2
<1>5. {Pool(c, pool'[c]) : c \in {d \in AutoArgs : pool'[d] # Null}} =
        {Pool(c, pool[c]) : c \in {d \in AutoArgs : pool[d] # Null}}
          \union (IF b = Null THEN {} ELSE {Pool(a, b)})
  BY <1>2, <1>3
<1> QED
  BY <1>1, <1>4, <1>5 DEF TrialObjects

LEMMA MemoryGen ==
  ASSUME RunMemory, NEW o \in Vals \union {AllocSkip, AllocError}, GenArg(o)
  PROVE  RunMemory'
<1> DEFINE b == IF argi \notin AutoArgs THEN Null
                ELSE IF o \in Vals THEN o ELSE CHOOSE v \in Vals : TRUE
           new == IF o \in Vals THEN o ELSE Null
<1>1. /\ pc = "gen" /\ argi <= Arity
      /\ pool' = [pool EXCEPT ![argi] = b]
      /\ heap' = heap \union (IF o \in Vals THEN {Inst(argi, o)} ELSE {})
                      \union (IF b = Null THEN {} ELSE {Pool(argi, b)})
      /\ UNCHANGED <<misuse, fails, filter, progress, ok, innerVars>>
  BY DEF GenArg
<1>2. /\ o \in Vals => args' = [args EXCEPT ![argi] = o] /\ argi' = argi + 1 /\ pc' = pc
      /\ o \notin Vals => args' = args /\ argi' = argi /\ pc' = "gen_post"
  <2>1. AllocSkip # AllocError /\ AllocSkip \notin Vals /\ AllocError \notin Vals
    BY RunnerAssumption
  <2> QED
    BY <2>1 DEF GenArg
<1>3. argi \in ArgIds /\ argi \in Nat /\ Arity \in Nat /\ argi + 1 \in 1 .. Arity + 1
  BY <1>1, ShrinkAssumption DEF RunMemory, LocalTypes, ArgIds
<1>4. /\ args \in Slots /\ pool \in Slots /\ GeneratedSoFar /\ heap = TrialObjects
      /\ args[argi] = Null /\ pool[argi] = Null
  <2>1. args \in Slots /\ pool \in Slots /\ GeneratedSoFar /\ heap = TrialObjects
    BY <1>1 DEF RunMemory, LocalTypes, HeapParts
  <2> QED
    BY <1>3, <2>1 DEF GeneratedSoFar
<1>5. (CHOOSE v \in Vals : TRUE) \in Vals
  BY RunnerAssumption
<1>6. b \in Vals \union {Null} /\ new \in Vals \union {Null} /\ Null \notin Vals
  BY <1>5, ShrinkAssumption
<1>7. args' = [args EXCEPT ![argi] = new]
  <2>1. CASE o \in Vals
    BY <1>2, <2>1
  <2>2. CASE o \notin Vals
    <3>1. [args EXCEPT ![argi] = Null] = args
      BY <1>4 DEF Slots
    <3> QED
      BY <1>2, <2>2, <3>1
  <2> QED
    BY <2>1, <2>2
<1>8. argi \notin AutoArgs => b = Null
  OBVIOUS
<1>9. o \in Vals => b = PoolOf(argi, o)
  BY DEF PoolOf
<1>10. o \in Vals <=> new # Null
  BY <1>6
<1>11. /\ args' \in Slots /\ pool' \in Slots
       /\ TrialObjects' = TrialObjects \union (IF new = Null THEN {} ELSE {Inst(argi, new)})
                                      \union (IF b = Null THEN {} ELSE {Pool(argi, b)})
  <2> HIDE DEF b, new
  <2> QED
    BY <1>1, <1>3, <1>4, <1>6, <1>7, <1>8, SlotFilled
<1>12. heap' = TrialObjects'
  BY <1>1, <1>4, <1>10, <1>11
<1>13. LocalTypes' /\ MemorySafe'
  BY <1>1, <1>2, <1>3, <1>11 DEF RunMemory, LocalTypes, InnerTypes, MemorySafe, innerVars
<1>14. o \in Vals => GeneratedSoFar'
  <2> SUFFICES ASSUME o \in Vals, NEW a \in ArgIds
               PROVE  IF a < argi' THEN args'[a] \in Vals /\ pool'[a] = PoolOf(a, args'[a])
                                   ELSE args'[a] = Null /\ pool'[a] = Null
    BY DEF GeneratedSoFar, PoolOf
  <2>1. a \in Int /\ argi' = argi + 1
    BY <1>2 DEF ArgIds
  <2>2. IF a < argi THEN args[a] \in Vals /\ pool[a] = PoolOf(a, args[a])
                    ELSE args[a] = Null /\ pool[a] = Null
    BY <1>4 DEF GeneratedSoFar
  <2>3. a = argi => args'[a] = o /\ pool'[a] = PoolOf(a, o)
    BY <1>1, <1>2, <1>3, <1>4, <1>9 DEF Slots
  <2>4. a # argi => args'[a] = args[a] /\ pool'[a] = pool[a]
    BY <1>1, <1>2, <1>3, <1>4 DEF Slots
  <2> QED
    BY <1>3, <2>1, <2>2, <2>3, <2>4
<1>15. HeapParts'
  BY <1>1, <1>2, <1>12, <1>14 DEF HeapParts
<1> QED
  BY <1>1, <1>2, <1>13, <1>15 DEF RunMemory

LEMMA MemoryGenDone ==
  ASSUME RunMemory, GenDone PROVE RunMemory'
<1>1. /\ pc = "gen" /\ argi > Arity
      /\ UNCHANGED <<heapVars, fails, filter, outerVars, innerVars>>
      /\ pc' \in {"gen_post", "trial_pre"}
  BY DEF GenDone
<1>2. args \in Slots /\ GeneratedSoFar /\ heap = TrialObjects
  BY <1>1 DEF RunMemory, LocalTypes, HeapParts
<1>3. \A a \in ArgIds : args[a] \in Vals /\ pool[a] = PoolOf(a, args[a])
  <2>1. Arity \in Nat /\ argi \in Int
    BY ShrinkAssumption DEF RunMemory, LocalTypes
  <2>2. \A a \in ArgIds : a < argi
    BY <1>1, <2>1 DEF ArgIds
  <2> QED
    BY <1>2, <2>2 DEF GeneratedSoFar
<1>4. args' \in Tuples /\ PoolFollows' /\ heap' = TrialObjects'
  BY <1>1, <1>2, <1>3 DEF Slots, Tuples, PoolFollows, TrialObjects, heapVars
<1>5. LocalTypes' /\ MemorySafe'
  BY <1>1 DEF RunMemory, LocalTypes, InnerTypes, MemorySafe, heapVars, outerVars, innerVars
<1>6. HeapParts'
  BY <1>1, <1>4 DEF HeapParts
<1> QED
  BY <1>1, <1>5, <1>6 DEF RunMemory

LEMMA MemoryStep ==
  RunTypes /\ Counting /\ RunMemory /\ [Step \/ Over]_vars => RunMemory'
<1> SUFFICES ASSUME RunTypes, Counting, RunMemory, [Step \/ Over]_vars
             PROVE  RunMemory'
  OBVIOUS
<1>1. CASE RunStep
  BY <1>1, MemoryLoop, MemoryGen, MemoryGenDone, MemoryHooks, MemoryTrial, MemoryRerun,
     MemoryShrunk DEF RunStep
<1>2. CASE ShrinkStep
  BY <1>2, MemoryShrink
<1>3. CASE UNCHANGED vars
  <2>1. UNCHANGED <<pc, args, pool, heap, misuse, fails, filter, argi, progress, ok,
                    tactic, current, curPool, candidate, candPool, sres, res, repeated,
                    trial, limit>>
    BY <1>3 DEF vars, shrinkVars, heapVars, outerVars, innerVars, runVars
  <2>2. LocalTypes' /\ MemorySafe'
    BY <2>1 DEF RunMemory, LocalTypes, InnerTypes, MemorySafe
  <2>3. TrialObjects' = TrialObjects
    BY <2>1 DEF TrialObjects
  <2>4. Inv => Inv'
    <3>1. UNCHANGED shrinkVars
      BY <1>3 DEF vars
    <3> QED
      BY <3>1, InvStep
  <2>5. HeapParts'
    BY <2>1, <2>3, <2>4 DEF RunMemory, HeapParts, GeneratedSoFar, PoolFollows
  <2> QED
    BY <2>1, <2>2, <2>5 DEF RunMemory
<1> QED
  BY <1>1, <1>2, <1>3 DEF Step, Over

-----------------------------------------------------------------------------
(* The theorems.                                                           *)

RunInv == /\ RunTypes /\ Counting /\ SeedsUsed
          /\ Marked /\ FailureSeen /\ RunMemory

LEMMA RunInvariant == Spec => []RunInv
<1>1. Init => RunInv
  <2>1. Init => Marked /\ FailureSeen
    BY DEF Init, Marked, FailureSeen
  <2> QED
    BY <2>1, InitCounting, InitSeeds, InitMemory DEF RunInv
<1>2. RunInv /\ [Step \/ Over]_vars => RunInv'
  BY CountingStep, SeedsStep, MarkedStep, FailureStep, MemoryStep DEF RunInv
<1> QED
  BY <1>1, <1>2, PTL DEF Spec

(* The variables of theft_run_trials, run_step and theft_trial_run.        *)
THEOREM RunTypeCorrect == Spec => []TypeOK
<1>1. RunInv => TypeOK
  <2> SUFFICES ASSUME RunInv PROVE TypeOK
    OBVIOUS
  <2>1. counters \in [Names -> 0 .. Trials]
    <3>1. Trials \in Nat
      BY RunnerAssumption
    <3> QED
      BY <3>1 DEF RunInv, Counting, Sum, Names
  <2> QED
    BY <2>1 DEF RunInv, RunTypes, RunMemory, LocalTypes, Slots, TypeOK, Names
<1> QED
  BY RunInvariant, <1>1, PTL

(***************************************************************************)
(* In a whole run nothing is freed twice or used after it was freed,       *)
(* whatever the callbacks and hooks answer and wherever the run is stopped.*)
(***************************************************************************)
THEOREM RunIsMemorySafe == Spec => []MemorySafe
<1>1. RunInv => MemorySafe
  BY DEF RunInv, RunMemory
<1> QED
  BY RunInvariant, <1>1, PTL

(***************************************************************************)
(* Nothing is left allocated between trials or after the run, unless       *)
(* gen_args_pre stops the run (src/src/theft_run.c:252-256) or the memory  *)
(* for an environment fails after another got its own.                     *)
(***************************************************************************)
THEOREM RunLeavesNothing ==
  ASSUME NeverLeft PROVE Spec => []NothingLeaks
<1>1. RunInv => NothingLeaks
  BY DEF RunInv, RunMemory, HeapParts, NothingLeaks
<1> QED
  BY RunInvariant, <1>1, PTL

(* What is reported makes the property fail.                               *)
THEOREM ReportsAreFailures == Spec => []ReportedFails
<1>1. RunInv => ReportedFails
  BY DEF RunInv, RunMemory, ReportedFails
<1> QED
  BY RunInvariant, <1>1, PTL

(* The report's counters account for each trial once.                      *)
THEOREM TrialsAreCounted == Spec => []EveryTrialCounted
<1>1. RunInv => EveryTrialCounted
  BY DEF RunInv, RunTypes, Counting, Sum, EveryTrialCounted
<1> QED
  BY RunInvariant, <1>1, PTL

(* A run that says PASS or SKIP never saw the property fail.               *)
THEOREM FailuresAreReported == Spec => []NoFailureLost
<1>1. RunInv => NoFailureLost
  BY DEF RunInv, FailureSeen, RunTypes, NoFailureLost
<1> QED
  BY RunInvariant, <1>1, PTL

(***************************************************************************)
(* With a bloom filter, however mistaken, the property is called on no     *)
(* tuple twice, in trials and in shrinking, but where the last mark of that*)
(* tuple was lost: a trial's arguments and a candidate passed the filter,  *)
(* and what was called before is in it or was lost.                        *)
(***************************************************************************)
THEOREM TuplesAreCalledOnce == Spec => NoTupleTwice
<1>1. RunInv /\ [Step \/ Over]_vars => [NewTuple]_vars
  <2> SUFFICES ASSUME RunInv, Step \/ Over, HasBloom, FirstCall', pc' # pc
               PROVE  args' \notin ran \ forgotten
    BY DEF NewTuple
  <2>1. ran \ forgotten \subseteq called
    BY DEF RunInv, Marked
  <2>2. pc' = "trial" \/ (pc' = "call" /\ ~ repeated')
    BY DEF FirstCall
  <2>3. ASSUME NEW h, PostHook(h) PROVE args' \notin called
    <3>1. TryCandidate
      BY <2>2, <2>3 DEF PostHook, PostHookErrs, NextTactic, NextArg, GiveUp, Return
    <3>2. Seen(args', FALSE)
      BY <2>2, <3>1 DEF TryCandidate, NextTactic
    <3> QED
      BY <3>2 DEF Seen
  <2>4. CASE ShrinkStep /\ ~ \E h : PostHook(h)
    <3>1. /\ pc' # "trial"
          /\ ~ \E h : TrialPostHook(h)
      BY <2>2, <2>4, ShrinkPc DEF ShrinkPcs, TrialPostHook, Revert, Commit, Abandon,
         NextTactic, SameArg, GiveUp, Return
    <3> QED
      BY <2>2, <2>4, <3>1 DEF ShrinkStep, ArgShrinkable, ArgSkipped, ArgsDone,
         TacticsSpent, PreHook, ShrinkCallback, ShrinkCall, StartShrink, Return,
         NextArg, GiveUp
  <2>5. CASE RunStep
    <3>1. pc' \in {"trial", "call"}
      BY <2>2
    <3>2. ~ (\/ StepBegins \/ ShrinkFailed \/ ShrinkDone \/ FreeArgs \/ GenDone
             \/ \E a : EnvFails(a)
             \/ \E o \in Vals \union {AllocSkip, AllocError} : GenArg(o))
      BY <2>2, RunnerAssumption DEF StepBegins, ShrinkFailed, ShrinkDone, FreeArgs,
         EnvFails, GenArg, GenDone, StepReturns, Finish, Settle
    <3>3. ~ \E h : \/ RunPreHook(h) \/ GenArgsPreHook(h) \/ RunPostHook(h)
                   \/ GenPostHook(h) \/ TrialPostHookRuns(h) \/ CounterexampleHook(h)
                   \/ ReportHook(h) \/ RereportHook(h)
      BY <3>1 DEF RunPreHook, GenArgsPreHook, RunPostHook, GenPostHook,
         TrialPostHookRuns, CounterexampleHook, ReportHook, RereportHook, Reported,
         StepReturns, Finish, Settle
    <3>4. ~ \E r \in {"PASS", "FAIL", "SKIP", "ERROR"} : Trial(r) \/ Rerun(r)
      BY <3>1 DEF Trial, Rerun, StartShrink, Settle
    <3>5. PICK h : TrialPreHook(h)
      BY <2>5, <3>2, <3>3, <3>4 DEF RunStep
    <3>6. pc = "trial_pre" /\ args' = args
      BY <3>5 DEF TrialPreHook, heapVars
    <3> QED
      BY <3>6 DEF RunInv, Marked
  <2>6. \/ ShrinkStep \/ RunStep
    BY DEF Step, Over, vars, shrinkVars
  <2> QED
    BY <2>1, <2>3, <2>4, <2>5, <2>6
<1> QED
  BY RunInvariant, <1>1, PTL DEF Spec, NoTupleTwice

(* The always seeds, and then the run seed, have been tried.               *)
THEOREM SeedsAreTried == Spec => []AlwaysSeedsTried
<1>1. RunInv => AlwaysSeedsTried
  <2> SUFFICES ASSUME RunInv, pc = "loop", trial >= limit, limit = Trials,
                      Trials > Len(AlwaysSeeds)
               PROVE  {AlwaysSeeds[k] : k \in 1 .. Len(AlwaysSeeds)} \union {RunSeed}
                        \subseteq used
    BY DEF AlwaysSeedsTried
  <2>1. Trials \in Nat /\ Len(AlwaysSeeds) \in Nat
    BY RunnerAssumption
  <2>2. trial = Trials
    BY <2>1 DEF RunInv, RunTypes, Counting
  <2>3. Tried(Trials)
    BY <2>1, <2>2 DEF RunInv, SeedsUsed
  <2> QED
    BY <2>1, <2>3 DEF Tried
<1> QED
  BY RunInvariant, <1>1, PTL
=============================================================================
