------------------------------- MODULE Entry -------------------------------
(***************************************************************************)
(* theft_generate and theft_run (src/src/theft.c): theft_run_init, the     *)
(* generation of arguments by the alloc callbacks of Builtins, seed by     *)
(* seed, and theft_run_free (src/src/theft_run.c).  What theft_run_trials  *)
(* does with the arguments is Runner's subject.                            *)
(***************************************************************************)
EXTENDS Builtins

CONSTANTS
  Configs,       \* what may be passed: see ConfigOK
  DefaultSeed,   \* DEFAULT_THEFT_SEED
  LaterSeeds,    \* the seeds a later trial may have
  MaxTrials      \* bounds the trials

(***************************************************************************)
(* A configuration: the entry point; type_info up to its first NULL, each  *)
(* with the callbacks that are set, whether it autoshrinks, its type and   *)
(* its env; the arities a property is given for; whether a seed is given;  *)
(* whether hooks.trial_post is the stock one.                              *)
(***************************************************************************)
ConfigOK(c) ==
  /\ c.entry \in {"generate", "run"}
  /\ c.entry = "generate" => c.props = {1} /\ c.stock /\ Len(c.args) <= 1
  /\ c.args \in Seq([type : Types, env : 0 .. 2^WordBits - 1, alloc : BOOLEAN,
                     shrink : BOOLEAN, hash : BOOLEAN, auto : BOOLEAN])

ASSUME EntryAssumption ==
  /\ \A c \in Configs : ConfigOK(c)
  /\ LaterSeeds \subseteq Seeds /\ DefaultSeed \in Seeds
  /\ MaxTrials \in Nat

VARIABLES
  cfg,       \* the configuration
  pc,        \* where theft_run or theft_generate is
  heap,      \* what theft_run_init allocated and nobody has freed
  misuse,    \* TRUE after a free of what was not allocated
  trial, argi,
  result     \* what theft_run or theft_generate returned

entryVars == <<cfg, pc, heap, misuse, trial, argi, result>>
vars == <<randomVars, allocVars, entryVars>>

Init ==
  /\ RandomInit(DefaultSeed)
  /\ AllocInit
  /\ cfg \in Configs
  /\ pc = "init" /\ heap = {} /\ misuse = FALSE
  /\ trial = 0 /\ argi = 1 /\ result = "none"

Free(objs) ==
  /\ heap' = heap \ objs
  /\ misuse' = (misuse \/ ~ (objs \subseteq heap))

Quiet == UNCHANGED <<randomVars, allocVars>>

Return(r) == pc' = "over" /\ result' = r

-----------------------------------------------------------------------------
(* theft_run_init.                                                         *)

Arity == Len(cfg.args)

(* check_all_args, and copy_propfun_for_arity.                             *)
ArgsChecked ==
  /\ Arity > 0
  /\ \A k \in 1 .. Arity : cfg.args[k].alloc /\ ~ (cfg.args[k].auto /\ cfg.args[k].shrink)
  /\ Arity \in cfg.props

AllHashable == \A k \in 1 .. Arity : cfg.args[k].hash \/ cfg.args[k].auto

(* struct theft, then the generator.                                       *)
InitMemory(ok) ==
  /\ pc = "init"
  /\ IF ok THEN heap' = {"t", "rng"} /\ pc' = "check" /\ UNCHANGED result
           ELSE Return("ERROR_MEMORY") /\ UNCHANGED heap
  /\ UNCHANGED <<cfg, misuse, trial, argi>> /\ Quiet

InitRefuses ==
  /\ pc = "check"
  /\ ~ ArgsChecked
  /\ Free({"t", "rng"})
  /\ Return("ERROR_BAD_ARGS")
  /\ UNCHANGED <<cfg, trial, argi>> /\ Quiet

(* The run seed; seed 0 in the configuration stands for the default.       *)
RunSeed(s) == cfg.seeded \/ s = DefaultSeed

(* The seed is set; the bloom filter may be missing for lack of memory.    *)
InitSeeds(s, ok) ==
  /\ pc = "check"
  /\ ArgsChecked
  /\ RunSeed(s)
  /\ SetSeed(s)
  /\ heap' = heap \union (IF AllHashable /\ ok THEN {"bloom"} ELSE {})
  /\ pc' = "hooks"
  /\ UNCHANGED <<cfg, misuse, trial, argi, result, allocVars>>

(***************************************************************************)
(* The environment of the stock trial_post hook.  When there is no memory  *)
(* for it theft_run_init returns without its cleanup.                      *)
(***************************************************************************)
InitHooks(ok) ==
  /\ pc = "hooks"
  /\ IF cfg.stock /\ ~ ok
     THEN Return("ERROR_MEMORY") /\ UNCHANGED heap
     ELSE /\ heap' = heap \union (IF cfg.stock THEN {"env"} ELSE {})
          /\ pc' = IF cfg.entry = "run" THEN "trials" ELSE "alloc"
          /\ UNCHANGED result
  /\ UNCHANGED <<cfg, misuse, trial, argi>> /\ Quiet

-----------------------------------------------------------------------------
(* Generating instances.                                                   *)

Info == cfg.args[argi]

(* theft_generate calls the alloc callback directly.                       *)
GenerateAlloc ==
  /\ pc = "alloc"
  /\ AllocBegins(Info.type, Info.env)
  /\ pc' = "generating"
  /\ UNCHANGED <<cfg, heap, misuse, trial, argi, result, randomVars>>

(* The instance is printed and freed; then, or without one, theft is freed.*)
GenerateDone ==
  /\ cfg.entry = "generate" /\ pc = "generating"
  /\ AllocTaken
  /\ result' = CASE ares = "OK"    -> "OK"
                 [] ares = "SKIP"  -> "SKIP"
                 [] OTHER          -> "ERROR_ALLOC"
  /\ pc' = "free"
  /\ UNCHANGED <<cfg, heap, misuse, trial, argi, randomVars>>

(* run_step sets the trial's seed: at first the run's.                     *)
TrialBegins(s) ==
  /\ pc = "trials" /\ at = "idle"
  /\ trial < MaxTrials
  /\ IF trial = 0 THEN s = seed ELSE s \in LaterSeeds
  /\ SetSeed(s)
  /\ argi' = 1
  /\ pc' = "arg"
  /\ UNCHANGED <<cfg, heap, misuse, trial, result, allocVars>>

(* gen_all_args: the next argument, with a pool if it autoshrinks.         *)
ArgBegins ==
  /\ pc = "arg" /\ argi <= Arity
  /\ Info.auto => Pooled
  /\ AllocBegins(Info.type, Info.env)
  /\ pc' = "generating"
  /\ UNCHANGED <<cfg, heap, misuse, trial, argi, result, randomVars>>

ArgPool ==
  /\ pc = "arg" /\ argi <= Arity /\ Info.auto /\ ~ Pooled
  /\ InjectPool
  /\ UNCHANGED <<entryVars, allocVars>>

(* The callback returns: no pool any more.  A SKIP ends the trial, an ERROR *)
(* the run.                                                                *)
ArgDone ==
  /\ cfg.entry = "run" /\ pc = "generating"
  /\ AllocTaken
  /\ pc' = IF ares = "ERROR" THEN "halted" ELSE "arg"
  /\ argi' = IF ares = "OK" THEN argi + 1 ELSE Arity + 1
  /\ IF Pooled THEN StopUsingPool ELSE UNCHANGED randomVars
  /\ UNCHANGED <<cfg, heap, misuse, trial, result>>

(* The end of run_step: the next trial's seed is drawn.                    *)
TrialEnds ==
  /\ pc = "arg" /\ argi > Arity
  /\ RequestBits(WordBits)
  /\ trial' = trial + 1
  /\ pc' = "trials"
  /\ UNCHANGED <<cfg, heap, misuse, argi, result, allocVars>>

(* theft_run_trials frees the stock hook's environment as it returns.      *)
TrialsFree == Free(IF cfg.stock THEN {"env"} ELSE {})

RunTrialsReturns(r) ==
  /\ pc \in {"trials", "halted"} /\ at = "idle"
  /\ TrialsFree
  /\ pc = "halted" => r = "ERROR"
  /\ result' = r
  /\ pc' = "free"
  /\ UNCHANGED <<cfg, trial, argi>> /\ Quiet

(* A bug: the filter is not freed.                                         *)
FreeNoBloom == {"t", "rng"} \union (heap \intersect {"env"})

RunFreeObjects == {"t", "rng"} \union (heap \intersect {"bloom", "env"})

(* theft_run_free.                                                         *)
RunFree ==
  /\ pc = "free"
  /\ Free(RunFreeObjects)
  /\ pc' = "over"
  /\ UNCHANGED <<cfg, trial, argi, result>> /\ Quiet

EntryStep ==
  \/ \E ok \in BOOLEAN : InitMemory(ok) \/ InitHooks(ok)
  \/ InitRefuses
  \/ \E s \in Seeds, ok \in BOOLEAN : InitSeeds(s, ok)
  \/ GenerateAlloc \/ GenerateDone
  \/ \E s \in Seeds : TrialBegins(s)
  \/ ArgPool \/ ArgBegins \/ ArgDone \/ TrialEnds
  \/ \E r \in {"PASS", "FAIL", "SKIP", "ERROR"} : RunTrialsReturns(r)
  \/ RunFree

Over == pc = "over" /\ UNCHANGED vars

Next == EntryStep \/ (AllocStep /\ UNCHANGED entryVars) \/ Over

Spec == Init /\ [][Next]_vars

-----------------------------------------------------------------------------
(* Properties.                                                             *)

(* The variables of theft_run, theft_generate and of the requests.         *)
EntryTypeOK ==
  /\ RandomTypeOK
  /\ cfg \in Configs
  /\ heap \subseteq {"t", "rng", "bloom", "env"} /\ misuse \in BOOLEAN
  /\ trial \in 0 .. MaxTrials /\ argi \in 1 .. Arity + 1
  /\ result \in {"none", "OK", "PASS", "FAIL", "SKIP", "ERROR", "ERROR_ALLOC",
                 "ERROR_MEMORY", "ERROR_BAD_ARGS"}

(***************************************************************************)
(* When theft_run or theft_generate returns, all that theft_run_init       *)
(* allocated was freed, once, whichever allocation, check or callback      *)
(* failed.  The one exception is its return for lack of memory for the     *)
(* stock hook's environment.                                               *)
(***************************************************************************)
AllFreed ==
  /\ ~ misuse
  /\ pc = "over" /\ heap # {} =>
       result = "ERROR_MEMORY" /\ cfg.stock /\ "env" \notin heap

(* What n bits from position p of the stream of seed s say.                *)
Drawn(s, p, n) == Number([j \in 0 .. n - 1 |-> Bit(s, p + j)], n)

(* The value of type t and env e that seed s stands for.                   *)
ScalarOfSeed(s, t, e) ==
  LET at0(n) == Drawn(s, 0, n)
      special == UseSpecial(at0(SpecialBits))
      then(n) == Drawn(s, SpecialBits, n)
  IN  CASE t.kind = "bool"   -> at0(1)
        [] t.kind = "choice" -> Choice(e, at0(ChoiceBits(e)))
        [] OTHER             ->
             Stored(t, IF special THEN SpecialValue(t, then(IndexBits))
                       ELSE then(t.bits), e)

(* The same of an array: bytes up to the first zero, or the greatest length.*)
ArrayOfSeed(s, e, a) ==
  LET n == Len(a)
      byte(k) == Drawn(s, (k - 1) * CharBits, CharBits)
  IN  /\ a[n] = 0 /\ (n = e \/ byte(n) = 0)
      /\ \A k \in 1 .. n - 1 : a[k] = byte(k) /\ byte(k) # 0

(***************************************************************************)
(* A seed stands for one instance: theft_generate, whose callback draws    *)
(* its bits one request at a time, and the first argument of a trial with  *)
(* that seed, which may draw them from a pool filled word by word, whatever*)
(* was generated before, are what the seed's stream says.                  *)
(***************************************************************************)
InstanceOfSeed ==
  Allocated /\ argi = 1 /\ pc = "generating" =>
    CASE type.kind = "chars" -> ArrayOfSeed(seed, env, chars)
      [] type.kind = "bulk"  -> TRUE
      [] OTHER               -> value = ScalarOfSeed(seed, type, env)
=============================================================================
