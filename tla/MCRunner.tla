------------------------------ MODULE MCRunner ------------------------------
(* Runner with small values, seeds and tactics.                            *)
EXTENDS Runner, TLC

CONSTANT Tactics     \* which of the tactics below the arguments have

(* Down by one, and sometimes a dead end or an error instead.              *)
Fickle(v, t) ==
  {DeadEnd, ShrinkError} \union
    (IF t > 0 THEN {NoMore} ELSE {w \in Vals : w = v - 1})

(* Any other value, so that tactics go round in circles, or no success.    *)
Wild(v) == {DeadEnd, NoMore, ShrinkError} \union (Vals \ {v})

MCCandidates(a, v, t) ==
  IF v \notin Vals THEN {}
  ELSE CASE Tactics = "fickle"  -> Fickle(v, t)
         [] Tactics = "wild"    -> Wild(v)

(* Any value, or a skip or an error.                                       *)
MCAllocs(s, a) == Vals \union {AllocSkip, AllocError}

(* A seed to run always, before the run seed.                              *)
OneAlways == <<"a">>
NoAlways == <<>>

(* Only the stock hooks, which let the run go on.                          *)
StockHooks ==
  [h \in {"run_pre", "run_post", "trial_post", "counterexample"} |-> {"CONTINUE"}]
  @@ [h \in {"gen_args_pre", "trial_pre", "shrink_pre", "shrink_post",
             "shrink_trial_post"} |-> {"none"}]

(* Every hook is set and may give any answer, except that gen_args_pre does*)
(* not stop the run and no shrinking hook asks for repetitions.            *)
BusyHooks ==
  [run_pre |-> {"CONTINUE", "ERROR"}, run_post |-> {"CONTINUE", "ERROR"},
   gen_args_pre |-> {"CONTINUE"},
   trial_pre |-> {"CONTINUE", "HALT", "ERROR"},
   trial_post |-> {"CONTINUE", "REPEAT", "REPEAT_ONCE", "ERROR"},
   counterexample |-> {"CONTINUE", "ERROR"},
   shrink_pre |-> {"CONTINUE", "HALT", "ERROR"},
   shrink_post |-> {"CONTINUE", "ERROR"},
   shrink_trial_post |-> {"CONTINUE", "ERROR"}]

(* Only gen_args_pre is set, and it may stop the run with an error.        *)
GenHook == [StockHooks EXCEPT !["gen_args_pre"] = {"CONTINUE", "ERROR"}]
=============================================================================
