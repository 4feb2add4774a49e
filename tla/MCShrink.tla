------------------------------ MODULE MCShrink ------------------------------
(* Shrink with tactics over small numbers.                                 *)
EXTENDS Shrink

(* Down by one, or an error; when that was no success, to zero; at zero    *)
(* there may be no more tactics, or a dead end in each of them.            *)
MCCandidates(a, v, t) ==
  IF v \notin Vals THEN {}
  ELSE IF v = 0 THEN {DeadEnd, NoMore}
  ELSE IF t = 0 THEN {v - 1, ShrinkError}
  ELSE {0}

(* Every hook is set and may give any answer.                              *)
AllHooks ==
  [shrink_pre |-> {"CONTINUE", "HALT", "ERROR"},
   shrink_post |-> {"CONTINUE", "ERROR"},
   shrink_trial_post |-> {"CONTINUE", "REPEAT", "REPEAT_ONCE", "ERROR"}]
=============================================================================
