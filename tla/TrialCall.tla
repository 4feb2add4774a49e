----------------------------- MODULE TrialCall -----------------------------
(***************************************************************************)
(* What theft_call promises to its callers (theft_trial.c, theft_shrink.c),*)
(* whichever way the property function is run: a call begins, the property *)
(* may say a verdict, the process running it may end, and the call returns *)
(* a result that one of those facts justifies.                             *)
(***************************************************************************)
CONSTANTS
  Deadline,   \* TRUE iff the call may give up on a property that is too slow
  MayFault    \* TRUE iff a system call made on behalf of the call may fail

VARIABLES
  phase,      \* "idle", "starting" or, once the property may run, "busy"
  said,       \* the verdict the property (or the fork_post hook) gave, or "none"
  ended,      \* "running", or how the process ended: "ok", "bad" or "signal"
  late,       \* the deadline passed before the result was known
  failed,     \* a system call failed while the property may have run
  result      \* the result of the last call that returned, "none" meanwhile

callVars == <<phase, said, ended, late, failed, result>>

(* enum theft_trial_res, less THEFT_TRIAL_DUP, which no property returns.  *)
Verdicts == {"PASS", "FAIL", "SKIP", "ERROR"}

Init ==
  /\ phase = "idle"
  /\ said = "none"
  /\ ended = "running"
  /\ late = FALSE
  /\ failed = FALSE
  /\ result = "none"

Call ==
  /\ phase = "idle"
  /\ phase' = "starting"
  /\ result' = "none"
  /\ UNCHANGED <<said, ended, late, failed>>

(* The call fails before anything runs the property.                       *)
CallFails ==
  /\ phase \in {"idle", "starting"}
  /\ MayFault
  /\ phase' = "idle"
  /\ result' = "ERROR"
  /\ UNCHANGED <<said, ended, late, failed>>

Start ==
  /\ phase = "starting"
  /\ phase' = "busy"
  /\ UNCHANGED <<said, ended, late, failed, result>>

Say(v) ==
  /\ phase = "busy"
  /\ said = "none"
  /\ said' = v
  /\ UNCHANGED <<phase, ended, late, failed, result>>

End(how) ==
  /\ phase = "busy"
  /\ ended = "running"
  /\ ended' = how
  /\ UNCHANGED <<phase, said, late, failed, result>>

(* The deadline passes, a system call fails, or both are found out at once.*)
Trouble ==
  /\ phase = "busy"
  /\ late' \in {late, Deadline}
  /\ failed' \in {failed, MayFault}
  /\ UNCHANGED <<phase, said, ended, result>>

(***************************************************************************)
(* The facts that justify a result: the verdict itself; a FAIL for a       *)
(* process that ended without one; after the deadline, a PASS for a process*)
(* that ended with EXIT_SUCCESS and a FAIL for any other; an ERROR for a   *)
(* system call that failed in this very call.                              *)
(***************************************************************************)
Justified(r) ==
  \/ r = said
  \/ r = "FAIL" /\ said = "none" /\ ended # "running"
  \/ late /\ r = "PASS" /\ ended = "ok"
  \/ late /\ r = "FAIL"
  \/ failed /\ r = "ERROR"

Return(r) ==
  /\ phase = "busy"
  /\ Justified(r)
  /\ phase' = "idle"
  /\ result' = r
  /\ said' = "none"
  /\ ended' = "running"
  /\ late' = FALSE
  /\ failed' = FALSE

Next ==
  \/ Call \/ CallFails \/ Start \/ Trouble
  \/ \E v \in Verdicts : Say(v) \/ Return(v)
  \/ \E how \in {"ok", "bad", "signal"} : End(how)

Spec == Init /\ [][Next]_callVars
============================================================================
