------------------------------ MODULE ForkCall ------------------------------
(***************************************************************************)
(* theft_call with forking enabled (src/src/theft_call.c): the parent      *)
(* forks a worker, waits on a pipe for a one-byte verdict, and on a        *)
(* timeout signals the worker and polls waitpid until it exits.  The       *)
(* children run concurrently with the parent and, when one outlives its    *)
(* call, with each other.                                                  *)
(***************************************************************************)
EXTENDS Integers

CONSTANTS
  Pids,             \* process ids the kernel hands out; a reaped id is reused
  NoPid,            \* workers[0].pid before the first fork
  Timeout,          \* fork.timeout in ticks of poll; 0 is "no timeout"
  ExitTimeout,      \* fork.exit_timeout, in iterations of wait_for_exit
  KillTime,         \* kill_time, in iterations of wait_for_exit
  MaxForkRetries,   \* MAX_FORK_RETRIES
  OnSignal,         \* what a child may do on fork.signal
  Faults,           \* which system calls may fail, and "eintr"
  MaxCalls          \* bound on the number of calls (of the model only)

ASSUME PidsAssumption == NoPid \notin Pids
ASSUME TimesAssumption ==
  /\ Timeout \in Nat
  /\ ExitTimeout \in Nat \ {0}
  /\ KillTime \in Nat \ {0}
  /\ MaxForkRetries \in Nat
  /\ MaxCalls \in Nat
ASSUME OnSignalAssumption == OnSignal \subseteq {"die", "ignore", "ok", "bad"}
ASSUME FaultsAssumption ==
  Faults \subseteq {"pipe", "fork", "eagain", "poll", "read", "eintr"}

VARIABLES
  pc,        \* where the parent is in theft_call
  worker,    \* t->workers[0]: state, pid and wstatus
  tries,     \* forks that failed with EAGAIN (tv.tv_nsec is 2^tries)
  waited,    \* ticks spent in the current poll
  i,         \* loop index of wait_for_exit
  res,       \* the result theft_call is going to return, or returned
  calls,     \* calls made so far
  lost,      \* pids whose call met a failed system call (history only)
  st,        \* per pid: the life of the process
  byte,      \* per pid: the verdict byte in its pipe, or "none"
  status,    \* per pid: the exit status it is going to have, or has
  sig        \* per pid: signals sent to it and not yet delivered

parentVars == <<pc, worker, tries, waited, i, res, calls, lost>>
childVars  == <<st, byte, status, sig>>
vars == <<pc, worker, tries, waited, i, res, calls, lost,
          st, byte, status, sig>>

Verdicts == {"PASS", "FAIL", "SKIP", "ERROR"}
Statuses == {"none", "ok", "bad", "signal"}

(* The parent is inside a call for which it has forked a child.            *)
Attached == pc \in {"poll", "kill", "wait", "sigkill", "sleep", "close"}

Init ==
  /\ pc = "ready"
  /\ worker = [state |-> "inactive", pid |-> NoPid, wstatus |-> "none"]
  /\ tries = 0 /\ waited = 0 /\ i = 0 /\ calls = 0
  /\ res = "none"
  /\ lost = {}
  /\ st = [p \in Pids |-> "free"]
  /\ byte = [p \in Pids |-> "none"]
  /\ status = [p \in Pids |-> "none"]
  /\ sig = [p \in Pids |-> {}]

-----------------------------------------------------------------------------
(* The parent.                                                             *)

(* A bug: the status of the call's own child is not looked at.             *)
ReapOnly(w) ==
  /\ st' = [p \in Pids |-> IF st[p] = "zombie" THEN "free" ELSE st[p]]
  /\ worker' = w

(***************************************************************************)
(* step_waitpid: reap every child that has terminated; record the status   *)
(* of the one that is w.pid, the worker record the caller has.             *)
(***************************************************************************)
StepWaitpid(w) ==
  /\ st' = [p \in Pids |-> IF st[p] = "zombie" THEN "free" ELSE st[p]]
  /\ worker' = IF w.pid \in Pids /\ st[w.pid] = "zombie"
               THEN [w EXCEPT !.state = "stopped", !.wstatus = status[w.pid]]
               ELSE w

(* A bug: the escalation sends fork.signal once more, not SIGKILL.         *)
SendTermAgain(s) ==
  sig' = [sig EXCEPT ![worker.pid] =
            IF st[worker.pid] = "zombie" THEN @ ELSE @ \union {"term"}]

(* kill(pid, s): a terminated child that was not reaped takes no notice.   *)
SendSignal(s) ==
  sig' = [sig EXCEPT ![worker.pid] =
            IF st[worker.pid] = "zombie" THEN @ ELSE @ \union {s}]

(***************************************************************************)
(* What comes after an ERROR.  The callers halt the run, except that while *)
(* shrinking a shrink_trial_post hook may answer REPEAT to it and          *)
(* attempt_to_shrink_arg then calls theft_call again.                      *)
(***************************************************************************)
AfterError == {"halted", "ready"}

(* Early returns of THEFT_TRIAL_ERROR before a child exists.               *)
FailCall == pc' \in AfterError /\ res' = "ERROR"

(* A bug: the limit is compared after the retry.                           *)
OneRetryMore == tries <= MaxForkRetries

(* The sleep before the next fork is not yet 2^MaxForkRetries nsec long.   *)
RetriesLeft == tries < MaxForkRetries

CallPipe ==
  /\ pc = "ready"
  /\ calls < MaxCalls
  /\ calls' = calls + 1
  /\ \/ pc' = "fork" /\ tries' = 0 /\ UNCHANGED res
     \/ "pipe" \in Faults /\ FailCall /\ UNCHANGED tries
  /\ UNCHANGED <<worker, waited, i, lost, childVars>>

Fork(p) ==
  /\ pc = "fork"
  /\ st[p] = "free"
  /\ st' = [st EXCEPT ![p] = "hook"]
  /\ byte' = [byte EXCEPT ![p] = "none"]
  /\ status' = [status EXCEPT ![p] = "none"]
  /\ sig' = [sig EXCEPT ![p] = {}]
  /\ worker' = [worker EXCEPT !.pid = p, !.state = "active"]
  /\ lost' = lost \ {p}
  /\ waited' = 0
  /\ pc' = "poll"
  /\ UNCHANGED <<tries, i, res, calls>>

(***************************************************************************)
(* fork() failed with EAGAIN: reap, sleep 2^tries nsec and try again, until*)
(* the sleep was 2^MaxForkRetries long.  An interrupted sleep is an error. *)
(***************************************************************************)
ForkAgain ==
  /\ pc = "fork"
  /\ "eagain" \in Faults
  /\ StepWaitpid(worker)
  /\ \/ RetriesLeft /\ tries' = tries + 1 /\ UNCHANGED <<pc, res>>
     \/ ~ RetriesLeft /\ FailCall /\ UNCHANGED tries
     \/ "eintr" \in Faults /\ FailCall /\ UNCHANGED tries
  /\ UNCHANGED <<waited, i, calls, lost, byte, status, sig>>

ForkFails ==
  /\ pc = "fork"
  /\ "fork" \in Faults
  /\ FailCall
  /\ UNCHANGED <<worker, tries, waited, i, calls, lost, childVars>>

(* POLLIN or POLLHUP: a byte is in the pipe, or its write end is closed.   *)
Readable(p) == byte[p] # "none" \/ st[p] \in {"zombie", "free"}

Settle(r) == pc' = "close" /\ res' = r /\ UNCHANGED lost

(* A system call failed: ERROR, and nothing is done about the child.       *)
Lose == pc' = "close" /\ res' = "ERROR" /\ lost' = lost \union {worker.pid}

(* A bug: the end of file is taken for success.                            *)
EofPasses(p) == IF byte[p] = "none" THEN "PASS" ELSE byte[p]

(* read returns the byte, or 0 at end of file.                             *)
ReadResult(p) == IF byte[p] = "none" THEN "FAIL" ELSE byte[p]

(* poll saw the pipe readable.                                             *)
PollAnswer ==
  /\ pc = "poll"
  /\ Readable(worker.pid)
  /\ \/ Settle(ReadResult(worker.pid))
     \/ "read" \in Faults /\ Lose
  /\ UNCHANGED <<worker, tries, waited, i, calls, childVars>>

PollTick ==
  /\ pc = "poll"
  /\ waited < Timeout
  /\ ~ Readable(worker.pid)
  /\ waited' = waited + 1
  /\ UNCHANGED <<pc, worker, tries, i, res, calls, lost, childVars>>

(* EINTR: poll is called again with the whole timeout.                     *)
PollInterrupted ==
  /\ pc = "poll"
  /\ "eintr" \in Faults
  /\ waited' = 0
  /\ UNCHANGED <<pc, worker, tries, i, res, calls, lost, childVars>>

PollFails ==
  /\ pc = "poll"
  /\ "poll" \in Faults
  /\ Lose
  /\ UNCHANGED <<worker, tries, waited, i, calls, childVars>>

PollTimeout ==
  /\ pc = "poll"
  /\ Timeout > 0
  /\ waited = Timeout
  /\ ~ Readable(worker.pid)
  /\ pc' = "kill"
  /\ UNCHANGED <<worker, tries, waited, i, res, calls, lost, childVars>>

(* kill(pid, fork.signal) fails, and the call with it, once pid is reaped. *)
Kill ==
  /\ pc = "kill"
  /\ IF st[worker.pid] = "free"
     THEN Lose /\ UNCHANGED <<i, sig>>
     ELSE SendSignal("term") /\ i' = 0 /\ pc' = "wait" /\ UNCHANGED <<res, lost>>
  /\ UNCHANGED <<worker, tries, waited, calls, st, byte, status>>

(* A bug: any child that was seen to stop passes.                          *)
AnyStopPasses(w) == IF w.state = "stopped" THEN "PASS" ELSE "FAIL"

(***************************************************************************)
(* The result after a timeout, from the worker record w: PASS when the     *)
(* child was seen to exit with EXIT_SUCCESS, FAIL in any other case.       *)
(***************************************************************************)
LateResult(w) ==
  IF w.state = "stopped" /\ w.wstatus = "ok" THEN "PASS" ELSE "FAIL"

(* An iteration of wait_for_exit, up to the SIGKILL.                       *)
WaitCheck ==
  /\ pc = "wait"
  /\ i < ExitTimeout + KillTime
  /\ StepWaitpid(worker)
  /\ IF worker'.state = "stopped"
     THEN Settle(LateResult(worker'))
     ELSE /\ pc' = IF i = ExitTimeout THEN "sigkill" ELSE "sleep"
          /\ UNCHANGED <<res, lost>>
  /\ UNCHANGED <<tries, waited, i, calls, byte, status, sig>>

(* The loop is exhausted and the worker never seen to stop.                *)
WaitExhausted ==
  /\ pc = "wait"
  /\ i >= ExitTimeout + KillTime
  /\ Settle(LateResult(worker))
  /\ UNCHANGED <<worker, tries, waited, i, calls, childVars>>

(* kill(worker->pid, SIGKILL): as coded, any failure of it is an error.    *)
SigKill ==
  /\ pc = "sigkill"
  /\ IF st[worker.pid] = "free"
     THEN Lose /\ UNCHANGED sig
     ELSE SendSignal("kill") /\ pc' = "sleep" /\ UNCHANGED <<res, lost>>
  /\ UNCHANGED <<worker, tries, waited, i, calls, st, byte, status>>

(* A bug: the iterations are not counted.                                  *)
SameIteration == pc' = "wait" /\ i' = i

NextIteration == pc' = "wait" /\ i' = i + 1

(* nanosleep for a millisecond; when interrupted, the call is an error.    *)
Sleep ==
  /\ pc = "sleep"
  /\ \/ NextIteration /\ UNCHANGED <<res, lost>>
     \/ "eintr" \in Faults /\ Lose /\ UNCHANGED i
  /\ UNCHANGED <<worker, tries, waited, calls, childVars>>

(* Close the read end, mark the worker inactive, reap once and return.     *)
Close ==
  /\ pc = "close"
  /\ StepWaitpid([worker EXCEPT !.state = "inactive"])
  /\ pc' \in IF res = "ERROR" THEN AfterError ELSE {"ready"}
  /\ UNCHANGED <<tries, waited, i, res, calls, lost, byte, status, sig>>

-----------------------------------------------------------------------------
(* The children.                                                           *)

Alive(p) == st[p] \in {"hook", "property", "exiting"}

Terminate(p, how) ==
  /\ st' = [st EXCEPT ![p] = "zombie"]
  /\ status' = [status EXCEPT ![p] = how]

(* exit(): atexit handlers still run before the process is a zombie.       *)
BeginExit(p, how) ==
  /\ st' = [st EXCEPT ![p] = "exiting"]
  /\ status' = [status EXCEPT ![p] = how]

(***************************************************************************)
(* Write verdict v to the pipe and call exit; SIGPIPE ends the child whose *)
(* call is over and whose pipe has no reader.                              *)
(***************************************************************************)
Answer(p, v) ==
  IF Attached /\ p = worker.pid
  THEN /\ byte' = [byte EXCEPT ![p] = v]
       /\ BeginExit(p, IF v = "PASS" THEN "ok" ELSE "bad")
  ELSE Terminate(p, "signal") /\ UNCHANGED byte

HookPasses(p) ==
  /\ st[p] = "hook"
  /\ st' = [st EXCEPT ![p] = "property"]
  /\ UNCHANGED <<byte, status, sig, parentVars>>

(* THEFT_HOOK_FORK_POST_ERROR: the byte says ERROR, the status FAILURE.    *)
HookErrs(p) ==
  /\ st[p] = "hook"
  /\ Answer(p, "ERROR")
  /\ UNCHANGED <<sig, parentVars>>

PropertyReturns(p, v) ==
  /\ st[p] = "property"
  /\ Answer(p, v)
  /\ UNCHANGED <<sig, parentVars>>

(* The code under test crashes.                                            *)
Crash(p) ==
  /\ st[p] = "property"
  /\ Terminate(p, "signal")
  /\ UNCHANGED <<byte, sig, parentVars>>

(* The code under test calls exit itself, so that no byte is written.      *)
ExitEarly(p, how) ==
  /\ st[p] = "property"
  /\ BeginExit(p, how)
  /\ UNCHANGED <<byte, sig, parentVars>>

Exit(p) ==
  /\ st[p] = "exiting"
  /\ st' = [st EXCEPT ![p] = "zombie"]
  /\ UNCHANGED <<byte, status, sig, parentVars>>

(* fork.signal is delivered: default action, or the child's own handler.   *)
TakeSignal(p, what) ==
  /\ Alive(p)
  /\ "term" \in sig[p]
  /\ sig' = [sig EXCEPT ![p] = @ \ {"term"}]
  /\ CASE what = "die"    -> Terminate(p, "signal")
       [] what = "ignore" -> UNCHANGED <<st, status>>
       [] OTHER           -> BeginExit(p, what)
  /\ UNCHANGED <<byte, parentVars>>

TakeSigKill(p) ==
  /\ Alive(p)
  /\ "kill" \in sig[p]
  /\ Terminate(p, "signal")
  /\ sig' = [sig EXCEPT ![p] = {}]
  /\ UNCHANGED <<byte, parentVars>>

-----------------------------------------------------------------------------
Call == CallPipe \/ ForkAgain \/ ForkFails \/ \E p \in Pids : Fork(p)

Await == PollAnswer \/ PollTick \/ PollTimeout

Reclaim == Kill \/ WaitCheck \/ WaitExhausted \/ SigKill \/ Sleep \/ Close

Child(p) ==
  \/ HookPasses(p) \/ HookErrs(p)
  \/ \E v \in Verdicts : PropertyReturns(p, v)
  \/ Crash(p)
  \/ \E how \in {"ok", "bad"} : ExitEarly(p, how)
  \/ Exit(p)
  \/ \E what \in OnSignal : TakeSignal(p, what)
  \/ TakeSigKill(p)

(* The run is over: halted after an ERROR, or at the model's call bound.   *)
Over ==
  /\ pc \in {"ready", "halted"}
  /\ pc = "ready" => calls = MaxCalls
  /\ UNCHANGED vars

Next ==
  \/ Call
  \/ Await \/ PollInterrupted \/ PollFails
  \/ Reclaim
  \/ \E p \in Pids : Child(p)
  \/ Over

Spec == Init /\ [][Next]_vars

(***************************************************************************)
(* The parent is scheduled, so its enabled step is taken, and the poll's   *)
(* clock runs; nothing is assumed of the property under test.              *)
(***************************************************************************)
FairSpec == Spec /\ WF_vars(Call) /\ WF_vars(Await) /\ WF_vars(Reclaim)

-----------------------------------------------------------------------------
(* Properties.                                                             *)

(* Every variable has its type (struct worker_info and the process table). *)
TypeOK ==
  /\ pc \in {"ready", "fork", "poll", "kill", "wait", "sigkill", "sleep",
             "close", "halted"}
  /\ worker \in [state : {"inactive", "active", "stopped"},
                 pid : Pids \union {NoPid}, wstatus : Statuses]
  /\ tries \in 0 .. MaxForkRetries
  /\ waited \in 0 .. Timeout
  /\ i \in 0 .. (ExitTimeout + KillTime)
  /\ res \in Verdicts \union {"none"}
  /\ calls \in 0 .. MaxCalls
  /\ lost \subseteq Pids
  /\ st \in [Pids -> {"free", "hook", "property", "exiting", "zombie"}]
  /\ byte \in [Pids -> Verdicts \union {"none"}]
  /\ status \in [Pids -> Statuses]
  /\ sig \in [Pids -> SUBSET {"term", "kill"}]
  /\ Attached => worker.pid \in Pids

(***************************************************************************)
(* A signal is only ever sent to this call's own child, not yet reaped: a  *)
(* reaped pid may belong to any process (the asserts and kills of          *)
(* parent_handle_child_call and wait_for_exit).                            *)
(***************************************************************************)
SignalsOwnChild ==
  pc \in {"kill", "sigkill"} =>
    worker.state = "active" /\ st[worker.pid] # "free"

(***************************************************************************)
(* No worker of an earlier call can still be running the fork_post hook or *)
(* the property function, beside the current call or after the run, unless *)
(* SIGKILL is on its way to it (wait_for_exit's escalation), or its own    *)
(* call lost it: returned ERROR because poll or read failed or a nanosleep *)
(* of wait_for_exit was interrupted.  So a call that returns PASS, FAIL or *)
(* SKIP, or the ERROR its child said, leaves no such worker behind, even   *)
(* when other calls do.                                                    *)
(***************************************************************************)
EarlierWorkersDoomed ==
  \A p \in Pids \ lost :
    st[p] \in {"hook", "property"} /\ ~ (Attached /\ p = worker.pid)
      => "kill" \in sig[p]

(***************************************************************************)
(* A child that dies of a signal is never a PASS, whatever the race between*)
(* its verdict, the timeout and the signals (doc/forking.md: signals that  *)
(* kill the process are always a FAIL), unless its PASS byte was already   *)
(* in the pipe and read.                                                   *)
(***************************************************************************)
KilledIsNotPass ==
  pc = "close" /\ res = "PASS" /\ byte[worker.pid] # "PASS" =>
    st[worker.pid] = "free" /\ status[worker.pid] = "ok"

(***************************************************************************)
(* The call implements the abstract call: the result that is returned is   *)
(* justified by what this call's own child said or how it ended.           *)
(***************************************************************************)
Abstract == INSTANCE TrialCall WITH
  Deadline <- Timeout > 0,
  MayFault <- Faults # {},
  phase <- CASE pc \in {"ready", "halted"} -> "idle"
             [] pc = "fork"               -> "starting"
             [] OTHER                     -> "busy",
  said <- IF Attached THEN byte[worker.pid] ELSE "none",
  ended <- IF Attached /\ st[worker.pid] \in {"zombie", "free"}
           THEN status[worker.pid] ELSE "running",
  late <- Attached /\ pc # "poll" /\ Timeout > 0 /\ waited = Timeout,
  failed <- Attached /\ worker.pid \in lost,
  result <- IF pc \in {"ready", "halted"} THEN res ELSE "none"

ImplementsTrialCall == Abstract!Spec

(***************************************************************************)
(* A call that has begun returns, whatever the property does, unless       *)
(* signals interrupt poll again and again: each time poll starts over with *)
(* the whole timeout.                                                      *)
(***************************************************************************)
CallReturns ==
  \/ []<><<PollInterrupted>>_vars
  \/ pc = "fork" ~> pc \in {"ready", "halted"}

(***************************************************************************)
(* Claimed by inc/theft_types.h of every hook, here fork_post: returning   *)
(* ERROR halts the run, so a call whose child said ERROR returns ERROR.    *)
(***************************************************************************)
SaidErrorHalts ==
  pc = "close" /\ byte[worker.pid] = "ERROR" => res = "ERROR"
============================================================================
