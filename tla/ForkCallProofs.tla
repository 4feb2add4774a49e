--------------------------- MODULE ForkCallProofs ---------------------------
(***************************************************************************)
(* Proofs of the safety properties of ForkCall, for every set of pids,     *)
(* every timeout and retry limit, every signal handler and every fault.    *)
(***************************************************************************)
EXTENDS ForkCall, TLAPS

Inactive(p) == ~ (Attached /\ p = worker.pid)

Running(p) == st[p] \in {"hook", "property"}

(* Until its result is settled, the call's child is not reaped.            *)
ChildUnreaped ==
  pc \in {"poll", "kill", "wait", "sigkill", "sleep"} =>
    worker.state = "active" /\ st[worker.pid] # "free"

(* A process that is still running has not written its byte.               *)
NoByteYet == \A p \in Pids : Running(p) => byte[p] = "none"

(* Where the loop index is, and what it says of SIGKILL.                   *)
LoopIndex ==
  /\ pc = "sigkill" => i = ExitTimeout
  /\ pc = "sleep" => i < ExitTimeout + KillTime

(* Past the escalation the call's child, if it still runs, is doomed.      *)
Escalated ==
  \/ pc = "wait" /\ i > ExitTimeout
  \/ pc = "sleep" /\ i >= ExitTimeout
  \/ pc = "close" /\ worker.pid \notin lost

ChildDoomed ==
  Escalated /\ Running(worker.pid) => "kill" \in sig[worker.pid]

Rest ==
  /\ ChildUnreaped
  /\ NoByteYet
  /\ LoopIndex
  /\ ChildDoomed
  /\ EarlierWorkersDoomed
  /\ KilledIsNotPass

Inv == TypeOK /\ Rest

USE DEF Verdicts, Statuses, parentVars, childVars, AfterError

(* Before the first call nothing is forked.                                *)
LEMMA InitInv == Init => Inv
  BY PidsAssumption, TimesAssumption
  DEF Init, Inv, Rest, TypeOK, ChildUnreaped, NoByteYet, LoopIndex, ChildDoomed,
      Escalated, EarlierWorkersDoomed, KilledIsNotPass, Attached, Running

(* Every step of the parent and of a child keeps the types.                *)
LEMMA TypeStep == Inv /\ [Next]_vars => TypeOK'
<1> SUFFICES ASSUME Inv, [Next]_vars PROVE TypeOK'
  OBVIOUS
<1> USE PidsAssumption, TimesAssumption DEF Inv, Rest, TypeOK, Attached
<1>1. CASE CallPipe
  BY <1>1 DEF CallPipe, FailCall
<1>2. ASSUME NEW p \in Pids, Fork(p) PROVE TypeOK'
  <2>1. worker' \in [state : {"inactive", "active", "stopped"},
                     pid : Pids \union {NoPid}, wstatus : Statuses]
    BY <1>2 DEF Fork
  <2> QED
    BY <1>2, <2>1 DEF Fork
<1>3. CASE ForkAgain
  <2>1. worker' \in [state : {"inactive", "active", "stopped"},
                     pid : Pids \union {NoPid}, wstatus : Statuses]
    BY <1>3 DEF ForkAgain, RetriesLeft, StepWaitpid
  <2>2. tries' \in 0 .. MaxForkRetries /\ res' \in Verdicts \union {"none"}
    BY <1>3 DEF ForkAgain, RetriesLeft, FailCall
  <2>3. st' \in [Pids -> {"free", "hook", "property", "exiting", "zombie"}]
    BY <1>3 DEF ForkAgain, RetriesLeft, StepWaitpid
  <2> QED
    BY <1>3, <2>1, <2>2, <2>3 DEF ForkAgain, RetriesLeft, FailCall
<1>4. CASE ForkFails
  BY <1>4 DEF ForkFails, FailCall
<1>5. CASE PollAnswer
  BY <1>5 DEF PollAnswer, ReadResult, Settle, Lose
<1>6. CASE PollTick
  BY <1>6 DEF PollTick
<1>7. CASE PollTimeout
  BY <1>7 DEF PollTimeout
<1>8. CASE PollInterrupted
  BY <1>8 DEF PollInterrupted
<1>9. CASE PollFails
  BY <1>9 DEF PollFails, Lose
<1>10. CASE Kill
  BY <1>10 DEF Kill, Lose, SendSignal
<1>11. CASE WaitCheck
  BY <1>11 DEF WaitCheck, Settle, StepWaitpid, LateResult
<1>12. CASE WaitExhausted
  BY <1>12 DEF WaitExhausted, Settle, LateResult
<1>13. CASE SigKill
  BY <1>13 DEF SigKill, Lose, SendSignal
<1>14. CASE Sleep
  BY <1>14 DEF Sleep, NextIteration, Lose, LoopIndex
<1>15. CASE Close
  BY <1>15 DEF Close, StepWaitpid
<1>16. ASSUME NEW p \in Pids, Child(p) PROVE TypeOK'
  BY <1>16, OnSignalAssumption
  DEF Child, HookPasses, HookErrs, PropertyReturns, Answer, BeginExit,
      Terminate, Crash, ExitEarly, Exit, TakeSignal, TakeSigKill
<1>17. CASE UNCHANGED vars
  BY <1>17 DEF vars
<1> QED
  BY <1>1, <1>2, <1>3, <1>4, <1>5, <1>6, <1>7, <1>8, <1>9, <1>10, <1>11,
     <1>12, <1>13, <1>14, <1>15, <1>16, <1>17
  DEF Next, Call, Await, Reclaim, Over

(* Every step keeps the rest of the inductive invariant.                   *)
LEMMA RestStep == Inv /\ [Next]_vars => Rest'
<1> SUFFICES ASSUME Inv, [Next]_vars PROVE Rest'
  OBVIOUS
<1>0. TypeOK'
  BY TypeStep
<1> USE PidsAssumption, TimesAssumption, <1>0
    DEF Inv, Rest, TypeOK, Attached, ChildUnreaped, NoByteYet, LoopIndex,
        ChildDoomed, Escalated, EarlierWorkersDoomed, KilledIsNotPass, Running
<1>1. CASE CallPipe
  BY <1>1 DEF CallPipe, FailCall
<1>2. CASE ForkAgain
  BY <1>2 DEF ForkAgain, RetriesLeft, FailCall, StepWaitpid
<1>3. CASE ForkFails
  BY <1>3 DEF ForkFails, FailCall
<1>4. CASE PollAnswer
  BY <1>4 DEF PollAnswer, ReadResult, Settle, Lose, Readable
<1>5. CASE PollTick
  BY <1>5 DEF PollTick
<1>6. CASE PollTimeout
  BY <1>6 DEF PollTimeout, Readable
<1>7. CASE PollInterrupted
  BY <1>7 DEF PollInterrupted
<1>8. CASE PollFails
  BY <1>8 DEF PollFails, Lose
<1>9. CASE Kill
  BY <1>9 DEF Kill, Lose, SendSignal
<1>10. CASE WaitCheck
  BY <1>10 DEF WaitCheck, Settle, StepWaitpid, LateResult
<1>11. CASE WaitExhausted
  BY <1>11 DEF WaitExhausted, Settle, LateResult
<1>12. CASE SigKill
  BY <1>12 DEF SigKill, Lose, SendSignal
<1>13. CASE Sleep
  BY <1>13 DEF Sleep, NextIteration, Lose
<1>14. CASE Close
  BY <1>14 DEF Close, StepWaitpid
<1>15. ASSUME NEW p \in Pids, Fork(p) PROVE Rest'
  BY <1>15 DEF Fork
<1>16. ASSUME NEW p \in Pids, Child(p) PROVE Rest'
  <2>1. CASE HookPasses(p)
    BY <2>1 DEF HookPasses
  <2>2. CASE HookErrs(p)
    BY <2>2 DEF HookErrs, Answer, BeginExit, Terminate
  <2>3. ASSUME NEW v \in Verdicts, PropertyReturns(p, v) PROVE Rest'
    BY <2>3 DEF PropertyReturns, Answer, BeginExit, Terminate
  <2>4. CASE Crash(p)
    BY <2>4 DEF Crash, Terminate
  <2>5. ASSUME NEW how \in {"ok", "bad"}, ExitEarly(p, how) PROVE Rest'
    BY <2>5 DEF ExitEarly, BeginExit
  <2>6. CASE Exit(p)
    BY <2>6 DEF Exit
  <2>7. ASSUME NEW what \in OnSignal, TakeSignal(p, what) PROVE Rest'
    <3> USE <2>7, OnSignalAssumption DEF TakeSignal, Alive
    <3>1. CASE what = "die"
      BY <3>1 DEF Terminate
    <3>2. CASE what = "ignore"
      BY <3>2
    <3>3. CASE what \in {"ok", "bad"}
      BY <3>3 DEF BeginExit
    <3> QED
      BY <3>1, <3>2, <3>3
  <2>8. CASE TakeSigKill(p)
    BY <2>8 DEF TakeSigKill, Alive, Terminate
  <2> QED
    BY <1>16, <2>1, <2>2, <2>3, <2>4, <2>5, <2>6, <2>7, <2>8 DEF Child
<1>17. CASE UNCHANGED vars
  BY <1>17 DEF vars
<1> QED
  BY <1>1, <1>2, <1>3, <1>4, <1>5, <1>6, <1>7, <1>8, <1>9, <1>10, <1>11,
     <1>12, <1>13, <1>14, <1>15, <1>16, <1>17
  DEF Next, Call, Await, Reclaim, Over

(* So it holds in every state that theft_call reaches.                     *)
LEMMA Invariance == Spec => []Inv
<1>1. Inv /\ [Next]_vars => Inv'
  BY TypeStep, RestStep DEF Inv
<1> QED
  BY InitInv, <1>1, PTL DEF Spec

(* The variables of the parent and the process table keep their types.     *)
THEOREM TypeCorrect == Spec => []TypeOK
<1>1. Inv => TypeOK
  BY DEF Inv
<1> QED
  BY Invariance, <1>1, PTL

(***************************************************************************)
(* theft_call never sends the timeout signal or SIGKILL to a pid that it   *)
(* has already reaped.                                                     *)
(***************************************************************************)
THEOREM SignalsAreSafe == Spec => []SignalsOwnChild
<1>1. Inv => SignalsOwnChild
  BY DEF Inv, Rest, ChildUnreaped, SignalsOwnChild
<1> QED
  BY Invariance, <1>1, PTL

(***************************************************************************)
(* A worker that outlives its call is past the property function, or about *)
(* to be killed, or its own call returned ERROR for a failed system call:  *)
(* also when the run goes on after such an ERROR.                          *)
(***************************************************************************)
THEOREM EarlierWorkersAreDoomed == Spec => []EarlierWorkersDoomed
<1>1. Inv => EarlierWorkersDoomed
  BY DEF Inv, Rest
<1> QED
  BY Invariance, <1>1, PTL

(***************************************************************************)
(* theft_call returns PASS only for a PASS byte or an EXIT_SUCCESS.        *)
(***************************************************************************)
THEOREM KilledIsNeverPass == Spec => []KilledIsNotPass
<1>1. Inv => KilledIsNotPass
  BY DEF Inv, Rest
<1> QED
  BY Invariance, <1>1, PTL

-----------------------------------------------------------------------------
(* What the refinement needs besides: why a settled result is justified.   *)

(* A child on its way out, or gone, has an exit status.                    *)
StatusKnown ==
  \A p \in Pids : st[p] \in {"exiting", "zombie"} => status[p] # "none"

(* Only a call whose deadline passed signals its child and waits for it.   *)
TimedOut ==
  pc \in {"kill", "wait", "sigkill", "sleep"} => Timeout > 0 /\ waited = Timeout

Settled == pc = "close" => res \in Verdicts /\ Abstract!Justified(res)

(* A child that was reaped during the call has its status recorded.        *)
ReapedStatus ==
  Attached /\ st[worker.pid] = "free" => status[worker.pid] # "none"

RefInv == StatusKnown /\ TimedOut /\ Settled /\ ReapedStatus

(* What justifies a result stays true until the call returns it.           *)
LEMMA RefStep == Inv /\ RefInv /\ [Next]_vars => RefInv'
<1> SUFFICES ASSUME Inv, RefInv, [Next]_vars PROVE RefInv'
  OBVIOUS
<1>0. Inv'
  BY TypeStep, RestStep DEF Inv
<1> USE PidsAssumption, TimesAssumption, FaultsAssumption, <1>0
    DEF RefInv, StatusKnown, TimedOut, Settled, ReapedStatus, Attached,
        Inv, Rest, TypeOK, ChildUnreaped, NoByteYet, Running,
        Abstract!Justified
<1>1. CASE CallPipe
  BY <1>1 DEF CallPipe, FailCall
<1>2. CASE ForkAgain
  BY <1>2 DEF ForkAgain, RetriesLeft, FailCall, StepWaitpid
<1>3. CASE ForkFails
  BY <1>3 DEF ForkFails, FailCall
<1>4. CASE PollAnswer
  BY <1>4 DEF PollAnswer, ReadResult, Settle, Lose, Readable
<1>5. CASE PollTick
  BY <1>5 DEF PollTick
<1>6. CASE PollTimeout
  BY <1>6 DEF PollTimeout, Readable
<1>7. CASE PollInterrupted
  BY <1>7 DEF PollInterrupted
<1>8. CASE PollFails
  BY <1>8 DEF PollFails, Lose
<1>9. CASE Kill
  BY <1>9 DEF Kill, Lose, SendSignal
<1>10. CASE WaitCheck
  BY <1>10 DEF WaitCheck, Settle, StepWaitpid, LateResult
<1>11. CASE WaitExhausted
  BY <1>11 DEF WaitExhausted, Settle, LateResult
<1>12. CASE SigKill
  BY <1>12 DEF SigKill, Lose, SendSignal
<1>13. CASE Sleep
  BY <1>13 DEF Sleep, NextIteration, Lose
<1>14. CASE Close
  BY <1>14 DEF Close, StepWaitpid
<1>15. ASSUME NEW p \in Pids, Fork(p) PROVE RefInv'
  BY <1>15 DEF Fork
<1>16. ASSUME NEW p \in Pids, Child(p) PROVE RefInv'
  <2>1. CASE HookPasses(p)
    BY <2>1 DEF HookPasses
  <2>2. CASE HookErrs(p)
    BY <2>2 DEF HookErrs, Answer, BeginExit, Terminate
  <2>3. ASSUME NEW v \in Verdicts, PropertyReturns(p, v) PROVE RefInv'
    BY <2>3 DEF PropertyReturns, Answer, BeginExit, Terminate
  <2>4. CASE Crash(p)
    BY <2>4 DEF Crash, Terminate
  <2>5. ASSUME NEW how \in {"ok", "bad"}, ExitEarly(p, how) PROVE RefInv'
    BY <2>5 DEF ExitEarly, BeginExit
  <2>6. CASE Exit(p)
    BY <2>6 DEF Exit
  <2>7. ASSUME NEW what \in OnSignal, TakeSignal(p, what) PROVE RefInv'
    <3> USE <2>7, OnSignalAssumption DEF TakeSignal, Alive
    <3>1. CASE what = "die"
      BY <3>1 DEF Terminate
    <3>2. CASE what = "ignore"
      BY <3>2
    <3>3. CASE what \in {"ok", "bad"}
      BY <3>3 DEF BeginExit
    <3> QED
      BY <3>1, <3>2, <3>3
  <2>8. CASE TakeSigKill(p)
    BY <2>8 DEF TakeSigKill, Alive, Terminate
  <2> QED
    BY <1>16, <2>1, <2>2, <2>3, <2>4, <2>5, <2>6, <2>7, <2>8 DEF Child
<1>17. CASE UNCHANGED vars
  BY <1>17 DEF vars
<1> QED
  BY <1>1, <1>2, <1>3, <1>4, <1>5, <1>6, <1>7, <1>8, <1>9, <1>10, <1>11,
     <1>12, <1>13, <1>14, <1>15, <1>16, <1>17
  DEF Next, Call, Await, Reclaim, Over

(* The two invariants together, in every state.                            *)
LEMMA RefInvariance == Spec => [](Inv /\ RefInv)
<1>1. Init => RefInv
  BY DEF Init, RefInv, StatusKnown, TimedOut, Settled, ReapedStatus, Attached
<1>2. Inv /\ RefInv /\ [Next]_vars => (Inv /\ RefInv)'
  BY TypeStep, RestStep, RefStep DEF Inv
<1> QED
  BY InitInv, <1>1, <1>2, PTL DEF Spec

(* Before the first call the abstract call is idle.                        *)
LEMMA RefInit == Init => Abstract!Init
  BY DEF Init, Abstract!Init, Attached

(* Every step of the call is a step of the abstract call, or none.         *)
LEMMA RefNext ==
  Inv /\ RefInv /\ (Inv /\ RefInv)' /\ [Next]_vars
    => [Abstract!Next]_(Abstract!callVars)
<1> SUFFICES ASSUME Inv, RefInv, Inv', RefInv', [Next]_vars
             PROVE  [Abstract!Next]_(Abstract!callVars)
  OBVIOUS
<1> USE PidsAssumption, TimesAssumption, FaultsAssumption
    DEF RefInv, StatusKnown, TimedOut, Settled, ReapedStatus, Attached,
        Inv, Rest, TypeOK, ChildUnreaped, NoByteYet, Running,
        Abstract!callVars, Abstract!Next, Abstract!Trouble
<1> DEFINE Goal == [Abstract!Next]_(Abstract!callVars)
<1>1. CASE CallPipe
  BY <1>1 DEF CallPipe, FailCall, Abstract!Call, Abstract!CallFails
<1>2. CASE ForkAgain
  BY <1>2 DEF ForkAgain, RetriesLeft, FailCall, StepWaitpid, Abstract!CallFails
<1>3. CASE ForkFails
  BY <1>3 DEF ForkFails, FailCall, Abstract!CallFails
<1>4. CASE PollAnswer
  BY <1>4 DEF PollAnswer, ReadResult, Settle, Lose, Readable
<1>5. CASE PollTick
  BY <1>5 DEF PollTick
<1>6. CASE PollTimeout
  BY <1>6 DEF PollTimeout, Readable
<1>7. CASE PollInterrupted
  BY <1>7 DEF PollInterrupted
<1>8. CASE PollFails
  BY <1>8 DEF PollFails, Lose
<1>9. CASE Kill
  BY <1>9 DEF Kill, Lose, SendSignal
<1>10. CASE WaitCheck
  BY <1>10 DEF WaitCheck, Settle, StepWaitpid, LateResult
<1>11. CASE WaitExhausted
  BY <1>11 DEF WaitExhausted, Settle, LateResult
<1>12. CASE SigKill
  BY <1>12 DEF SigKill, Lose, SendSignal
<1>13. CASE Sleep
  BY <1>13 DEF Sleep, NextIteration, Lose
<1>14. CASE Close
  BY <1>14 DEF Close, StepWaitpid, Abstract!Return, Abstract!Justified,
     Abstract!Verdicts
<1>15. ASSUME NEW p \in Pids, Fork(p) PROVE Goal
  BY <1>15 DEF Fork, Abstract!Start
<1>16. ASSUME NEW p \in Pids, Child(p) PROVE Goal
  <2> USE DEF Abstract!Say, Abstract!End, Abstract!Verdicts
  <2>1. CASE HookPasses(p)
    BY <2>1 DEF HookPasses
  <2>2. CASE HookErrs(p)
    BY <2>2 DEF HookErrs, Answer, BeginExit, Terminate
  <2>3. ASSUME NEW v \in Verdicts, PropertyReturns(p, v) PROVE Goal
    BY <2>3 DEF PropertyReturns, Answer, BeginExit, Terminate
  <2>4. CASE Crash(p)
    BY <2>4 DEF Crash, Terminate
  <2>5. ASSUME NEW how \in {"ok", "bad"}, ExitEarly(p, how) PROVE Goal
    BY <2>5 DEF ExitEarly, BeginExit
  <2>6. CASE Exit(p)
    BY <2>6 DEF Exit
  <2>7. ASSUME NEW what \in OnSignal, TakeSignal(p, what) PROVE Goal
    <3>1. CASE what = "die"
      BY <2>7, <3>1 DEF TakeSignal, Alive, Terminate
    <3>2. CASE what = "ignore"
      BY <2>7, <3>2 DEF TakeSignal, Alive
    <3>3. CASE what \in {"ok", "bad"}
      BY <2>7, <3>3 DEF TakeSignal, Alive, BeginExit
    <3>4. what \in {"die", "ignore", "ok", "bad"}
      BY OnSignalAssumption
    <3> HIDE DEF Goal
    <3> QED
      BY <3>1, <3>2, <3>3, <3>4
  <2>8. CASE TakeSigKill(p)
    BY <2>8 DEF TakeSigKill, Alive, Terminate
  <2> HIDE DEF Goal, RefInv, StatusKnown, TimedOut, Settled, ReapedStatus, Attached,
        Inv, Rest, TypeOK, ChildUnreaped, NoByteYet, Running,
        Abstract!callVars, Abstract!Next, Abstract!Trouble
  <2> QED
    BY <1>16, <2>1, <2>2, <2>3, <2>4, <2>5, <2>6, <2>7, <2>8 DEF Child
<1>17. CASE UNCHANGED vars
  BY <1>17 DEF vars
<1> QED
  BY <1>1, <1>2, <1>3, <1>4, <1>5, <1>6, <1>7, <1>8, <1>9, <1>10, <1>11,
     <1>12, <1>13, <1>14, <1>15, <1>16, <1>17
  DEF Next, Call, Await, Reclaim, Over

(***************************************************************************)
(* theft_call with fork implements the abstract call: every result it      *)
(* returns is the verdict its own child wrote, a FAIL for a child that     *)
(* ended without one, what the timeout allows, or the ERROR of a fault.    *)
(***************************************************************************)
THEOREM ForkCallRefines == Spec => ImplementsTrialCall
<1> QED
  BY RefInvariance, RefInit, RefNext, PTL
  DEF Spec, ImplementsTrialCall, Abstract!Spec
=============================================================================
