--------------------------- MODULE WorkflowEngine ---------------------------
(***************************************************************************)
(* One execution of the Local Runner's workflow engine                     *)
(* (packages/workflow-engine): WorkflowEngine.execute walks the steps of a *)
(* workflow, asks the adapter to perform each one, waits for human         *)
(* approvals and repairs through its coordinators, and lets a termination  *)
(* arbiter choose between the causes that race to end the run.             *)
(*                                                                         *)
(* The engine is one asynchronous function: the code between two awaits    *)
(* runs without interruption. Each action below is a part of such a        *)
(* segment with at most one change of the run's status and one of each     *)
(* step's, and reads the clock once; `pc` names where the function is.     *)
(* The total timer fires only while the function awaits. An external abort *)
(* may also come from inside a segment, because emitting a progress event  *)
(* calls the Runner's progress sink, which aborts the run when delivery    *)
(* has failed, so Abort may happen between any two actions.                *)
(***************************************************************************)
EXTENDS Naturals, Sequences, FiniteSets, RetryPolicy

CONSTANTS
  Workflows,    \* the workflows a run may be asked to execute: step types
  Modes,        \* the recovery modes it may be started with
  Deadline,     \* totalTimeoutMs: the clock counts from executionStartedAtMs
  Horizon       \* bound on the clock

ASSUME WorkflowsAssumption ==
  \A w \in Workflows : w \in Seq(StepType) /\ Len(w) > 0
ASSUME ModesAssumption == Modes \subseteq RecoveryMode
ASSUME TimeAssumption ==
  Deadline \in Nat \ {0} /\ Horizon \in Nat /\ Deadline <= Horizon

VARIABLES
  workflow,     \* the steps' types, in order
  mode,         \* options.recoveryMode
  now,          \* the clock
  signal,       \* the caller's AbortSignal is aborted
  controller,   \* the engine's own AbortController is aborted
  timer,        \* the total timer: "idle", "armed", "fired" or "cancelled"
  candidates,   \* TerminationArbiter.candidates, in sequence order
  locked,       \* TerminationArbiter.locked, NoCause while null
  run,          \* RunStateMachine.current
  status,       \* the status of each step's record
  attempts,     \* the attempts of each step's record
  answer,       \* the coordinator's latest answer about each step
  current,      \* index of the step loop
  trigger,      \* the trigger of the next attempt
  disposition,  \* what decideRetry said of the latest failed attempt
  stepError,    \* the stepError local: "none", "timeout" or "failure"
  pc,           \* where the function is
  result        \* the result execute returns, or that it threw

clockVars == <<now, signal, controller, timer>>
arbiterVars == <<candidates, locked>>
loopVars == <<current, trigger, disposition, stepError>>
stepVars == <<status, attempts, answer>>
vars == <<workflow, mode, clockVars, arbiterVars, run, stepVars, loopVars,
          pc, result>>

Steps == DOMAIN workflow
LastAttempt(i) == attempts[i][Len(attempts[i])]

isApprovalGatedStep(i) == i > 1 /\ workflow[i - 1] = "approval"

(* An approval step with no step after it fails the preflight.             *)
OrphanedApproval == workflow[Len(workflow)] = "approval"

-----------------------------------------------------------------------------
(* Termination causes and the arbiter                                      *)

RacingCause ==
  {"adapter_start_failed", "step_failed", "step_timeout", "run_cancelled",
   "total_timeout", "approval_rejected", "approval_expired",
   "approval_invalidated", "repair_aborted", "repair_expired",
   "repair_invalidated"}

TerminationCause ==
  RacingCause \cup {"completed", "preflight_failed", "cleanup_failed"}

NoCause == [cause |-> "none", at |-> 0]

TIE_PRIORITY(cause) ==
  CASE cause = "total_timeout" -> 0
    [] cause = "run_cancelled" -> 1
    [] OTHER -> 2

(* Candidate i sorts before candidate j: earliest first, then by priority, *)
(* then in the order they were recorded.                                   *)
Precedes(i, j, cs) ==
  LET pi == TIE_PRIORITY(cs[i].cause)
      pj == TIE_PRIORITY(cs[j].cause)
  IN \/ cs[i].at < cs[j].at
     \/ cs[i].at = cs[j].at /\ (pi < pj \/ (pi = pj /\ i <= j))

(* lockWinner on the candidates cs: the first call that finds a candidate  *)
(* fixes the winner for good.                                              *)
lockWinner(cs) ==
  IF locked # NoCause THEN locked
  ELSE IF cs = <<>> THEN NoCause
  ELSE cs[CHOOSE i \in DOMAIN cs : \A j \in DOMAIN cs : Precedes(i, j, cs)]

(* record: candidates that arrive after the winner is fixed are dropped.   *)
record(cs, cause, at) ==
  IF locked # NoCause THEN cs ELSE Append(cs, [cause |-> cause, at |-> at])

(* recordDeadlineIfElapsed adds the deadline, not the time it was noticed. *)
recordDeadlineIfElapsed(cs) ==
  IF now >= Deadline THEN record(cs, "total_timeout", Deadline) ELSE cs

(* What recordDeadlineIfElapsed followed by choosePrimary leaves behind.   *)
ChoosePrimary(cs) ==
  /\ candidates' = cs
  /\ locked' = lockWinner(cs)
  /\ controller' = (controller \/ now >= Deadline)

-----------------------------------------------------------------------------
(* How a cause ends a run and the step it strikes                          *)

CancellingCause == {"run_cancelled", "approval_rejected", "repair_aborted"}

terminalStatusFor(cause) ==
  CASE cause \in CancellingCause -> "cancelled"
    [] cause \in {"total_timeout", "approval_expired", "repair_expired"} ->
         "timed_out"
    [] cause \in {"approval_invalidated", "repair_invalidated"} ->
         "interrupted"
    [] OTHER -> "failed"

(* Mutant: the step is given the name of the attempt's error.              *)
stepStatusForMisspelt(cause) ==
  IF cause = "step_timeout" THEN "timeout" ELSE terminalStatusFor(cause)

(* A step timeout fails the run, but the step itself timed out.            *)
stepStatusFor(cause) ==
  IF cause = "step_timeout" THEN "timed_out" ELSE terminalStatusFor(cause)

-----------------------------------------------------------------------------
(* The adapter, the coordinators and what they may answer                  *)

TIMEOUT_ERROR_CODES == {"ACTION_TIMEOUT", "NAVIGATION_TIMEOUT", "STEP_TIMEOUT"}

Failure(codes, effects) == [code : codes, effect : effects]

(* How far a failing step of this type may have got.                       *)
FailureEffect(type) ==
  CASE type = "navigate" -> {"side_effect_possible"}
    [] type \in {"wait", "verify", "extract"} -> {"read_only"}
    [] OTHER -> {"not_started", "side_effect_possible"}

(* The failures the Playwright adapter's executeStep can report, by type   *)
(* of step. A refusal before the page is touched says nothing of the       *)
(* effect ("unknown"); a target that was not resolved means the action was *)
(* not started; once the engine's signal is aborted a cancellation may be  *)
(* reported instead.                                                       *)
executeStepFailures(type) ==
  Failure({"ACTION_FAILED", "ORIGIN_NOT_ALLOWED"}, {"unknown"})
  \cup CASE type = "navigate" ->
              Failure({"NAVIGATION_TIMEOUT", "ACTION_FAILED",
                       "POST_NAVIGATION_ORIGIN_NOT_ALLOWED"},
                      FailureEffect(type))
         [] type = "wait" -> Failure({"STEP_TIMEOUT"}, FailureEffect(type))
         [] type = "verify" ->
              Failure({"VERIFICATION_NOT_MATCHED", "LOCATOR_NOT_FOUND",
                       "LOCATOR_NOT_UNIQUE", "ACTION_TIMEOUT"},
                      FailureEffect(type))
         [] type = "extract" ->
              Failure({"EXTRACTION_VALUE_UNAVAILABLE", "LOCATOR_NOT_FOUND",
                       "LOCATOR_NOT_UNIQUE", "ACTION_TIMEOUT"},
                      FailureEffect(type))
         [] OTHER ->
              Failure({"LOCATOR_NOT_FOUND", "LOCATOR_NOT_UNIQUE"},
                      {"not_started"})
              \cup Failure({"ACTION_TIMEOUT", "ACTION_FAILED"},
                           FailureEffect(type))
  \cup IF controller
       THEN Failure({"EXECUTION_CANCELLED"}, {"unknown"} \cup FailureEffect(type))
       ELSE {}

(* The failures any step may report.                                       *)
StepFailure ==
  Failure({"ACTION_FAILED", "ORIGIN_NOT_ALLOWED", "NAVIGATION_TIMEOUT",
           "POST_NAVIGATION_ORIGIN_NOT_ALLOWED", "STEP_TIMEOUT",
           "VERIFICATION_NOT_MATCHED", "EXTRACTION_VALUE_UNAVAILABLE",
           "LOCATOR_NOT_FOUND", "LOCATOR_NOT_UNIQUE", "ACTION_TIMEOUT",
           "EXECUTION_CANCELLED"},
          {"unknown", "read_only", "not_started", "side_effect_possible"})

ApprovalDecision ==
  {"approved", "rejected", "expired", "cancelled", "invalidated"}
RepairDecision == {"retry", "abort", "expired", "cancelled", "invalidated"}

(* A coordinator that sees the signal aborted answers "cancelled" whatever *)
(* the Control Plane decided.                                              *)
CoordinatorAnswers(decisions) ==
  IF controller THEN {"cancelled"} ELSE decisions

(* The cause that a negative decision records.                             *)
approvalCause(decision) ==
  CASE decision = "rejected" -> "approval_rejected"
    [] decision = "expired" -> "approval_expired"
    [] decision = "invalidated" -> "approval_invalidated"
    [] OTHER -> "run_cancelled"

(* "retry" ends the run only when no retry was on offer.                   *)
repairCause(decision) ==
  CASE decision = "abort" -> "repair_aborted"
    [] decision = "expired" -> "repair_expired"
    [] decision = "cancelled" -> "run_cancelled"
    [] OTHER -> "repair_invalidated"

-----------------------------------------------------------------------------
(* Attempts                                                                *)

TriggerCount(i, t) ==
  Cardinality({k \in DOMAIN attempts[i] : attempts[i][k].trigger = t})

beginAttempt(i, t) ==
  attempts' = [attempts EXCEPT ![i] =
                 Append(@, [trigger |-> t, status |-> "running",
                            effect |-> "unknown"])]

finishAttempt(i, st, eff) ==
  attempts' = [attempts EXCEPT ![i] =
                 [@ EXCEPT ![Len(@)] =
                    [trigger |-> LastAttempt(i).trigger, status |-> st,
                     effect |-> eff]]]

attemptStatusFor(code) ==
  CASE code = "EXECUTION_CANCELLED" -> "cancelled"
    [] code \in TIMEOUT_ERROR_CODES -> "timed_out"
    [] OTHER -> "failed"

approvalAttemptStatus(decision) ==
  CASE decision = "expired" -> "timed_out"
    [] decision = "invalidated" -> "interrupted"
    [] OTHER -> "cancelled"

(* decideRetry, asked about the failure f of step i's latest attempt.      *)
DispositionOf(i, f) ==
  decideRetry([stepType |-> workflow[i], errorCode |-> f.code,
               effectCertainty |-> f.effect, recoveryMode |-> mode,
               automaticRetryCount |-> TriggerCount(i, "automatic_retry"),
               manualRetryCount |-> TriggerCount(i, "manual_retry"),
               totalAttemptCount |-> Len(attempts[i]),
               approvalGated |-> isApprovalGatedStep(i)])

-----------------------------------------------------------------------------
(* The result                                                              *)

compatibleStatuses(st) ==
  CASE st \in {"succeeded", "failed"} -> {st}
    [] st = "cancelled" -> {"cancelled", "failed"}
    [] OTHER -> {st, "cancelled", "failed"}

(* What the result schema demands of step i, given its final status st:    *)
(* it is terminal, a skipped step has no attempts, and the last attempt is *)
(* one that can explain the status.                                        *)
StepResultParses(i, st) ==
  /\ st \in TerminalEngineStepStatus
  /\ st = "skipped" => attempts[i] = <<>>
  /\ st # "skipped" /\ attempts[i] # <<>> =>
       LastAttempt(i).status \in compatibleStatuses(st)

NoResult == [status |-> "none", cause |-> "none"]
ThrownResult == [status |-> "thrown", cause |-> "none"]

(* buildWorkflowExecutionResult parses what it built and throws when the   *)
(* schema refuses it; no step's status changes with it.                    *)
buildWorkflowExecutionResult(st, cause) ==
  IF \A i \in Steps : StepResultParses(i, status'[i])
  THEN [status |-> st, cause |-> cause]
  ELSE ThrownResult

skipPending ==
  [i \in Steps |-> IF status[i] = "pending" THEN "skipped" ELSE status[i]]

-----------------------------------------------------------------------------
Init ==
  /\ workflow \in Workflows
  /\ mode \in Modes
  /\ now = 0
  /\ signal \in BOOLEAN
  /\ controller = FALSE
  /\ timer = "idle"
  /\ candidates = <<>>
  /\ locked = NoCause
  /\ run = "pending"
  /\ status = [i \in Steps |-> "pending"]
  /\ attempts = [i \in Steps |-> <<>>]
  /\ answer = [i \in Steps |-> "none"]
  /\ current = 1
  /\ trigger = "initial"
  /\ disposition = "none"
  /\ stepError = "none"
  /\ pc = "new"
  /\ result = NoResult

-----------------------------------------------------------------------------
(* The environment: the clock, the timer and the caller's signal           *)

Tick ==
  /\ pc \notin {"new", "validating", "done"}
  /\ now < Horizon
  /\ now' = now + 1
  /\ UNCHANGED <<workflow, mode, signal, controller, timer, arbiterVars, run,
                 stepVars, loopVars, pc, result>>

Awaiting ==
  pc \in {"starting", "executing", "awaitingApproval", "awaitingRepair"}

(* Mutant: the timer records the cause but does not abort the awaited      *)
(* call.                                                                   *)
TimerWithoutAbort ==
  /\ Awaiting /\ timer = "armed" /\ now >= Deadline
  /\ timer' = "fired"
  /\ candidates' = record(candidates, "total_timeout", Deadline)
  /\ UNCHANGED <<workflow, mode, now, signal, controller, locked, run,
                 stepVars, loopVars, pc, result>>

(* The total timer's callback.                                             *)
Timer ==
  /\ Awaiting
  /\ timer = "armed"
  /\ now >= Deadline
  /\ timer' = "fired"
  /\ candidates' = record(candidates, "total_timeout", Deadline)
  /\ controller' = TRUE
  /\ UNCHANGED <<workflow, mode, now, signal, locked, run, stepVars, loopVars,
                 pc, result>>

(* The caller aborts. The engine listens from the end of the preflight     *)
(* until it has chosen how to end; before that it looks at the signal.     *)
Abort ==
  /\ ~signal
  /\ signal' = TRUE
  /\ \/ /\ pc \in {"new", "validating"}
        /\ UNCHANGED <<candidates, controller>>
     \/ /\ pc \notin {"new", "validating", "cancelling", "stopping", "done"}
        /\ candidates' = record(candidates, "run_cancelled", now)
        /\ controller' = TRUE
  /\ UNCHANGED <<workflow, mode, now, timer, locked, run, stepVars, loopVars,
                 pc, result>>

-----------------------------------------------------------------------------
(* Up to the start of the adapter                                          *)

CancelBeforeStart ==
  /\ run' = "cancelling"
  /\ status' = skipPending
  /\ pc' = "cancelling"
  /\ UNCHANGED <<timer, result>>

(* execute up to the preflight.                                            *)
Begin ==
  /\ pc = "new"
  /\ \/ signal /\ CancelBeforeStart
     \/ /\ ~signal
        /\ run' = "validating"
        /\ pc' = "validating"
        /\ UNCHANGED <<status, timer, result>>
  /\ UNCHANGED <<workflow, mode, now, signal, controller, arbiterVars, attempts,
                 answer, loopVars>>

(* The preflight's outcome. Which of its many checks fails is not          *)
(* modelled, except that an approval with nothing to gate always does.     *)
Preflight ==
  /\ pc = "validating"
  /\ \/ signal /\ CancelBeforeStart
     \/ /\ ~signal
        /\ run' = "failed"
        /\ status' = skipPending
        /\ result' = buildWorkflowExecutionResult("failed", "preflight_failed")
        /\ pc' = "done"
        /\ UNCHANGED timer
     \/ /\ ~signal
        /\ ~OrphanedApproval
        /\ run' = "starting"
        /\ timer' = "armed"
        /\ pc' = "starting"
        /\ UNCHANGED <<status, result>>
  /\ UNCHANGED <<workflow, mode, now, signal, controller, arbiterVars, attempts,
                 answer, loopVars>>

(* An abort seen before the adapter was started needs no cleanup.          *)
Cancelled ==
  /\ pc = "cancelling"
  /\ run' = "cancelled"
  /\ pc' = "done"
  /\ UNCHANGED <<workflow, mode, clockVars, arbiterVars, stepVars, loopVars>>
  /\ result' = buildWorkflowExecutionResult("cancelled", "run_cancelled")

(* adapter.start returns or throws.                                        *)
AdapterStarts(ok) ==
  /\ pc = "starting"
  /\ ChoosePrimary(recordDeadlineIfElapsed(
       IF ok THEN candidates
             ELSE record(candidates, "adapter_start_failed", now)))
  /\ IF locked' = NoCause THEN run' = "running" /\ pc' = "stepHead"
                          ELSE run' = run /\ pc' = "finish"
  /\ UNCHANGED <<workflow, mode, now, signal, timer, stepVars, loopVars, result>>

-----------------------------------------------------------------------------
(* The step loop                                                           *)

(* The head of the loop: the run ends here when something else ended it    *)
(* between two steps, and the loop ends after the last one.                *)
StepHead ==
  /\ pc = "stepHead"
  /\ \/ /\ current > Len(workflow)
        /\ pc' = "finish"
        /\ UNCHANGED <<controller, arbiterVars, status, trigger, stepError>>
     \/ /\ current <= Len(workflow)
        /\ ChoosePrimary(recordDeadlineIfElapsed(candidates))
        /\ IF locked' # NoCause
           THEN pc' = "finish" /\ UNCHANGED <<status, trigger, stepError>>
           ELSE /\ status' = [status EXCEPT ![current] = "running"]
                /\ trigger' = "initial"
                /\ stepError' = "none"
                /\ pc' = IF workflow[current] = "approval"
                         THEN "approvalHead" ELSE "attemptHead"
  /\ UNCHANGED <<workflow, mode, now, signal, timer, run, attempts, answer,
                 current, disposition, result>>

(* An approval step asks the coordinator; nothing is checked in between.   *)
RequestApproval ==
  /\ pc = "approvalHead"
  /\ beginAttempt(current, "initial")
  /\ status' = [status EXCEPT ![current] = "waiting_for_approval"]
  /\ run' = "waiting_for_approval"
  /\ pc' = "awaitingApproval"
  /\ UNCHANGED <<workflow, mode, clockVars, arbiterVars, answer, loopVars,
                 result>>

ApprovalAnswers(decision) ==
  /\ pc = "awaitingApproval"
  /\ decision \in CoordinatorAnswers(ApprovalDecision)
  /\ answer' = [answer EXCEPT ![current] = decision]
  /\ pc' = "approvalAnswered"
  /\ UNCHANGED <<workflow, mode, clockVars, arbiterVars, run, status, attempts,
                 loopVars, result>>

(* The coordinator throws: the request could not be made or followed.      *)
ApprovalRequestFails ==
  /\ pc = "awaitingApproval"
  /\ finishAttempt(current, "failed", "unknown")
  /\ stepError' = "failure"
  /\ pc' = "settle"
  /\ UNCHANGED <<workflow, mode, clockVars, arbiterVars, run, status, answer,
                 current, trigger, disposition, result>>

(* Mutant: whatever was decided, the gate opens unless the run is ending.  *)
ApprovalResumesOpen ==
  /\ pc = "approvalAnswered"
  /\ ChoosePrimary(recordDeadlineIfElapsed(candidates))
  /\ IF locked' = NoCause
     THEN /\ run' = "running"
          /\ status' = [status EXCEPT ![current] = "succeeded"]
          /\ finishAttempt(current, "succeeded", "completed")
          /\ current' = current + 1
          /\ pc' = "stepHead"
     ELSE pc' = "settle" /\ UNCHANGED <<run, status, attempts, current>>
  /\ UNCHANGED <<workflow, mode, now, signal, timer, answer, trigger,
                 disposition, stepError, result>>

(* The engine takes up the approval decision. An approval that arrives     *)
(* when the run is already ending changes nothing: its attempt is left     *)
(* "running".                                                              *)
ApprovalResumes ==
  LET decision == answer[current]
      atHand == recordDeadlineIfElapsed(candidates)
      primary == lockWinner(atHand)
  IN /\ pc = "approvalAnswered"
     /\ locked' = primary
     /\ controller' = (controller \/ now >= Deadline)
     /\ \/ /\ decision = "approved" /\ primary = NoCause
           /\ run' = "running"
           /\ status' = [status EXCEPT ![current] = "succeeded"]
           /\ finishAttempt(current, "succeeded", "completed")
           /\ candidates' = atHand
           /\ current' = current + 1
           /\ pc' = "stepHead"
        \/ /\ decision = "approved" /\ primary # NoCause
           /\ candidates' = atHand
           /\ pc' = "settle"
           /\ UNCHANGED <<run, status, attempts, current>>
        \/ /\ decision # "approved"
           /\ finishAttempt(current, approvalAttemptStatus(decision), "read_only")
           /\ candidates' = IF primary # NoCause THEN atHand
                            ELSE record(atHand, approvalCause(decision), now)
           /\ pc' = "settle"
           /\ UNCHANGED <<run, status, current>>
     /\ UNCHANGED <<workflow, mode, now, signal, timer, answer, trigger,
                    disposition, stepError, result>>

(* Mutant: an attempt starts without another look at the arbiter.          *)
AttemptHeadUnchecked ==
  /\ pc = "attemptHead"
  /\ beginAttempt(current, trigger)
  /\ pc' = "executing"
  /\ UNCHANGED <<workflow, mode, clockVars, arbiterVars, run, status, answer,
                 loopVars, result>>

(* The head of the attempt loop.                                           *)
AttemptHead ==
  /\ pc = "attemptHead"
  /\ ChoosePrimary(recordDeadlineIfElapsed(candidates))
  /\ IF locked' # NoCause THEN pc' = "settle" /\ UNCHANGED attempts
     ELSE beginAttempt(current, trigger) /\ pc' = "executing"
  /\ UNCHANGED <<workflow, mode, now, signal, timer, run, status, answer,
                 loopVars, result>>

(* adapter.executeStep returns.                                            *)
StepSucceeds ==
  /\ pc = "executing"
  /\ finishAttempt(current, "succeeded", "completed")
  /\ pc' = "settle"
  /\ UNCHANGED <<workflow, mode, clockVars, arbiterVars, run, status, answer,
                 loopVars, result>>

(* adapter.executeStep throws f: the attempt is finished, and the retry    *)
(* policy sends the step back, to a human, or to its end.                  *)
StepFails(f) ==
  LET d == DispositionOf(current, f)
  IN /\ pc = "executing"
     /\ f \in executeStepFailures(workflow[current])
     /\ finishAttempt(current, attemptStatusFor(f.code), f.effect)
     /\ disposition' = d
     /\ \/ /\ d = "automatic_retry"
           /\ trigger' = "automatic_retry"
           /\ pc' = "attemptHead"
           /\ UNCHANGED <<run, status, stepError>>
        \/ /\ d \in {"manual_repair", "locator_proposal"}
           /\ status' = [status EXCEPT ![current] = "waiting_for_repair"]
           /\ run' = "waiting_for_repair"
           /\ pc' = "awaitingRepair"
           /\ UNCHANGED <<trigger, stepError>>
        \/ /\ d \in {"none", "new_run_required"}
           /\ stepError' = IF d = "none" /\ f.code \in TIMEOUT_ERROR_CODES
                           THEN "timeout" ELSE "failure"
           /\ pc' = "settle"
           /\ UNCHANGED <<run, status, trigger>>
     /\ UNCHANGED <<workflow, mode, clockVars, arbiterVars, answer, current,
                    result>>

RepairAnswers(decision) ==
  /\ pc = "awaitingRepair"
  /\ decision \in CoordinatorAnswers(RepairDecision)
  /\ answer' = [answer EXCEPT ![current] = decision]
  /\ pc' = "repairAnswered"
  /\ UNCHANGED <<workflow, mode, clockVars, arbiterVars, run, status, attempts,
                 loopVars, result>>

RepairRequestFails ==
  /\ pc = "awaitingRepair"
  /\ stepError' = "failure"
  /\ pc' = "settle"
  /\ UNCHANGED <<workflow, mode, clockVars, arbiterVars, run, stepVars, current,
                 trigger, disposition, result>>

(* The engine takes up the repair decision: one more attempt, if a retry   *)
(* was on offer, was granted and nothing else has ended the run.           *)
RepairResumes ==
  LET decision == answer[current]
      atHand == recordDeadlineIfElapsed(candidates)
      primary == lockWinner(atHand)
      again == disposition = "manual_repair" /\ decision = "retry"
  IN /\ pc = "repairAnswered"
     /\ locked' = primary
     /\ controller' = (controller \/ now >= Deadline)
     /\ \/ /\ again /\ primary = NoCause
           /\ run' = "running"
           /\ status' = [status EXCEPT ![current] = "running"]
           /\ trigger' = "manual_retry"
           /\ candidates' = atHand
           /\ pc' = "attemptHead"
        \/ /\ ~again \/ primary # NoCause
           /\ candidates' = IF primary # NoCause THEN atHand
                            ELSE record(atHand, repairCause(decision), now)
           /\ pc' = "settle"
           /\ UNCHANGED <<run, status, trigger>>
     /\ UNCHANGED <<workflow, mode, now, signal, timer, attempts, answer,
                    current, disposition, stepError, result>>

(* After the step: its error joins the race, and the winner, if there is   *)
(* one, decides the step's status.                                         *)
Settle ==
  LET atHand == recordDeadlineIfElapsed(candidates)
      cause == IF stepError = "timeout" THEN "step_timeout" ELSE "step_failed"
  IN /\ pc = "settle"
     /\ ChoosePrimary(IF stepError = "none" THEN atHand
                      ELSE record(atHand, cause, now))
     /\ \/ /\ locked' = NoCause
           /\ status' = [status EXCEPT ![current] = "succeeded"]
           /\ current' = current + 1
           /\ pc' = "stepHead"
        \/ /\ locked' # NoCause
           /\ status' = [status EXCEPT ![current] = stepStatusFor(locked'.cause)]
           /\ pc' = "finish"
           /\ UNCHANGED current
     /\ UNCHANGED <<workflow, mode, now, signal, timer, run, attempts, answer,
                    trigger, disposition, stepError, result>>

-----------------------------------------------------------------------------
(* The end                                                                 *)

(* The steps that never ran are skipped, the run moves to its end, the     *)
(* timer and the abort listener are removed and the adapter is stopped.    *)
Finish ==
  /\ pc = "finish"
  /\ timer' = "cancelled"
  /\ pc' = "stopping"
  /\ \/ locked = NoCause /\ UNCHANGED <<status, run>>
     \/ /\ locked # NoCause
        /\ status' = skipPending
        /\ run' = IF locked.cause \in CancellingCause THEN "cancelling"
                  ELSE terminalStatusFor(locked.cause)
  /\ UNCHANGED <<workflow, mode, now, signal, controller, arbiterVars, attempts,
                 answer, loopVars, result>>

(* adapter.stop answers; an error matters only to a run that would         *)
(* otherwise have succeeded.                                               *)
AdapterStops(clean) ==
  LET status_ == IF locked # NoCause THEN terminalStatusFor(locked.cause)
                 ELSE IF clean THEN "succeeded" ELSE "failed"
      cause == IF locked # NoCause THEN locked.cause
               ELSE IF clean THEN "completed" ELSE "cleanup_failed"
  IN /\ pc = "stopping"
     /\ run' = status_
     /\ pc' = "done"
     /\ UNCHANGED <<workflow, mode, clockVars, arbiterVars, stepVars, loopVars>>
     /\ result' = buildWorkflowExecutionResult(status_, cause)

-----------------------------------------------------------------------------
Engine ==
  \/ Begin \/ Preflight \/ Cancelled
  \/ StepHead \/ RequestApproval \/ ApprovalResumes
  \/ AttemptHead \/ RepairResumes \/ Settle \/ Finish

Adapter ==
  \/ \E ok \in BOOLEAN : AdapterStarts(ok)
  \/ StepSucceeds
  \/ \E f \in StepFailure : StepFails(f)
  \/ \E clean \in BOOLEAN : AdapterStops(clean)

Coordinators ==
  \/ \E decision \in ApprovalDecision : ApprovalAnswers(decision)
  \/ ApprovalRequestFails
  \/ \E decision \in RepairDecision : RepairAnswers(decision)
  \/ RepairRequestFails

Next == Tick \/ Timer \/ Abort \/ Engine \/ Adapter \/ Coordinators

Spec == Init /\ [][Next]_vars

(* The engine's own code keeps running, time passes and an armed timer     *)
(* fires; the adapter answers, because every call it makes has a timeout;  *)
(* the coordinators need answer only once the engine has aborted them, as  *)
(* their polling loops watch the signal.                                   *)
FairSpec ==
  /\ Spec
  /\ WF_vars(Engine) /\ WF_vars(Adapter)
  /\ WF_vars(Tick) /\ WF_vars(Timer)
  /\ WF_vars(controller /\ Coordinators)

-----------------------------------------------------------------------------
(* Properties                                                              *)

Attempt ==
  [trigger : RetryTrigger, status : StepAttemptStatus, effect : EffectCertainty]

Candidate == [cause : RacingCause, at : Nat]

(* Every variable keeps the type the engine's locals and records have.     *)
TypeOK ==
  /\ workflow \in Workflows
  /\ mode \in Modes
  /\ now \in 0..Horizon
  /\ signal \in BOOLEAN
  /\ controller \in BOOLEAN
  /\ timer \in {"idle", "armed", "fired", "cancelled"}
  /\ candidates \in Seq(Candidate)
  /\ locked \in Candidate \cup {NoCause}
  /\ run \in EngineRunStatus
  /\ status \in [Steps -> EngineStepStatus]
  /\ attempts \in [Steps -> Seq(Attempt)]
  /\ answer \in [Steps -> {"none"} \cup ApprovalDecision \cup RepairDecision]
  /\ current \in 1..(Len(workflow) + 1)
  /\ trigger \in RetryTrigger
  /\ disposition \in {"none", "automatic_retry", "manual_repair",
                      "locator_proposal", "new_run_required"}
  /\ stepError \in {"none", "timeout", "failure"}
  /\ pc \in {"new", "validating", "cancelling", "starting", "stepHead",
             "approvalHead", "awaitingApproval", "approvalAnswered",
             "attemptHead", "executing", "awaitingRepair", "repairAnswered",
             "settle", "finish", "stopping", "done"}
  /\ result \in [status : TerminalEngineRunStatus, cause : TerminationCause]
                  \cup {NoResult, ThrownResult}

(* A step is never touched before every earlier one has succeeded, however *)
(* retries, repairs, approvals, timeouts and aborts interleave.            *)
StepsInOrder ==
  \A i, j \in Steps :
    i < j /\ (status[j] \notin {"pending", "skipped"} \/ attempts[j] # <<>>)
      => status[i] = "succeeded"

(* The adapter is never asked to perform a gated step unless the Control   *)
(* Plane answered that its approval was granted, and the answer was taken  *)
(* up before the run began to end.                                         *)
GateHeld ==
  \A i \in Steps :
    isApprovalGatedStep(i) /\ attempts[i] # <<>> =>
      answer[i - 1] = "approved" /\ status[i - 1] = "succeeded"

(* No attempt follows one that may have changed the page: the effect of a  *)
(* step is never produced twice, neither by the automatic retry nor by a   *)
(* human's decision to retry.                                              *)
NoEffectRepeated ==
  \A i \in Steps : \A k \in DOMAIN attempts[i] :
    k < Len(attempts[i]) =>
      /\ attempts[i][k].status \in {"failed", "timed_out"}
      /\ attempts[i][k].effect \in {"read_only", "not_started"}

(* Whatever the engine notices first, a run that ended at or after its     *)
(* deadline is reported as a timeout: a late failure, rejection or abort   *)
(* cannot take the deadline's place.                                       *)
DeadlineWins ==
  locked # NoCause /\ locked.cause # "total_timeout" => locked.at < Deadline

(* The order of the steps, the approval gate and the deadline hold however *)
(* retries, repairs, answers, timeouts and aborts interleave.              *)
EngineRules == StepsInOrder /\ GateHeld /\ DeadlineWins

(* What the run reports fits what its steps went through: it completed, or *)
(* failed only in cleaning up, exactly when every step succeeded, and the  *)
(* status it returns is the last one it announced.                         *)
OutcomeMatchesSteps ==
  pc = "done" =>
    /\ \A i \in Steps : status[i] \in TerminalEngineStepStatus
    /\ result # ThrownResult =>
         /\ result.status = run
         /\ result.cause \in {"completed", "cleanup_failed"} <=>
              \A i \in Steps : status[i] = "succeeded"

(* No effect is produced twice on the way to the reported outcome, and the *)
(* outcome is what the steps went through.                                 *)
EngineOutcome == NoEffectRepeated /\ OutcomeMatchesSteps

(* Every status the engine announces is one its state machines allow next, *)
(* which are the tables the Control Plane checks progress against.         *)
LegalTransitions ==
  [][/\ run' # run => run' \in validRunTransitions[run]
     /\ \A i \in Steps :
          status'[i] # status[i] =>
            status'[i] \in validStepTransitions[status[i]]]_vars

(* The adapter is never asked to perform a step once the caller has        *)
(* aborted, the deadline has passed or a cause has been chosen.            *)
NothingStartsWhileEnding ==
  [][pc # "executing" /\ pc' = "executing" =>
       ~signal /\ now < Deadline /\ locked = NoCause]_vars

(* The engine announces only the moves its tables allow, and starts no     *)
(* browser action once the run is bound to end.                            *)
EngineMoves == LegalTransitions /\ NothingStartsWhileEnding

(* Every execution ends, because at the deadline the timer aborts whatever *)
(* the engine is waiting for.                                              *)
Terminates == <>(pc = "done")

(* Every execution that ends returns a result: the one it built satisfies  *)
(* the result schema. (It does not: see the run engine_result.)            *)
ResultReturned == pc = "done" => result # ThrownResult

=============================================================================
