----------------------- MODULE RunDispatchGateProofs -----------------------
(***************************************************************************)
(* Theorems of RunDispatch about what stands between a run and its end:    *)
(* the occurrence of the schedule it was started for, the approvals its    *)
(* steps wait for, and the repairs of its failed attempts.  Each part has  *)
(* an inductive invariant of its own; the proofs first say how one step    *)
(* of Next moves the rows of one run and then that such a move preserves   *)
(* the invariant.  The ledger's invariants (RunDispatchProofs) are used    *)
(* throughout.                                                             *)
(***************************************************************************)
EXTENDS RunDispatchProofs

-----------------------------------------------------------------------------
(* Occurrences                                                             *)

(* What a step does to the occurrence of a run: nothing, or it opens the   *)
(* occurrence of a run that is created, or closes it with the run ended    *)
(* and, if what the run did is unknown, its schedule paused.               *)
OccurrenceMoves(r) ==
  \/ occurrence'[r] = occurrence[r]
  \/ occurrence'[r] = "DISPATCHED"
  \/ /\ status'[r] \in TERMINAL_STATUSES
     /\ status'[r] = "INTERRUPTED" => r \in autoPaused'

(* Every step moves occurrences so, and no step takes a pause back.        *)
LEMMA NextOccurrences ==
  ASSUME TypeOK, [Next]_vars
  PROVE  (\A r \in Runs : OccurrenceMoves(r)) /\ autoPaused \subseteq autoPaused'
  <1> USE DEF leaseVars, recordVars, approvalVars, repairVars, logVars, runVars,
              scheduleVars, envVars
  <1> DEFINE Goal == /\ \A r \in Runs : OccurrenceMoves(r)
                     /\ autoPaused \subseteq autoPaused'
  <1> SUFFICES Goal
    OBVIOUS
  <1>0. ASSUME UNCHANGED <<occurrence, autoPaused>> PROVE Goal
    BY <1>0 DEF OccurrenceMoves
  <1> HIDE DEF Goal
  <1>1. CASE Tick \/ SupersedePolicy \/ UNCHANGED vars
    BY <1>0, <1>1 DEF Tick, SupersedePolicy, vars
  <1>2. CASE \E n \in Runners : SyncInventory(n) \/ RevokeRunner(n)
    BY <1>0, <1>2 DEF SyncInventory, RevokeRunner
  <1>3. ASSUME NEW n \in Runners, NEW r \in Runs, CreateRun(r, n) PROVE Goal
    BY <1>0, <1>3 DEF CreateRun
  <1>4. ASSUME NEW n \in Runners, NEW r \in Runs, processOccurrence(r, n)
        PROVE  Goal
    BY <1>4 DEF processOccurrence, OccurrenceMoves, TypeOK, Goal
  <1>5. ASSUME NEW n \in Runners, NEW a, NEW r \in Runs, NEW t, NEW sent,
               Claim(n, a, r, t, sent)
        PROVE  Goal
    BY <1>0, <1>5 DEF Claim
  <1>6. ASSUME NEW n \in Runners, NEW a, NEW r \in Runs, NEW t, NEW sent,
               FailStalePin(n, a, r, t, sent)
        PROVE  Goal
    BY <1>0, <1>6 DEF FailStalePin
  <1>7. ASSUME NEW r \in Runs, NEW t, RunnerRequest(r, t) PROVE Goal
    <2>1. CASE \/ RenewLease(r, t)
               \/ \E next \in Reports : IngestRunStatus(r, t, next)
      BY <1>0, <2>1 DEF RenewLease, IngestRunStatus
    <2>2. ASSUME NEW s, NEW next, IngestStepStatus(r, s, t, next) PROVE Goal
      BY <1>0, <2>2 DEF IngestStepStatus
    <2>3. ASSUME NEW s, NEW due,
                 \/ IngestOutput(r, s, t) \/ PollExpiredApproval(r, s, t)
                 \/ CreateApproval(r, s, t, due) \/ CreateRepair(r, s, t, due)
          PROVE  Goal
      BY <1>0, <2>3 DEF IngestOutput, CreateApproval, CreateRepair,
                        PollExpiredApproval
    <2>4. ASSUME NEW s, NEW trigger, IngestAttemptStarted(r, s, t, trigger)
          PROVE  Goal
      BY <1>0, <2>4 DEF IngestAttemptStarted
    <2>5. ASSUME NEW s, NEW n, NEW st, NEW code, NEW effect,
                 IngestAttemptFinished(r, s, t, n, st, code, effect)
          PROVE  Goal
      BY <1>0, <2>5 DEF IngestAttemptFinished
    <2>6. ASSUME NEW c, NEW result, Complete(r, t, c, result) PROVE Goal
      BY <1>0, <2>6 DEF Complete
    <2>7. ASSUME NEW s, NEW n, ExpireRepairRead(r, s, n, t, FALSE) PROVE Goal
      BY <1>0, <2>7 DEF ExpireRepairRead
    <2> QED
      BY <1>7, <2>1, <2>2, <2>3, <2>4, <2>5, <2>6, <2>7 DEF RunnerRequest
  <1>8. ASSUME NEW r \in Runs, NEW t, UserRequest(r, t) PROVE Goal
    BY <1>0, <1>8 DEF UserRequest, CancelQueued, CancelActive, DecideApproval,
       DecideRepair, ExpireRepairRead
  <1>9. ASSUME NEW r \in Runs, NEW t, Reconcile(r, t) PROVE Goal
    <2>1. CASE ExpireLease(r, t) \/ \E s \in Steps : ExpireApproval(r, s, t)
      BY <1>0, <2>1 DEF ExpireLease, ExpireApproval
    <2>2. CASE handleRunCompletion(r)
      <3>1. /\ status' = status /\ status[r] \in TERMINAL_STATUSES
            /\ status[r] = "INTERRUPTED" => r \in autoPaused'
            /\ autoPaused \subseteq autoPaused'
        BY <2>2 DEF handleRunCompletion
      <3>2. \A x \in Runs \ {r} : occurrence'[x] = occurrence[x]
        BY <2>2 DEF handleRunCompletion, TypeOK
      <3> QED
        BY <3>1, <3>2 DEF OccurrenceMoves, Goal
    <2> QED
      BY <1>9, <2>1, <2>2 DEF Reconcile
  <1>10. CASE \E r \in Runs : CompleteExpired(r)
    BY <1>0, <1>10 DEF CompleteExpired
  <1>11. CASE \E x \in expiring : ExpireRepairWrite(x)
    BY <1>0, <1>11 DEF ExpireRepairWrite
  <1> QED
    BY <1>1, <1>2, <1>3, <1>4, <1>5, <1>6, <1>7, <1>8, <1>9, <1>10, <1>11
       DEF Next, Dispatch

(* An ended run keeps its row.                                             *)
LEMMA EndedRowKept ==
  ASSUME TypeOK, LedgerInv, [Next]_vars, NEW r \in Runs, Terminal(r)
  PROVE  Kept(r)
  <1>1. status[r] \notin ACTIVE_STATUSES \cup {"QUEUED", "ABSENT"}
    BY DEF Terminal, TERMINAL_STATUSES, ACTIVE_STATUSES
  <1>2. LedgerMoves
    BY NextMoves DEF LedgerInv
  <1> QED
    BY <1>1, <1>2
       DEF LedgerMoves, RowsMove, RowQueued, RowClaimed, Moved, Progressed, Ended

(* A scheduled run whose effect nobody knows has paused its schedule by    *)
(* the time its occurrence is closed, and no occurrence closes before its  *)
(* run has ended.                                                          *)
THEOREM AmbiguityPausesSchedule == Spec => []AmbiguousEndPauses
  <1>1. Init => AmbiguousEndPauses
    BY InputAssumption DEF Init, AmbiguousEndPauses
  <1>2. TypeOK /\ LedgerInv /\ AmbiguousEndPauses /\ [Next]_vars
          => AmbiguousEndPauses'
    <2> SUFFICES ASSUME TypeOK, LedgerInv, AmbiguousEndPauses, [Next]_vars,
                        NEW r \in Runs,
                        occurrence'[r] \notin {"NONE", "DISPATCHED"}
                 PROVE  /\ status'[r] \in TERMINAL_STATUSES
                        /\ status'[r] = "INTERRUPTED" => r \in autoPaused'
      BY DEF AmbiguousEndPauses, Terminal
    <2>1. OccurrenceMoves(r) /\ autoPaused \subseteq autoPaused'
      BY NextOccurrences
    <2>2. CASE occurrence'[r] = occurrence[r]
      <3>1. Terminal(r) /\ (status[r] = "INTERRUPTED" => r \in autoPaused)
        BY <2>2 DEF AmbiguousEndPauses
      <3>2. Kept(r)
        BY <2>2, <3>1, EndedRowKept
      <3> QED
        BY <2>1, <3>1, <3>2 DEF Kept, Terminal
    <2> QED
      BY <2>1, <2>2 DEF OccurrenceMoves
  <1> QED
    BY <1>1, <1>2, TypeCorrect, LedgerSafe, PTL DEF Spec
-----------------------------------------------------------------------------
(* Approvals and completions                                               *)

ExpiryCauses == {"approval_expired", "repair_expired"}

(* No approval is asked for before the run is claimed, and only at the     *)
(* approval steps.                                                         *)
UnaskedBeforeClaim ==
  \A r \in Runs, s \in Steps :
    /\ status[r] \in {"ABSENT", "QUEUED"} => approval[r][s] = "NONE"
    /\ approval[r][s] # "NONE" => Workflow[s] = "approval"

(* A completion is on record only of an ended run; one without an event of *)
(* its own is the Runner's report of an expiry that had ended the run.     *)
CompletedHasEnded ==
  \A r \in Runs :
    /\ completed[r] => Terminal(r) /\ (evidence[r] = 0 => status[r] = "TIMED_OUT")
    /\ Terminal(r) /\ cause[r] = "approval_expired" /\ ~completed[r] =>
         evidence[r] = 0

(* An accepted completion leaves no approval open.                         *)
AcceptedIsDecided ==
  \A r \in Runs, s \in Steps : Accepted(r) => approval[r][s] # "PENDING"

(* The inductive invariant behind ApprovalsSettled, GateRespected and      *)
(* AcceptedRunSettled.                                                     *)
GateInv ==
  /\ UnaskedBeforeClaim /\ CompletedHasEnded /\ AcceptedIsDecided
  /\ ApprovalsSettled /\ GateRespected /\ AcceptedRunSettled

(* Requests are only resolved, ended steps stay as they are, and a run     *)
(* that ends now has no open request unless an expiry ended it.            *)
GateQuiet(r) ==
  /\ \A s \in Steps :
       \/ approval'[r][s] = approval[r][s]
       \/ approval[r][s] = "PENDING" /\ approval'[r][s] \in ResolvedApproval
  /\ completed'[r] = completed[r]
  /\ status[r] \in TERMINAL_STATUSES =>
       \A s \in Steps :
         step[r][s] \in TerminalStepStatus => step'[r][s] = step[r][s]
  /\ status[r] \notin TERMINAL_STATUSES /\ status'[r] \in TERMINAL_STATUSES =>
       /\ cause'[r] \in ExpiryCauses \/ \A s \in Steps : approval'[r][s] # "PENDING"
       /\ cause'[r] = "approval_expired" => evidence'[r] = evidence[r]

(* An approval is asked for.                                               *)
GateAsked(r) ==
  /\ status[r] \in ACTIVE_STATUSES /\ status'[r] \in ACTIVE_STATUSES
  /\ completed'[r] = completed[r]
  /\ \E s \in Steps : /\ Workflow[s] = "approval" /\ approval[r][s] = "NONE"
                      /\ approval'[r] = [approval[r] EXCEPT ![s] = "PENDING"]

(* The Runner's result is accepted.                                        *)
GateCompleted(r) ==
  /\ status[r] \in ACTIVE_STATUSES /\ status'[r] \in TERMINAL_STATUSES
  /\ completed'[r] = TRUE /\ evidence'[r] = evidence[r] + 1
  /\ approval'[r] = approval[r]
  /\ \A s \in Steps :
       /\ approval[r][s] # "PENDING"
       /\ approval[r][s] \in ResolvedApproval \ {"APPROVED"} /\ s + 1 \in Steps
            => step'[r][s + 1] = "SKIPPED"
       /\ step'[r][s] \in TerminalStepStatus
       /\ output'[r][s] <=> Workflow[s] = "extract" /\ step'[r][s] = "SUCCEEDED"

(* The Runner's report of an approval's expiry is stored.                  *)
GateReported(r) ==
  /\ status[r] = "TIMED_OUT" /\ cause[r] = "approval_expired" /\ ~completed[r]
  /\ Kept(r) /\ approval'[r] = approval[r] /\ step'[r] = step[r]

GateMoves(r) ==
  GateQuiet(r) \/ GateAsked(r) \/ GateCompleted(r) \/ GateReported(r)

(* Steps that ended are neither skipped nor interrupted.                   *)
LEMMA EndedStepsStay ==
  ASSUME NEW st \in TerminalStepStatus
  PROVE  /\ SkipPending(st) = st /\ InterruptStep(st) = st
         /\ st \notin WaitingStepStatus
  BY DEF SkipPending, InterruptStep, TerminalStepStatus, WaitingStepStatus

(* Resolving the requests of S resolves pending ones only, and all of S.   *)
LEMMA ResolvedApprovals ==
  ASSUME TypeOK, NEW S, NEW outcome \in ResolvedApproval,
         ResolveApprovals(S, outcome), NEW r \in Runs
  PROVE  /\ \A s \in Steps :
              \/ approval'[r][s] = approval[r][s]
              \/ approval[r][s] = "PENDING" /\ approval'[r][s] \in ResolvedApproval
         /\ r \in S => \A s \in Steps : approval'[r][s] # "PENDING"
  BY DEF TypeOK, ResolveApprovals, Resolve, ResolvedApproval

(* Interrupting the steps of some runs leaves ended steps alone.           *)
LEMMA InterruptedStepsStay ==
  ASSUME TypeOK, NEW S, step' = InterruptedSteps(S), NEW r \in Runs,
         NEW s \in Steps, step[r][s] \in TerminalStepStatus
  PROVE  step'[r][s] = step[r][s]
  BY EndedStepsStay DEF InterruptedSteps

(* Timing out the step of an expired request leaves ended steps alone.     *)
LEMMA TimedOutStepsStay ==
  ASSUME TypeOK, NEW r \in Runs, NEW x, NEW waiting \in WaitingStepStatus,
         NEW s \in Steps, step[r][s] \in TerminalStepStatus
  PROVE  TimedOutSteps(r, x, waiting)[s] = step[r][s]
  BY EndedStepsStay DEF TimedOutSteps

(* A row none of whose columns here is touched.                            *)
LEMMA GateStays ==
  ASSUME NEW r \in Runs, approval'[r] = approval[r], completed'[r] = completed[r],
         status[r] \in TERMINAL_STATUSES => step'[r] = step[r],
         status[r] \in TERMINAL_STATUSES \/ status'[r] \notin TERMINAL_STATUSES
  PROVE  GateMoves(r)
  BY DEF GateMoves, GateQuiet

(* Creating, claiming and refusing runs.                                   *)
LEMMA DispatchGates ==
  ASSUME TypeOK, UnaskedBeforeClaim, NEW n \in Runners, NEW x \in Runs, NEW t,
         \/ CreateRun(x, n) \/ processOccurrence(x, n)
         \/ \E a \in ClaimAttempts, sent \in 0..MaxRevision :
              Claim(n, a, x, t, sent) \/ FailStalePin(n, a, x, t, sent)
  PROVE  \A r \in Runs : GateMoves(r)
  <1> USE DEF leaseVars, recordVars, approvalVars, repairVars, logVars, runVars,
              scheduleVars, envVars
  <1> SUFFICES ASSUME NEW r \in Runs PROVE GateMoves(r)
    OBVIOUS
  <1>1. ASSUME QueueRun(x, n) PROVE GateMoves(r)
    BY <1>1, GateStays DEF QueueRun, TypeOK, TERMINAL_STATUSES
  <1>2. ASSUME NEW a \in ClaimAttempts, NEW sent, Claim(n, a, x, t, sent)
        PROVE  GateMoves(r)
    <2>1. /\ ResolveApprovals(ActiveOf(n), "INVALIDATED")
          /\ step' = InterruptedSteps(ActiveOf(n))
          /\ completed' = completed
          /\ cause' = Assign(cause, ActiveOf(n), "lease_expired")
      BY <1>2 DEF Claim, InterruptRequests
    <2>2. status'[r] \in TERMINAL_STATUSES /\ status[r] \notin TERMINAL_STATUSES
            => r \in ActiveOf(n)
      BY <1>2 DEF Claim, Assign, TERMINAL_STATUSES
    <2>3. "INVALIDATED" \in ResolvedApproval
      BY DEF ResolvedApproval
    <2>4. cause'[r] = "approval_expired" /\ r \in ActiveOf(n) => FALSE
      BY <2>1 DEF Assign
    <2> QED
      BY <2>1, <2>2, <2>3, <2>4, ResolvedApprovals, InterruptedStepsStay
         DEF GateMoves, GateQuiet
  <1>3. ASSUME NEW a \in ClaimAttempts, NEW sent, FailStalePin(n, a, x, t, sent)
        PROVE  GateMoves(r)
    <2>1. /\ ResolveApprovals(ActiveOf(n), "INVALIDATED")
          /\ completed' = completed
          /\ status[x] = "QUEUED"
      BY <1>3 DEF FailStalePin, InterruptRequests, QueuedFor
    <2>2. /\ status' = [Assign(status, ActiveOf(n), "INTERRUPTED") EXCEPT
                          ![x] = "FAILED"]
          /\ step' = [InterruptedSteps(ActiveOf(n)) EXCEPT
                        ![x] = [s \in Steps |-> SkipPending(step[x][s])]]
      BY <1>3 DEF FailStalePin
    <2>3. r \in ActiveOf(n) \/ r = x => cause'[r] # "approval_expired"
      <3>1. \E c \in {"secret_inventory_changed_before_execution",
                     "policy_changed_before_execution"} :
              cause' = [Assign(cause, ActiveOf(n), "lease_expired") EXCEPT ![x] = c]
        BY <1>3 DEF FailStalePin
      <3> QED
        BY <3>1 DEF Assign
    <2>4. status'[r] \in TERMINAL_STATUSES /\ status[r] \notin TERMINAL_STATUSES
            => r \in ActiveOf(n) \/ r = x
      BY <2>2 DEF Assign, TERMINAL_STATUSES
    <2>5. "INVALIDATED" \in ResolvedApproval /\ "NONE" \notin ResolvedApproval
      BY DEF ResolvedApproval
    <2>6. \A s \in Steps :
            step[r][s] \in TerminalStepStatus => step'[r][s] = step[r][s]
      BY <2>2, EndedStepsStay DEF InterruptedSteps
    <2>7. r = x => \A s \in Steps : approval[r][s] = "NONE"
      BY <2>1 DEF UnaskedBeforeClaim
    <2>8. /\ \A s \in Steps :
               \/ approval'[r][s] = approval[r][s]
               \/ approval[r][s] = "PENDING" /\ approval'[r][s] \in ResolvedApproval
          /\ r \in ActiveOf(n) => \A s \in Steps : approval'[r][s] # "PENDING"
      BY <2>1, <2>5, ResolvedApprovals
    <2>9. r = x => \A s \in Steps : approval'[r][s] # "PENDING"
      BY <2>7, <2>8
    <2> QED
      BY <2>1, <2>3, <2>4, <2>6, <2>8, <2>9 DEF GateMoves, GateQuiet
  <1> QED
    BY <1>1, <1>2, <1>3 DEF CreateRun, processOccurrence

(* An accepted result has decided every gate and settled every step.       *)
LEMMA CompleteGates ==
  ASSUME TypeOK, NEW x \in Runs, NEW t, NEW c \in ResultCauses,
         NEW result \in [Steps -> TerminalEngineStepStatus],
         Complete(x, t, c, result)
  PROVE  \A r \in Runs : GateMoves(r)
  <1> USE DEF leaseVars, recordVars, approvalVars, repairVars, logVars, runVars,
              scheduleVars, envVars
  <1> DEFINE st == persistedRunStatus[terminalStatusFor[c]]
  <1>1. /\ EndRuns({x}, st, c)
        /\ step' = [step EXCEPT ![x] =
                      [s \in Steps |-> persistedStepStatus[result[s]]]]
        /\ output' = [output EXCEPT ![x] = [s \in Steps |->
                        Workflow[s] = "extract" /\ result[s] = "succeeded"]]
        /\ completed' = [completed EXCEPT ![x] = TRUE]
        /\ evidence' = Increment(evidence, {x})
        /\ approval' = approval
        /\ status[x] \in ACTIVE_STATUSES
        /\ \A s \in Steps : ApprovalAgrees(x, s, c, result)
    BY DEF Complete, AcceptsResult, requireLease
  <1>2. st \in TERMINAL_STATUSES
    BY PersistedType, InputAssumption
  <1> HIDE DEF st
  <1>3. /\ status' = Assign(status, {x}, st)
        /\ status'[x] = st
        /\ \A r \in Runs \ {x} : status'[r] = status[r]
    BY <1>1 DEF EndRuns, Assign
  <1>4. ASSUME NEW r \in Runs, r # x PROVE GateMoves(r)
    <2>1. /\ approval'[r] = approval[r] /\ completed'[r] = completed[r]
          /\ step'[r] = step[r] /\ status'[r] = status[r]
      BY <1>1, <1>3, <1>4 DEF TypeOK
    <2> QED
      BY <2>1, GateStays
  <1>5. /\ \A k \in TerminalEngineStepStatus :
             persistedStepStatus[k] = "SUCCEEDED" <=> k = "succeeded"
        /\ persistedStepStatus["skipped"] = "SKIPPED"
    BY DEF persistedStepStatus, TerminalEngineStepStatus, EngineStepStatus
  <1>6. ASSUME NEW s \in Steps
        PROVE  /\ approval[x][s] # "PENDING"
               /\ approval[x][s] \in ResolvedApproval \ {"APPROVED"} /\ s + 1 \in Steps
                    => step'[x][s + 1] = "SKIPPED"
               /\ step'[x][s] \in TerminalStepStatus
               /\ output'[x][s] <=>
                    Workflow[s] = "extract" /\ step'[x][s] = "SUCCEEDED"
    <2>1. ApprovalAgrees(x, s, c, result)
      BY <1>1
    <2>2. approval[x][s] # "PENDING"
      BY <2>1 DEF ApprovalAgrees
    <2>3. approval[x][s] \in ResolvedApproval \ {"APPROVED"} => result[s + 1] = "skipped"
      BY <2>1 DEF ApprovalAgrees, ResolvedApproval
    <2>4. /\ step'[x] = [k \in Steps |-> persistedStepStatus[result[k]]]
          /\ output'[x] = [k \in Steps |->
                             Workflow[k] = "extract" /\ result[k] = "succeeded"]
      BY <1>1 DEF TypeOK
    <2>5. step'[x][s] = persistedStepStatus[result[s]]
      BY <2>4
    <2>6. result[s] \in TerminalEngineStepStatus
      OBVIOUS
    <2>7. step'[x][s] \in TerminalStepStatus
      BY <2>5, <2>6, PersistedType
    <2>8. output'[x][s] <=> Workflow[s] = "extract" /\ step'[x][s] = "SUCCEEDED"
      BY <1>5, <2>4, <2>5, <2>6
    <2>9. approval[x][s] \in ResolvedApproval \ {"APPROVED"} /\ s + 1 \in Steps
            => step'[x][s + 1] = "SKIPPED"
      BY <1>5, <2>3, <2>4
    <2> QED
      BY <2>2, <2>7, <2>8, <2>9
  <1>7. GateCompleted(x)
    <2>1. /\ completed'[x] = TRUE /\ evidence'[x] = evidence[x] + 1
      BY <1>1 DEF TypeOK, Increment
    <2> QED
      BY <1>1, <1>2, <1>3, <1>6, <2>1 DEF GateCompleted
  <1> QED
    BY <1>4, <1>7 DEF GateMoves

(* The other requests of a Runner.                                         *)
LEMMA RunnerGates ==
  ASSUME TypeOK, NEW x \in Runs, NEW t, RunnerRequest(x, t)
  PROVE  \A r \in Runs : GateMoves(r)
  <1> USE DEF leaseVars, recordVars, approvalVars, repairVars, logVars, runVars,
              scheduleVars, envVars
  <1> DEFINE Goal == \A r \in Runs : GateMoves(r)
  <1> SUFFICES Goal
    OBVIOUS
  <1>0. ASSUME UNCHANGED <<approval, completed, status, step>> PROVE Goal
    BY <1>0, GateStays
  <1>a. ACTIVE_STATUSES \cap TERMINAL_STATUSES = {}
    BY DEF ACTIVE_STATUSES, TERMINAL_STATUSES
  <1>b. ASSUME NEW st, status[x] \in ACTIVE_STATUSES, st \in ACTIVE_STATUSES,
               status' = [status EXCEPT ![x] = st],
               UNCHANGED <<approval, completed>>,
               \A r \in Runs \ {x} : step'[r] = step[r]
        PROVE  Goal
    <2> SUFFICES ASSUME NEW r \in Runs PROVE GateMoves(r)
      OBVIOUS
    <2>1. r = x => status'[r] = st
      BY <1>b DEF TypeOK
    <2>2. r # x => status'[r] = status[r]
      BY <1>b DEF TypeOK
    <2>3. status[r] \in TERMINAL_STATUSES => step'[r] = step[r]
      BY <1>a, <1>b
    <2>4. status[r] \in TERMINAL_STATUSES \/ status'[r] \notin TERMINAL_STATUSES
      BY <1>a, <1>b, <2>1, <2>2
    <2> QED
      BY <1>b, <2>3, <2>4, GateStays
  <1> HIDE DEF Goal
  <1>1. CASE RenewLease(x, t)
    BY <1>0, <1>1 DEF RenewLease
  <1>2. ASSUME NEW next, IngestRunStatus(x, t, next) PROVE Goal
    <2> DEFINE st == CASE next = "running" /\ status[x] \in
                            {"CLAIMED", "WAITING_FOR_APPROVAL",
                             "WAITING_FOR_REPAIR"} -> "RUNNING"
                       [] next = "waiting_for_approval" /\ status[x] = "RUNNING" ->
                            "WAITING_FOR_APPROVAL"
                       [] next = "waiting_for_repair" /\ status[x] = "RUNNING" ->
                            "WAITING_FOR_REPAIR"
                       [] OTHER -> status[x]
    <2>1. status[x] \in ACTIVE_STATUSES
      BY <1>2 DEF IngestRunStatus, requireLease
    <2>2. st \in ACTIVE_STATUSES
      BY <2>1 DEF ACTIVE_STATUSES
    <2>3. status' = [status EXCEPT ![x] = st]
      BY <1>2, Zenon DEF IngestRunStatus
    <2>4. UNCHANGED <<approval, completed, step>>
      BY <1>2 DEF IngestRunStatus
    <2> HIDE DEF st
    <2> QED
      BY <1>b, <2>1, <2>2, <2>3, <2>4
  <1>3. ASSUME NEW s, NEW next, IngestStepStatus(x, s, t, next) PROVE Goal
    <2>1. /\ status[x] \in ACTIVE_STATUSES /\ status' = status
          /\ UNCHANGED <<approval, completed>>
          /\ \A r \in Runs \ {x} : step'[r] = step[r]
      BY <1>3 DEF IngestStepStatus, requireLease, TypeOK
    <2>2. status' = [status EXCEPT ![x] = status[x]]
      BY <2>1 DEF TypeOK
    <2> QED
      BY <1>b, <2>1, <2>2
  <1>4. ASSUME NEW s, IngestOutput(x, s, t) PROVE Goal
    BY <1>0, <1>4 DEF IngestOutput
  <1>5. ASSUME NEW s, NEW trigger, IngestAttemptStarted(x, s, t, trigger)
        PROVE  Goal
    BY <1>0, <1>5 DEF IngestAttemptStarted
  <1>6. ASSUME NEW s, NEW n, NEW st, NEW code, NEW effect,
               IngestAttemptFinished(x, s, t, n, st, code, effect)
        PROVE  Goal
    BY <1>0, <1>6 DEF IngestAttemptFinished
  <1>7. ASSUME NEW s \in Steps, NEW due, CreateApproval(x, s, t, due) PROVE Goal
    <2>1. /\ status[x] \in ACTIVE_STATUSES
          /\ status' = [status EXCEPT ![x] = "WAITING_FOR_APPROVAL"]
          /\ approval' = [approval EXCEPT ![x][s] = "PENDING"]
          /\ Workflow[s] = "approval" /\ approval[x][s] = "NONE"
          /\ completed' = completed
          /\ \A r \in Runs \ {x} : step'[r] = step[r]
      BY <1>7 DEF CreateApproval, ACTIVE_STATUSES, TypeOK
    <2>2. GateAsked(x)
      BY <2>1 DEF GateAsked, TypeOK, ACTIVE_STATUSES
    <2>3. ASSUME NEW r \in Runs, r # x PROVE GateMoves(r)
      <3>1. /\ approval'[r] = approval[r] /\ completed'[r] = completed[r]
            /\ step'[r] = step[r] /\ status'[r] = status[r]
        BY <2>1, <2>3 DEF TypeOK
      <3> QED
        BY <3>1, GateStays
    <2> QED
      BY <2>2, <2>3 DEF GateMoves, Goal
  <1>8. ASSUME NEW s \in Steps, NEW due, CreateRepair(x, s, t, due) PROVE Goal
    <2>1. /\ status[x] \in ACTIVE_STATUSES
          /\ "WAITING_FOR_REPAIR" \in ACTIVE_STATUSES
          /\ status' = [status EXCEPT ![x] = "WAITING_FOR_REPAIR"]
          /\ UNCHANGED <<approval, completed>>
          /\ \A r \in Runs \ {x} : step'[r] = step[r]
      BY <1>8 DEF CreateRepair, ACTIVE_STATUSES, TypeOK
    <2> QED
      BY <1>b, <2>1
  <1>9. ASSUME NEW s \in Steps, PollExpiredApproval(x, s, t) PROVE Goal
    <2>1. /\ approval[x][s] = "PENDING"
          /\ approval' = [approval EXCEPT ![x][s] = "EXPIRED"]
          /\ UNCHANGED <<completed, status, step>>
          /\ "EXPIRED" \in ResolvedApproval
      BY <1>9 DEF PollExpiredApproval, ResolvedApproval
    <2> QED
      BY <2>1 DEF GateMoves, GateQuiet, TypeOK, Goal
  <1>10. ASSUME NEW s, NEW n, ExpireRepairRead(x, s, n, t, FALSE) PROVE Goal
    BY <1>0, <1>10 DEF ExpireRepairRead
  <1>11. ASSUME NEW c \in ResultCauses,
                NEW result \in [Steps -> TerminalEngineStepStatus],
                Complete(x, t, c, result)
         PROVE  Goal
    BY <1>11, CompleteGates DEF Goal
  <1> QED
    BY <1>1, <1>2, <1>3, <1>4, <1>5, <1>6, <1>7, <1>8, <1>9, <1>10, <1>11
       DEF RunnerRequest

(* Users' requests.                                                        *)
LEMMA UserGates ==
  ASSUME TypeOK, NEW x \in Runs, NEW t, UserRequest(x, t)
  PROVE  \A r \in Runs : GateMoves(r)
  <1> USE DEF leaseVars, recordVars, approvalVars, repairVars, logVars, runVars,
              scheduleVars, envVars
  <1> SUFFICES ASSUME NEW r \in Runs PROVE GateMoves(r)
    OBVIOUS
  <1>a. "CANCELLED" \in ResolvedApproval
    BY DEF ResolvedApproval
  <1>1. CASE CancelQueued(x)
    <2>1. /\ ResolveApprovals({x}, "CANCELLED") /\ completed' = completed
          /\ status' = [status EXCEPT ![x] = "CANCELLED"]
          /\ cause' = [cause EXCEPT ![x] = "run_cancelled"]
          /\ step' = [step EXCEPT ![x] = [s \in Steps |-> SkipPending(step[x][s])]]
      BY <1>1 DEF CancelQueued
    <2>2. \A s \in Steps :
            step[r][s] \in TerminalStepStatus => step'[r][s] = step[r][s]
      BY <2>1, EndedStepsStay DEF TypeOK
    <2>3. r # x => status'[r] = status[r]
      BY <2>1 DEF TypeOK
    <2>4. r = x => cause'[r] = "run_cancelled"
      BY <2>1 DEF TypeOK
    <2>5. /\ \A s \in Steps :
               \/ approval'[r][s] = approval[r][s]
               \/ approval[r][s] = "PENDING" /\ approval'[r][s] \in ResolvedApproval
          /\ r = x => \A s \in Steps : approval'[r][s] # "PENDING"
      BY <1>a, <2>1, ResolvedApprovals
    <2> QED
      BY <2>1, <2>2, <2>3, <2>4, <2>5 DEF GateMoves, GateQuiet
  <1>2. CASE CancelActive(x)
    <2>1. /\ ResolveApprovals({x}, "CANCELLED")
          /\ completed' = completed /\ step' = step
          /\ status' = [status EXCEPT ![x] = "CANCEL_REQUESTED"]
      BY <1>2 DEF CancelActive
    <2>2. status'[r] = status[r] \/ status'[r] \notin TERMINAL_STATUSES
      BY <2>1 DEF TypeOK, TERMINAL_STATUSES
    <2>3. \A s \in Steps :
            \/ approval'[r][s] = approval[r][s]
            \/ approval[r][s] = "PENDING" /\ approval'[r][s] \in ResolvedApproval
      BY <1>a, <2>1, ResolvedApprovals
    <2> QED
      BY <2>1, <2>2, <2>3 DEF GateMoves, GateQuiet
  <1>3. ASSUME NEW s \in Steps, NEW decision \in {"APPROVED", "REJECTED"},
               DecideApproval(x, s, t, decision)
        PROVE  GateMoves(r)
    <2>1. /\ approval[x][s] = "PENDING"
          /\ approval' = [approval EXCEPT ![x][s] = decision]
          /\ UNCHANGED <<completed, status, step>>
          /\ decision \in ResolvedApproval
      BY <1>3 DEF DecideApproval, ResolvedApproval
    <2> QED
      BY <2>1 DEF GateMoves, GateQuiet, TypeOK
  <1>4. ASSUME NEW s, NEW n, NEW decision,
               \/ DecideRepair(x, s, n, t, decision)
               \/ ExpireRepairRead(x, s, n, t, TRUE)
        PROVE  GateMoves(r)
    BY <1>4, GateStays DEF DecideRepair, ExpireRepairRead
  <1> QED
    BY <1>1, <1>2, <1>3, <1>4 DEF UserRequest

(* The scheduler's reconciliation.                                         *)
LEMMA ReconcileGates ==
  ASSUME TypeOK, NEW x \in Runs, NEW t, Reconcile(x, t)
  PROVE  \A r \in Runs : GateMoves(r)
  <1> USE DEF leaseVars, recordVars, approvalVars, repairVars, logVars, runVars,
              scheduleVars, envVars
  <1> SUFFICES ASSUME NEW r \in Runs PROVE GateMoves(r)
    OBVIOUS
  <1>1. CASE ExpireLease(x, t)
    <2>1. /\ ResolveApprovals({x}, "INVALIDATED")
          /\ step' = InterruptedSteps({x}) /\ completed' = completed
          /\ EndRuns({x}, "INTERRUPTED", "lease_expired")
      BY <1>1 DEF ExpireLease, InterruptRequests
    <2>2. /\ r # x => status'[r] = status[r]
          /\ r = x => cause'[r] = "lease_expired"
      BY <2>1 DEF EndRuns, Assign
    <2>3. /\ \A s \in Steps :
               \/ approval'[r][s] = approval[r][s]
               \/ approval[r][s] = "PENDING" /\ approval'[r][s] \in ResolvedApproval
          /\ r = x => \A s \in Steps : approval'[r][s] # "PENDING"
      <3>1. "INVALIDATED" \in ResolvedApproval
        BY DEF ResolvedApproval
      <3> QED
        BY <2>1, <3>1, ResolvedApprovals
    <2> QED
      BY <2>1, <2>2, <2>3, InterruptedStepsStay DEF GateMoves, GateQuiet
  <1>2. ASSUME NEW s \in Steps, ExpireApproval(x, s, t) PROVE GateMoves(r)
    <2> DEFINE waiting == {y \in {x} : status[y] = "WAITING_FOR_APPROVAL"}
    <2>1. /\ approval[x][s] = "PENDING"
          /\ approval' = [approval EXCEPT ![x][s] = "EXPIRED"]
          /\ EndRuns(waiting, "TIMED_OUT", "approval_expired")
          /\ step' = [step EXCEPT ![x] = TimedOutSteps(x, s, "WAITING_FOR_APPROVAL")]
          /\ completed' = completed /\ evidence' = evidence
      BY <1>2 DEF ExpireApproval
    <2>2. /\ status'[r] = status[r] \/ cause'[r] = "approval_expired"
      BY <2>1 DEF EndRuns, Assign
    <2>3. \A k \in Steps :
            step[r][k] \in TerminalStepStatus => step'[r][k] = step[r][k]
      <3>1. "WAITING_FOR_APPROVAL" \in WaitingStepStatus
        BY DEF WaitingStepStatus
      <3>2. CASE r = x
        <4>1. step'[r] = TimedOutSteps(x, s, "WAITING_FOR_APPROVAL")
          BY <2>1, <3>2 DEF TypeOK
        <4> QED
          BY <3>1, <3>2, <4>1, TimedOutStepsStay
      <3>3. CASE r # x
        BY <2>1, <3>3 DEF TypeOK
      <3> QED
        BY <3>2, <3>3
    <2>4. \A k \in Steps :
            \/ approval'[r][k] = approval[r][k]
            \/ approval[r][k] = "PENDING" /\ approval'[r][k] \in ResolvedApproval
      BY <2>1 DEF TypeOK, ResolvedApproval
    <2> QED
      BY <2>1, <2>2, <2>3, <2>4 DEF GateMoves, GateQuiet, ExpiryCauses
  <1>3. CASE handleRunCompletion(x)
    BY <1>3, GateStays DEF handleRunCompletion
  <1> QED
    BY <1>1, <1>2, <1>3 DEF Reconcile

(* Revocation invalidates what the Runner's runs had open.                 *)
LEMMA RevokeGates ==
  ASSUME TypeOK, NEW n \in Runners, RevokeRunner(n)
  PROVE  \A r \in Runs : GateMoves(r)
  <1> USE DEF leaseVars, recordVars, approvalVars, repairVars, logVars, runVars,
              scheduleVars, envVars
  <1> SUFFICES ASSUME NEW r \in Runs PROVE GateMoves(r)
    OBVIOUS
  <1> DEFINE owned == {y \in Runs : owner[y] = n}
  <1>1. /\ ResolveApprovals(owned, "INVALIDATED")
        /\ step' = InterruptedSteps(ActiveOf(n)) /\ completed' = completed
        /\ EndRuns(ActiveOf(n), "INTERRUPTED", "runner_revoked")
    BY DEF RevokeRunner
  <1>2. r \in ActiveOf(n) => r \in owned
    BY DEF ActiveOf
  <1> HIDE DEF owned
  <1>3. /\ r \notin ActiveOf(n) => status'[r] = status[r]
        /\ r \in ActiveOf(n) => cause'[r] = "runner_revoked"
    BY <1>1 DEF EndRuns, Assign
  <1>4. /\ \A s \in Steps :
             \/ approval'[r][s] = approval[r][s]
             \/ approval[r][s] = "PENDING" /\ approval'[r][s] \in ResolvedApproval
        /\ r \in owned => \A s \in Steps : approval'[r][s] # "PENDING"
    <2>1. "INVALIDATED" \in ResolvedApproval
      BY DEF ResolvedApproval
    <2> QED
      BY <1>1, <2>1, ResolvedApprovals
  <1> QED
    BY <1>1, <1>2, <1>3, <1>4, InterruptedStepsStay DEF GateMoves, GateQuiet

(* The late write of a repair's expiry.                                    *)
LEMMA ExpireRepairWriteGates ==
  ASSUME TypeOK, NEW x \in expiring, ExpireRepairWrite(x)
  PROVE  \A r \in Runs : GateMoves(r)
  <1> USE DEF leaseVars, recordVars, approvalVars, repairVars, logVars, runVars,
              scheduleVars, envVars
  <1> SUFFICES ASSUME NEW r \in Runs PROVE GateMoves(r)
    OBVIOUS
  <1> DEFINE waiting ==
        {y \in {x.run} : x.terminate /\ status[y] = "WAITING_FOR_REPAIR"}
  <1>1. /\ EndRuns(waiting, "TIMED_OUT", "repair_expired")
        /\ UNCHANGED <<approval, completed>>
        /\ \/ step' = step
           \/ step' = [step EXCEPT ![x.run] =
                         TimedOutSteps(x.run, x.step, "WAITING_FOR_REPAIR")]
    BY DEF ExpireRepairWrite
  <1>2. status'[r] = status[r] \/ cause'[r] = "repair_expired"
    BY <1>1 DEF EndRuns, Assign
  <1>3. \A k \in Steps :
          step[r][k] \in TerminalStepStatus => step'[r][k] = step[r][k]
    <2>1. "WAITING_FOR_REPAIR" \in WaitingStepStatus /\ x.run \in Runs
      BY DEF WaitingStepStatus, TypeOK, ExpiryTransaction
    <2>2. \/ step'[r] = step[r]
          \/ /\ r = x.run
             /\ step'[r] = TimedOutSteps(r, x.step, "WAITING_FOR_REPAIR")
      BY <1>1, <2>1 DEF TypeOK
    <2> QED
      BY <2>1, <2>2, TimedOutStepsStay
  <1> QED
    BY <1>1, <1>2, <1>3 DEF GateMoves, GateQuiet, ExpiryCauses

(* Every step moves the requests, steps and completions of a run in one of *)
(* the four ways.                                                          *)
LEMMA NextGates ==
  ASSUME TypeOK, UnaskedBeforeClaim, [Next]_vars
  PROVE  \A r \in Runs : GateMoves(r)
  <1> USE DEF leaseVars, recordVars, approvalVars, repairVars, logVars, runVars,
              scheduleVars, envVars
  <1> DEFINE Goal == \A r \in Runs : GateMoves(r)
  <1> SUFFICES Goal
    OBVIOUS
  <1>0. ASSUME UNCHANGED <<approval, completed, status, step>> PROVE Goal
    BY <1>0, GateStays
  <1> HIDE DEF Goal
  <1>1. CASE Tick \/ SupersedePolicy \/ UNCHANGED vars
    BY <1>0, <1>1 DEF Tick, SupersedePolicy, vars
  <1>2. CASE \E n \in Runners : SyncInventory(n)
    BY <1>0, <1>2 DEF SyncInventory
  <1>3. CASE \E n \in Runners : RevokeRunner(n)
    BY <1>3, RevokeGates DEF Goal
  <1>4. CASE \E n \in Runners, r \in Runs :
               CreateRun(r, n) \/ processOccurrence(r, n)
    BY <1>4, DispatchGates DEF Goal
  <1>5. CASE \E n \in Runners, t \in RequestTimes : Dispatch(n, t)
    BY <1>5, DispatchGates DEF Dispatch, Goal
  <1>6. ASSUME NEW x \in Runs, CompleteExpired(x) PROVE Goal
    <2>1. GateReported(x)
      BY <1>6 DEF CompleteExpired, GateReported, Kept
    <2>2. ASSUME NEW r \in Runs, r # x PROVE GateMoves(r)
      <3>1. /\ approval'[r] = approval[r] /\ completed'[r] = completed[r]
            /\ step'[r] = step[r] /\ status'[r] = status[r]
        BY <1>6, <2>2 DEF CompleteExpired, TypeOK
      <3> QED
        BY <3>1, GateStays
    <2> QED
      BY <2>1, <2>2 DEF GateMoves, Goal
  <1>7. CASE \E r \in Runs, t \in RequestTimes :
               RunnerRequest(r, t) \/ UserRequest(r, t) \/ Reconcile(r, t)
    BY <1>7, RunnerGates, UserGates, ReconcileGates DEF Goal
  <1>8. CASE \E x \in expiring : ExpireRepairWrite(x)
    BY <1>8, ExpireRepairWriteGates DEF Goal
  <1> QED
    BY <1>1, <1>2, <1>3, <1>4, <1>5, <1>6, <1>7, <1>8 DEF Next

(* What the ledger's moves say of a row: an ended one is kept, an active   *)
(* one goes on or ends, and no active row has an event.                    *)
LEMMA LedgerRow ==
  ASSUME TypeOK, LedgerInv, [Next]_vars, NEW r \in Runs
  PROVE  /\ status[r] \in TERMINAL_STATUSES => Kept(r)
         /\ status'[r] \in {"ABSENT", "QUEUED"} => status[r] \in {"ABSENT", "QUEUED"}
         /\ status[r] \in TERMINAL_STATUSES => status'[r] \in TERMINAL_STATUSES
         /\ status[r] \notin TERMINAL_STATUSES => evidence[r] = 0
  <1>1. LedgerMoves
    BY NextMoves DEF LedgerInv
  <1>2. status[r] \in TERMINAL_STATUSES => Kept(r)
    BY EndedRowKept DEF Terminal
  <1>3. status[r] \in TERMINAL_STATUSES => status'[r] \in TERMINAL_STATUSES
    BY <1>2 DEF Kept, TERMINAL_STATUSES
  <1>4. status'[r] \in {"ABSENT", "QUEUED"} => status[r] \in {"ABSENT", "QUEUED"}
    BY <1>1
       DEF LedgerMoves, RowsMove, RowQueued, RowClaimed, Moved, Progressed, Ended,
           Kept, TERMINAL_STATUSES, ACTIVE_STATUSES
  <1>5. status[r] \notin TERMINAL_STATUSES => evidence[r] = 0
    BY DEF LedgerInv, EvidenceOfEnd, Terminal
  <1> QED
    BY <1>2, <1>3, <1>4, <1>5

(* The gate invariant is inductive.                                        *)
LEMMA GateStep ==
  ASSUME TypeOK, LedgerInv, GateInv, [Next]_vars
  PROVE  GateInv'
  <1>1. \A r \in Runs : GateMoves(r)
    BY NextGates DEF GateInv
  <1>2. UnaskedBeforeClaim'
    <2> SUFFICES ASSUME NEW r \in Runs, NEW s \in Steps
                 PROVE  /\ status'[r] \in {"ABSENT", "QUEUED"} =>
                             approval'[r][s] = "NONE"
                        /\ approval'[r][s] # "NONE" => Workflow[s] = "approval"
      BY DEF UnaskedBeforeClaim
    <2>1. /\ status[r] \in {"ABSENT", "QUEUED"} => approval[r][s] = "NONE"
          /\ approval[r][s] # "NONE" => Workflow[s] = "approval"
      BY DEF GateInv, UnaskedBeforeClaim
    <2>2. status'[r] \in {"ABSENT", "QUEUED"} =>
            status[r] \in {"ABSENT", "QUEUED"} /\ status'[r] \notin ACTIVE_STATUSES
              /\ status'[r] \notin TERMINAL_STATUSES
      BY LedgerRow DEF ACTIVE_STATUSES, TERMINAL_STATUSES
    <2>3. CASE GateAsked(r)
      <3>1. PICK k \in Steps :
              /\ Workflow[k] = "approval" /\ approval[r][k] = "NONE"
              /\ approval'[r] = [approval[r] EXCEPT ![k] = "PENDING"]
        BY <2>3 DEF GateAsked
      <3>2. approval'[r][s] = approval[r][s] \/ s = k
        BY <3>1 DEF TypeOK
      <3> QED
        BY <2>1, <2>2, <2>3, <3>1, <3>2 DEF GateAsked
    <2>4. CASE GateQuiet(r) \/ GateCompleted(r) \/ GateReported(r)
      <3>1. approval'[r][s] = approval[r][s] \/ approval[r][s] = "PENDING"
        BY <2>4 DEF GateQuiet, GateCompleted, GateReported
      <3> QED
        BY <2>1, <2>2, <3>1
    <2> QED
      BY <1>1, <2>3, <2>4 DEF GateMoves
  <1>3. CompletedHasEnded'
    <2> SUFFICES ASSUME NEW r \in Runs
                 PROVE  /\ completed'[r] =>
                             /\ status'[r] \in TERMINAL_STATUSES
                             /\ evidence'[r] = 0 => status'[r] = "TIMED_OUT"
                        /\ /\ status'[r] \in TERMINAL_STATUSES
                           /\ cause'[r] = "approval_expired" /\ ~completed'[r]
                           => evidence'[r] = 0
      BY DEF CompletedHasEnded, Terminal
    <2>1. /\ completed[r] => status[r] \in TERMINAL_STATUSES
                             /\ (evidence[r] = 0 => status[r] = "TIMED_OUT")
          /\ /\ status[r] \in TERMINAL_STATUSES /\ cause[r] = "approval_expired"
             /\ ~completed[r]
             => evidence[r] = 0
      BY DEF GateInv, CompletedHasEnded, Terminal
    <2>2. evidence[r] \in Nat /\ completed[r] \in BOOLEAN
      BY DEF TypeOK
    <2>3. CASE status[r] \in TERMINAL_STATUSES
      <3>1. Kept(r)
        BY <2>3, LedgerRow
      <3>2. completed'[r] = completed[r] \/ GateReported(r)
        BY <1>1, <2>3
           DEF GateMoves, GateQuiet, GateAsked, GateCompleted,
               ACTIVE_STATUSES, TERMINAL_STATUSES
      <3>3. GateReported(r) => evidence[r] = 0 /\ status[r] = "TIMED_OUT"
        BY <2>1, <2>3 DEF GateReported
      <3> QED
        BY <2>1, <2>3, <3>1, <3>2, <3>3 DEF Kept
    <2>4. CASE status[r] \notin TERMINAL_STATUSES
      <3>1. evidence[r] = 0 /\ ~completed[r]
        BY <2>1, <2>4, LedgerRow
      <3>2. CASE GateCompleted(r)
        BY <3>1, <3>2 DEF GateCompleted
      <3>3. CASE GateQuiet(r) \/ GateAsked(r)
        <4>1. ~completed'[r]
          BY <3>1, <3>3 DEF GateQuiet, GateAsked
        <4>2. status'[r] \in TERMINAL_STATUSES /\ cause'[r] = "approval_expired"
                => evidence'[r] = evidence[r]
          BY <2>4, <3>3
             DEF GateQuiet, GateAsked, ACTIVE_STATUSES, TERMINAL_STATUSES
        <4> QED
          BY <3>1, <4>1, <4>2
      <3>4. ~GateReported(r)
        BY <2>4 DEF GateReported, TERMINAL_STATUSES
      <3> QED
        BY <1>1, <3>2, <3>3, <3>4 DEF GateMoves
    <2> QED
      BY <2>3, <2>4
  <1>4. ASSUME NEW r \in Runs, completed'[r], evidence'[r] = 1
        PROVE  \/ GateCompleted(r)
               \/ /\ GateQuiet(r) /\ Kept(r) /\ Accepted(r)
                  /\ status[r] \in TERMINAL_STATUSES
    <2>1. /\ completed[r] => status[r] \in TERMINAL_STATUSES
                             /\ (evidence[r] = 0 => status[r] = "TIMED_OUT")
          /\ /\ status[r] \in TERMINAL_STATUSES /\ cause[r] = "approval_expired"
             /\ ~completed[r]
             => evidence[r] = 0
      BY DEF GateInv, CompletedHasEnded, Terminal
    <2>2. evidence[r] \in Nat
      BY DEF TypeOK
    <2>3. ~GateReported(r)
      BY <1>4, <2>1 DEF GateReported, Kept, TERMINAL_STATUSES
    <2>4. ASSUME GateQuiet(r) \/ GateAsked(r)
          PROVE  GateQuiet(r) /\ Kept(r) /\ Accepted(r)
                 /\ status[r] \in TERMINAL_STATUSES
      <3>1. completed[r] /\ status[r] \in TERMINAL_STATUSES
        BY <1>4, <2>1, <2>4 DEF GateQuiet, GateAsked
      <3>2. GateQuiet(r)
        BY <2>4, <3>1 DEF GateAsked, ACTIVE_STATUSES, TERMINAL_STATUSES
      <3>3. Kept(r)
        BY <3>1, LedgerRow
      <3> QED
        BY <1>4, <3>1, <3>2, <3>3 DEF Accepted, Kept
    <2> QED
      BY <1>1, <2>3, <2>4 DEF GateMoves
  <1>5. AcceptedIsDecided'
    <2> SUFFICES ASSUME NEW r \in Runs, NEW s \in Steps,
                        completed'[r], evidence'[r] = 1
                 PROVE  approval'[r][s] # "PENDING"
      BY DEF AcceptedIsDecided, Accepted
    <2>1. CASE GateCompleted(r)
      BY <2>1 DEF GateCompleted
    <2>2. CASE GateQuiet(r) /\ Accepted(r)
      <3>1. approval[r][s] # "PENDING"
        BY <2>2 DEF GateInv, AcceptedIsDecided
      <3> QED
        BY <2>2, <3>1 DEF GateQuiet
    <2> QED
      BY <1>4, <2>1, <2>2
  <1>6. ApprovalsSettled'
    <2> SUFFICES ASSUME NEW r \in Runs, NEW s \in Steps,
                        status'[r] \in TERMINAL_STATUSES,
                        cause'[r] \notin ExpiryCauses
                 PROVE  approval'[r][s] # "PENDING"
      BY DEF ApprovalsSettled, Terminal, ExpiryCauses
    <2>1. CASE GateCompleted(r)
      BY <2>1 DEF GateCompleted
    <2>2. ~GateAsked(r)
      BY DEF GateAsked, ACTIVE_STATUSES, TERMINAL_STATUSES
    <2>3. CASE GateReported(r)
      BY <2>3 DEF GateReported, Kept, ExpiryCauses
    <2>4. CASE GateQuiet(r) /\ status[r] \notin TERMINAL_STATUSES
      BY <2>4 DEF GateQuiet
    <2>5. CASE GateQuiet(r) /\ status[r] \in TERMINAL_STATUSES
      <3>1. Kept(r)
        BY <2>5, LedgerRow
      <3>2. approval[r][s] # "PENDING"
        BY <2>5, <3>1 DEF GateInv, ApprovalsSettled, Terminal, Kept, ExpiryCauses
      <3> QED
        BY <2>5, <3>2 DEF GateQuiet
    <2> QED
      BY <1>1, <2>1, <2>2, <2>3, <2>4, <2>5 DEF GateMoves
  <1>7. GateRespected'
    <2> SUFFICES ASSUME NEW r \in Runs, NEW s \in Steps,
                        completed'[r], evidence'[r] = 1,
                        approval'[r][s] \in ResolvedApproval \ {"APPROVED"}
                 PROVE  step'[r][s + 1] = "SKIPPED"
      BY DEF GateRespected, Accepted
    <2>0. s + 1 \in Steps
      <3>1. Workflow[s] = "approval"
        BY <1>2 DEF UnaskedBeforeClaim, ResolvedApproval
      <3> QED
        BY <3>1, WorkflowAssumption
    <2>1. CASE GateCompleted(r)
      BY <2>0, <2>1 DEF GateCompleted
    <2>2. CASE GateQuiet(r) /\ Accepted(r) /\ status[r] \in TERMINAL_STATUSES
      <3>1. approval[r][s] # "PENDING"
        BY <2>2 DEF GateInv, AcceptedIsDecided
      <3>2. approval'[r][s] = approval[r][s]
        BY <2>2, <3>1 DEF GateQuiet
      <3>3. step[r][s + 1] = "SKIPPED"
        BY <2>2, <3>2 DEF GateInv, GateRespected
      <3> QED
        BY <2>0, <2>2, <3>3 DEF GateQuiet, TerminalStepStatus
    <2> QED
      BY <1>4, <2>1, <2>2
  <1>8. AcceptedRunSettled'
    <2> SUFFICES ASSUME NEW r \in Runs, NEW s \in Steps,
                        completed'[r], evidence'[r] = 1
                 PROVE  /\ step'[r][s] \in TerminalStepStatus
                        /\ output'[r][s] <=>
                             Workflow[s] = "extract" /\ step'[r][s] = "SUCCEEDED"
      BY DEF AcceptedRunSettled, Accepted
    <2>1. CASE GateCompleted(r)
      BY <2>1 DEF GateCompleted
    <2>2. CASE GateQuiet(r) /\ Accepted(r) /\ status[r] \in TERMINAL_STATUSES
      <3>1. /\ step[r][s] \in TerminalStepStatus
            /\ output[r][s] <=> Workflow[s] = "extract" /\ step[r][s] = "SUCCEEDED"
        BY <2>2 DEF GateInv, AcceptedRunSettled
      <3>2. step'[r][s] = step[r][s]
        BY <2>2, <3>1 DEF GateQuiet
      <3>3. output'[r] = output[r]
        BY <2>2, OutputOfActive DEF ACTIVE_STATUSES, TERMINAL_STATUSES
      <3> QED
        BY <3>1, <3>2, <3>3
    <2> QED
      BY <1>4, <2>1, <2>2
  <1> QED
    BY <1>2, <1>3, <1>5, <1>6, <1>7, <1>8 DEF GateInv

(* The empty ledger has nothing asked and nothing completed.               *)
LEMMA GateInit == Init => GateInv
  BY DEF Init, GateInv, UnaskedBeforeClaim, CompletedHasEnded, AcceptedIsDecided,
         ApprovalsSettled, GateRespected, AcceptedRunSettled, Accepted, Terminal,
         TERMINAL_STATUSES

(* No request outlives its run undecided but one an expiry ended, and an   *)
(* accepted completion settled every step and respected every gate.        *)
THEOREM GatesHold == Spec => []GateInv
  <1>1. TypeOK /\ LedgerInv /\ GateInv /\ [Next]_vars => GateInv'
    BY GateStep
  <1> QED
    BY <1>1, GateInit, TypeCorrect, LedgerSafe, PTL DEF Spec

(* Of a decision, an expiry, a cancellation and an invalidation that race  *)
(* for an approval request, the first to commit is final.                  *)
THEOREM DecisionsAreFinal == Spec => ApprovalDecisionFinal
  <1>1. TypeOK /\ GateInv /\ [Next]_vars =>
          \A r \in Runs, s \in Steps : approval[r][s] \in ResolvedApproval =>
            approval'[r][s] = approval[r][s]
    <2> SUFFICES ASSUME TypeOK, GateInv, [Next]_vars, NEW r \in Runs,
                        NEW s \in Steps, approval[r][s] \in ResolvedApproval
                 PROVE  approval'[r][s] = approval[r][s]
      OBVIOUS
    <2>1. GateMoves(r)
      BY NextGates DEF GateInv
    <2>2. approval[r][s] \notin {"NONE", "PENDING"}
      BY DEF ResolvedApproval
    <2>3. CASE GateAsked(r)
      BY <2>2, <2>3 DEF GateAsked, TypeOK
    <2> QED
      BY <2>1, <2>2, <2>3
         DEF GateMoves, GateQuiet, GateCompleted, GateReported
  <1> QED
    BY <1>1, TypeCorrect, GatesHold, PTL DEF Spec, ApprovalDecisionFinal

(* What the approval gates promise, for every workflow, every number of    *)
(* runs and every interleaving of decisions, expiries, ends and results.   *)
THEOREM GatesObeyed == Spec => ApprovalsObeyed
  <1>1. GateInv => ApprovalsSettled /\ GateRespected
    BY DEF GateInv
  <1> QED
    BY <1>1, GatesHold, DecisionsAreFinal, PTL DEF ApprovalsObeyed
-----------------------------------------------------------------------------
(* Repairs                                                                 *)

SafeEffects == {"read_only", "not_started"}

(* A repair is asked for an attempt that ended without a side effect on a  *)
(* step no approval gates.                                                 *)
RepairableAttempt(r, s, n) ==
  /\ n \in 1..Len(attempts[r][s])
  /\ attempts[r][s][n].status # "running"
  /\ attempts[r][s][n].effect \in SafeEffects
  /\ ~isApprovalGatedStep(s)

RepairsAsked ==
  \A r \in Runs, s \in Steps, n \in AttemptNumbers :
    repair[r][s][n] # "NONE" => RepairableAttempt(r, s, n)

(* An expiry in flight is of a request that was made.                      *)
ExpiringAsked ==
  \A x \in expiring : repair[x.run][x.step][x.attempt] # "NONE"

(* A step is attempted as often as the policy allows.                      *)
AttemptsBounded ==
  \A r \in Runs, s \in Steps : Len(attempts[r][s]) <= MAX_TOTAL_ATTEMPTS

(* The inductive invariant behind ManualRetryIsSafe.                       *)
RepairInv ==
  RepairsAsked /\ ExpiringAsked /\ AttemptsBounded /\ ManualRetryIsSafe

(* The attempts of a step move: an ended attempt keeps its row, no attempt *)
(* its trigger, and one more may start, by hand only after an approval.    *)
AttemptsMove(r, s) ==
  /\ \/ Len(attempts'[r][s]) = Len(attempts[r][s])
     \/ /\ Len(attempts'[r][s]) = Len(attempts[r][s]) + 1
        /\ Len(attempts'[r][s]) \in AttemptNumbers
  /\ \A n \in 1..Len(attempts[r][s]) :
       /\ attempts'[r][s][n].trigger = attempts[r][s][n].trigger
       /\ attempts[r][s][n].status # "running" =>
            attempts'[r][s][n] = attempts[r][s][n]
  /\ \A n \in 1..Len(attempts'[r][s]) :
       n > Len(attempts[r][s]) /\ attempts'[r][s][n].trigger = "manual_retry" =>
         n > 1 /\ repair[r][s][n - 1] = "RETRY_APPROVED"

(* The requests of a step move: one is opened for a repairable attempt,    *)
(* none disappears, and an approval to retry is taken back by its expiry   *)
(* only.                                                                   *)
RepairsMove(r, s) ==
  \A n \in AttemptNumbers :
    /\ repair[r][s][n] # "NONE" => repair'[r][s][n] # "NONE"
    /\ repair[r][s][n] = "NONE" /\ repair'[r][s][n] # "NONE" =>
         RepairableAttempt(r, s, n)
    /\ repair[r][s][n] \in {"RETRY_APPROVED", "EXPIRED"} =>
         repair'[r][s][n] \in {"RETRY_APPROVED", "EXPIRED"}

RecoveryMoves == \A r \in Runs, s \in Steps : AttemptsMove(r, s) /\ RepairsMove(r, s)

(* Attempts that stay move.                                                *)
LEMMA AttemptsStay ==
  ASSUME TypeOK, NEW r \in Runs, NEW s \in Steps,
         attempts'[r][s] = attempts[r][s]
  PROVE  AttemptsMove(r, s)
  <1>1. attempts[r][s] \in Seq(AttemptRow)
    BY DEF TypeOK
  <1>2. Len(attempts[r][s]) \in Nat
    BY <1>1
  <1> QED
    BY <1>2 DEF AttemptsMove

(* Interrupting the attempts of some runs ends running ones only.          *)
LEMMA InterruptAttemptsMove ==
  ASSUME TypeOK, NEW S, NEW code, InterruptAttempts(S, code), NEW r \in Runs,
         NEW s \in Steps
  PROVE  AttemptsMove(r, s)
  <1> DEFINE rows == attempts[r][s]
             cut == [n \in DOMAIN rows |-> InterruptAttempt(rows[n], code)]
  <1>1. rows \in Seq(AttemptRow)
    BY DEF TypeOK
  <1>2. CASE r \notin S
    <2>1. attempts'[r] = attempts[r]
      BY <1>2 DEF InterruptAttempts
    <2> QED
      BY <2>1, AttemptsStay
  <1>3. CASE r \in S
    <2>1. attempts'[r][s] = cut
      BY <1>3 DEF InterruptAttempts
    <2>2. DOMAIN rows = 1..Len(rows) /\ Len(rows) \in Nat
      BY <1>1
    <2>3. \A n \in 1..Len(rows) : rows[n] \in AttemptRow
      BY <1>1
    <2>4. \A n \in 1..Len(rows) :
            /\ cut[n].trigger = rows[n].trigger
            /\ rows[n].status # "running" => cut[n] = rows[n]
      BY <2>2, <2>3 DEF InterruptAttempt, AttemptRow
    <2>5. Len(cut) = Len(rows)
      BY <2>2
    <2> HIDE DEF rows, cut
    <2> QED
      BY <2>1, <2>2, <2>4, <2>5 DEF AttemptsMove, rows
  <1> QED
    BY <1>2, <1>3

(* Resolving requests closes pending ones only.                            *)
LEMMA ResolveRepairsMove ==
  ASSUME TypeOK, NEW S, NEW outcome \in ResolvedRepair,
         ResolveRepairs(S, outcome), NEW r \in Runs, NEW s \in Steps
  PROVE  RepairsMove(r, s)
  BY DEF TypeOK, ResolveRepairs, Resolve, ResolvedRepair, RepairsMove

(* A request that was decided is for a repairable attempt.                 *)
LEMMA CreateRepairMoves ==
  ASSUME TypeOK, NEW r \in Runs, NEW s \in Steps, NEW t, NEW due,
         CreateRepair(r, s, t, due)
  PROVE  RecoveryMoves
  <1> DEFINE n == Len(attempts[r][s])
  <1>1. attempts[r][s] \in Seq(AttemptRow)
    BY DEF TypeOK
  <1>2. n \in Nat /\ n > 0 /\ attempts[r][s][n].status # "running"
    BY <1>1 DEF CreateRepair
  <1>3. RepairDisposition(r, s) \in {"manual_repair", "locator_proposal"}
    BY DEF CreateRepair
  <1>4. /\ ~isApprovalGatedStep(s)
        /\ attempts[r][s][n].effect \in SafeEffects
    BY <1>3 DEF RepairDisposition, decideRetry, RepeatIsSafe, SafeEffects
  <1>5. RepairableAttempt(r, s, n)
    BY <1>2, <1>4 DEF RepairableAttempt
  <1>6. /\ attempts' = attempts
        /\ repair' = [repair EXCEPT ![r][s][n] = "PENDING"]
        /\ repair[r][s][n] = "NONE"
    BY DEF CreateRepair
  <1> HIDE DEF n
  <1>7. ASSUME NEW x \in Runs, NEW k \in Steps PROVE RepairsMove(x, k)
    <2> SUFFICES ASSUME NEW m \in AttemptNumbers
                 PROVE  /\ repair[x][k][m] # "NONE" => repair'[x][k][m] # "NONE"
                        /\ repair[x][k][m] = "NONE" /\ repair'[x][k][m] # "NONE" =>
                             RepairableAttempt(x, k, m)
                        /\ repair[x][k][m] \in {"RETRY_APPROVED", "EXPIRED"} =>
                             repair'[x][k][m] \in {"RETRY_APPROVED", "EXPIRED"}
      BY DEF RepairsMove
    <2>1. CASE x = r /\ k = s /\ m = n
      BY <1>5, <1>6, <2>1 DEF TypeOK
    <2>2. CASE ~(x = r /\ k = s /\ m = n)
      <3>1. repair'[x][k][m] = repair[x][k][m]
        BY <1>6, <2>2 DEF TypeOK
      <3> QED
        BY <3>1
    <2> QED
      BY <2>1, <2>2
  <1> QED
    BY <1>6, <1>7, AttemptsStay DEF RecoveryMoves

(* The Runner's reports of attempts.                                       *)
LEMMA IngestAttemptsMove ==
  ASSUME TypeOK, NEW r \in Runs, NEW s \in Steps, NEW t,
         \/ \E trigger \in Triggers : IngestAttemptStarted(r, s, t, trigger)
         \/ \E n, st, code, effect :
              IngestAttemptFinished(r, s, t, n, st, code, effect)
  PROVE  RecoveryMoves
  <1> USE DEF repairVars
  <1> DEFINE rows == attempts[r][s]
  <1>0. /\ rows \in Seq(AttemptRow) /\ Len(rows) \in Nat
        /\ \A n \in 1..Len(rows) : rows[n] \in AttemptRow
    BY DEF TypeOK
  <1>a. ASSUME repair' = repair, NEW x \in Runs, NEW k \in Steps
        PROVE  RepairsMove(x, k)
    BY <1>a DEF RepairsMove
  <1>b. ASSUME NEW new, attempts' = [attempts EXCEPT ![r][s] = new],
               NEW x \in Runs, NEW k \in Steps, ~(x = r /\ k = s)
        PROVE  AttemptsMove(x, k)
    <2>1. attempts'[x][k] = attempts[x][k]
      BY <1>b DEF TypeOK
    <2> QED
      BY <2>1, AttemptsStay
  <1>c. ASSUME NEW new, attempts' = [attempts EXCEPT ![r][s] = new]
        PROVE  attempts'[r][s] = new
    BY <1>c DEF TypeOK
  <1>1. ASSUME NEW trigger \in Triggers, IngestAttemptStarted(r, s, t, trigger)
        PROVE  RecoveryMoves
    <2> DEFINE row == [trigger |-> trigger, status |-> "running",
                       error |-> "none", effect |-> "unknown"]
    <2>1. /\ attempts' = [attempts EXCEPT ![r][s] = Append(rows, row)]
          /\ repair' = repair
          /\ Len(rows) + 1 \in AttemptNumbers
          /\ trigger = "manual_retry" =>
               Len(rows) + 1 > 1 /\ repair[r][s][Len(rows) + 1 - 1] = "RETRY_APPROVED"
      BY <1>1 DEF IngestAttemptStarted
    <2>2. attempts'[r][s] = Append(rows, row)
      BY <1>c, <2>1
    <2>3. row.trigger = trigger
      OBVIOUS
    <2> HIDE DEF row
    <2>4. AttemptsMove(r, s)
      <3>1. /\ Len(Append(rows, row)) = Len(rows) + 1
            /\ Append(rows, row)[Len(rows) + 1] = row
            /\ \A n \in 1..Len(rows) : Append(rows, row)[n] = rows[n]
        BY <1>0
      <3>2. Len(rows) + 1 - 1 = Len(rows)
        BY <1>0
      <3> HIDE DEF rows
      <3>3. \A n \in 1..Len(rows) + 1 : n > Len(rows) => n = Len(rows) + 1
        BY <1>0
      <3> QED
        BY <1>0, <2>1, <2>2, <2>3, <3>1, <3>2, <3>3 DEF AttemptsMove, rows
    <2> QED
      BY <1>a, <1>b, <2>1, <2>4 DEF RecoveryMoves
  <1>2. ASSUME NEW n, NEW st, NEW code, NEW effect,
               IngestAttemptFinished(r, s, t, n, st, code, effect)
        PROVE  RecoveryMoves
    <2> DEFINE row == [rows[n] EXCEPT !.status = st, !.error = code,
                                      !.effect = effect]
               new == [rows EXCEPT ![n] = row]
    <2>1. /\ n \in 1..Len(rows) /\ rows[n].status = "running"
          /\ attempts' = [attempts EXCEPT ![r][s][n] = row]
          /\ repair' = repair
      BY <1>2 DEF IngestAttemptFinished
    <2>2. attempts' = [attempts EXCEPT ![r][s] = new]
      BY <2>1
    <2>3. row.trigger = rows[n].trigger
      BY <1>0, <2>1 DEF AttemptRow
    <2>4. /\ Len(new) = Len(rows) /\ new[n] = row
          /\ \A m \in 1..Len(rows) : m # n => new[m] = rows[m]
      <3> HIDE DEF row
      <3> QED
        BY <1>0, <2>1
    <2>5. attempts'[r][s] = new
      BY <1>c, <2>2
    <2> HIDE DEF row, new
    <2>6. AttemptsMove(r, s)
      <3> HIDE DEF rows
      <3> QED
        BY <1>0, <2>1, <2>3, <2>4, <2>5 DEF AttemptsMove, rows
    <2> QED
      BY <1>a, <1>b, <2>1, <2>2, <2>6 DEF RecoveryMoves
  <1> QED
    BY <1>1, <1>2

(* Expiring a request in flight closes it.                                 *)
LEMMA ExpireRepairWriteRecovers ==
  ASSUME TypeOK, ExpiringAsked, NEW x \in expiring, ExpireRepairWrite(x)
  PROVE  RecoveryMoves
  <1> USE DEF recordVars
  <1>1. /\ attempts' = attempts
        /\ repair' = [repair EXCEPT ![x.run][x.step][x.attempt] = "EXPIRED"]
        /\ repair[x.run][x.step][x.attempt] # "NONE"
    BY DEF ExpireRepairWrite, ExpiringAsked
  <1>2. x.run \in Runs /\ x.step \in Steps /\ x.attempt \in AttemptNumbers
    BY DEF TypeOK, ExpiryTransaction
  <1>3. ASSUME NEW r \in Runs, NEW s \in Steps, NEW n \in AttemptNumbers
        PROVE  \/ repair'[r][s][n] = repair[r][s][n]
               \/ repair'[r][s][n] = "EXPIRED" /\ repair[r][s][n] # "NONE"
    <2>1. repair \in [Runs -> [Steps -> [AttemptNumbers -> RepairRequestStatus]]]
      BY DEF TypeOK
    <2>2. CASE r = x.run /\ s = x.step /\ n = x.attempt
      BY <1>1, <1>2, <2>1, <2>2
    <2>3. CASE ~ (r = x.run /\ s = x.step /\ n = x.attempt)
      BY <1>1, <1>2, <2>1, <2>3
    <2> QED
      BY <2>2, <2>3
  <1>4. \A r \in Runs, s \in Steps : RepairsMove(r, s)
    BY <1>3 DEF RepairsMove
  <1> QED
    BY <1>1, <1>4, AttemptsStay DEF RecoveryMoves

(* Every step moves attempts and repair requests so.                       *)
LEMMA NextRecovers ==
  ASSUME TypeOK, ExpiringAsked, [Next]_vars
  PROVE  RecoveryMoves
  <1> USE DEF leaseVars, recordVars, approvalVars, repairVars, logVars, runVars,
              scheduleVars, envVars
  <1>0. ASSUME UNCHANGED <<attempts, repair>> PROVE RecoveryMoves
    <2>1. \A r \in Runs, s \in Steps : RepairsMove(r, s)
      BY <1>0 DEF RepairsMove
    <2> QED
      BY <1>0, <2>1, AttemptsStay DEF RecoveryMoves
  <1>a. ASSUME NEW S, NEW outcome \in ResolvedRepair, ResolveRepairs(S, outcome),
               attempts' = attempts
        PROVE  RecoveryMoves
    BY <1>a, AttemptsStay, ResolveRepairsMove DEF RecoveryMoves
  <1>b. ASSUME NEW S, NEW T, NEW code, NEW outcome \in ResolvedRepair,
               ResolveRepairs(S, outcome), InterruptAttempts(T, code)
        PROVE  RecoveryMoves
    BY <1>b, InterruptAttemptsMove, ResolveRepairsMove DEF RecoveryMoves
  <1>c. {"CANCELLED", "INVALIDATED"} \subseteq ResolvedRepair
    BY DEF ResolvedRepair
  <1>1. CASE Tick \/ SupersedePolicy \/ UNCHANGED vars
    BY <1>0, <1>1 DEF Tick, SupersedePolicy, vars
  <1>2. CASE \E n \in Runners : SyncInventory(n)
    BY <1>0, <1>2 DEF SyncInventory
  <1>3. ASSUME NEW n \in Runners, RevokeRunner(n) PROVE RecoveryMoves
    BY <1>b, <1>c, <1>3 DEF RevokeRunner
  <1>4. ASSUME NEW n \in Runners, NEW r \in Runs,
               CreateRun(r, n) \/ processOccurrence(r, n)
        PROVE  RecoveryMoves
    BY <1>0, <1>4 DEF CreateRun, processOccurrence, QueueRun
  <1>5. ASSUME NEW n \in Runners, NEW a, NEW r \in Runs, NEW t, NEW sent,
               Claim(n, a, r, t, sent) \/ FailStalePin(n, a, r, t, sent)
        PROVE  RecoveryMoves
    BY <1>b, <1>c, <1>5 DEF Claim, FailStalePin, InterruptRequests
  <1>6. ASSUME NEW r \in Runs, NEW t, RunnerRequest(r, t) PROVE RecoveryMoves
    <2>1. CASE \/ RenewLease(r, t)
               \/ \E next \in Reports : IngestRunStatus(r, t, next)
      BY <1>0, <2>1 DEF RenewLease, IngestRunStatus
    <2>2. ASSUME NEW s \in Steps, NEW next, IngestStepStatus(r, s, t, next)
          PROVE  RecoveryMoves
      BY <1>0, <2>2 DEF IngestStepStatus
    <2>3. ASSUME NEW s \in Steps, NEW due,
                 IngestOutput(r, s, t) \/ CreateApproval(r, s, t, due)
                   \/ PollExpiredApproval(r, s, t)
          PROVE  RecoveryMoves
      BY <1>0, <2>3 DEF IngestOutput, CreateApproval, PollExpiredApproval
    <2>4. ASSUME NEW s, NEW n, ExpireRepairRead(r, s, n, t, FALSE)
          PROVE  RecoveryMoves
      BY <1>0, <2>4 DEF ExpireRepairRead
    <2>5. ASSUME NEW c, NEW result, Complete(r, t, c, result)
          PROVE  RecoveryMoves
      BY <1>0, <2>5 DEF Complete
    <2>6. ASSUME NEW s \in Steps, NEW trigger \in Triggers,
                 IngestAttemptStarted(r, s, t, trigger)
          PROVE  RecoveryMoves
      BY <2>6, IngestAttemptsMove
    <2>7. ASSUME NEW s \in Steps, NEW n, NEW st, NEW code, NEW effect,
                 IngestAttemptFinished(r, s, t, n, st, code, effect)
          PROVE  RecoveryMoves
      BY <2>7, IngestAttemptsMove
    <2> QED
      BY <1>6, <2>1, <2>2, <2>3, <2>4, <2>5, <2>6, <2>7, CreateRepairMoves
         DEF RunnerRequest
  <1>7. ASSUME NEW r \in Runs, NEW t, UserRequest(r, t) PROVE RecoveryMoves
    <2>1. CASE CancelQueued(r) \/ CancelActive(r)
      BY <1>a, <1>c, <2>1 DEF CancelQueued, CancelActive
    <2>2. ASSUME NEW s, NEW n, NEW decision,
                 \/ DecideApproval(r, s, t, decision)
                 \/ ExpireRepairRead(r, s, n, t, TRUE)
          PROVE  RecoveryMoves
      BY <1>0, <2>2 DEF DecideApproval, ExpireRepairRead
    <2>3. ASSUME NEW s \in Steps, NEW n \in AttemptNumbers,
                 NEW decision \in {"RETRY_APPROVED", "ABORTED"},
                 DecideRepair(r, s, n, t, decision)
          PROVE  RecoveryMoves
      <3>1. /\ repair[r][s][n] = "PENDING" /\ attempts' = attempts
            /\ repair' = [repair EXCEPT ![r][s][n] = decision]
        BY <2>3 DEF DecideRepair
      <3>2. \A x \in Runs, k \in Steps, m \in AttemptNumbers :
              \/ repair'[x][k][m] = repair[x][k][m]
              \/ repair[x][k][m] = "PENDING" /\ repair'[x][k][m] = decision
        BY <3>1 DEF TypeOK
      <3>3. \A x \in Runs, k \in Steps : RepairsMove(x, k)
        BY <3>2 DEF RepairsMove
      <3> QED
        BY <3>1, <3>3, AttemptsStay DEF RecoveryMoves
    <2> QED
      BY <1>7, <2>1, <2>2, <2>3 DEF UserRequest
  <1>8. ASSUME NEW r \in Runs, NEW t, Reconcile(r, t) PROVE RecoveryMoves
    <2>1. CASE ExpireLease(r, t)
      BY <1>b, <1>c, <2>1 DEF ExpireLease, InterruptRequests
    <2>2. CASE \/ \E s \in Steps : ExpireApproval(r, s, t)
               \/ handleRunCompletion(r)
      BY <1>0, <2>2 DEF ExpireApproval, handleRunCompletion
    <2> QED
      BY <1>8, <2>1, <2>2 DEF Reconcile
  <1>9. CASE \E r \in Runs : CompleteExpired(r)
    BY <1>0, <1>9 DEF CompleteExpired
  <1>10. CASE \E x \in expiring : ExpireRepairWrite(x)
    BY <1>10, ExpireRepairWriteRecovers
  <1> QED
    BY <1>1, <1>2, <1>3, <1>4, <1>5, <1>6, <1>7, <1>8, <1>9, <1>10
       DEF Next, Dispatch

(* An expiry is read of a request that is there.                           *)
LEMMA NextExpiring ==
  ASSUME TypeOK, [Next]_vars, NEW x \in expiring'
  PROVE  \/ x \in expiring
         \/ /\ x \in ExpiryTransaction
            /\ repair[x.run][x.step][x.attempt] # "NONE"
  <1> USE DEF leaseVars, recordVars, approvalVars, repairVars, logVars, runVars,
              scheduleVars, envVars
  <1> DEFINE Goal == \/ x \in expiring
                     \/ /\ x \in ExpiryTransaction
                        /\ repair[x.run][x.step][x.attempt] # "NONE"
  <1> SUFFICES Goal
    OBVIOUS
  <1>0. ASSUME expiring' = expiring PROVE Goal
    BY <1>0
  <1>1. ASSUME NEW r \in Runs, NEW s \in Steps, NEW n \in AttemptNumbers, NEW t,
               NEW terminate \in BOOLEAN, ExpireRepairRead(r, s, n, t, terminate)
        PROVE  Goal
    BY <1>1 DEF ExpireRepairRead, ExpiryTransaction
  <1> HIDE DEF Goal
  <1>2. CASE \E y \in expiring : ExpireRepairWrite(y)
    BY <1>2 DEF ExpireRepairWrite, Goal
  <1>3. CASE Tick \/ SupersedePolicy \/ UNCHANGED vars
    BY <1>0, <1>3 DEF Tick, SupersedePolicy, vars
  <1>4. CASE \E n \in Runners : SyncInventory(n) \/ RevokeRunner(n)
    BY <1>0, <1>4 DEF SyncInventory, RevokeRunner
  <1>5. ASSUME NEW n \in Runners, NEW r \in Runs, NEW a, NEW t, NEW sent,
               \/ CreateRun(r, n) \/ processOccurrence(r, n)
               \/ Claim(n, a, r, t, sent) \/ FailStalePin(n, a, r, t, sent)
        PROVE  Goal
    BY <1>0, <1>5 DEF CreateRun, processOccurrence, QueueRun, Claim, FailStalePin,
       InterruptRequests
  <1>6. ASSUME NEW r \in Runs, NEW t, RunnerRequest(r, t) PROVE Goal
    <2>1. CASE \/ RenewLease(r, t)
               \/ \E next \in Reports : IngestRunStatus(r, t, next)
      BY <1>0, <2>1 DEF RenewLease, IngestRunStatus
    <2>2. ASSUME NEW s, NEW next, IngestStepStatus(r, s, t, next) PROVE Goal
      BY <1>0, <2>2 DEF IngestStepStatus
    <2>3. ASSUME NEW s, NEW due,
                 \/ IngestOutput(r, s, t) \/ PollExpiredApproval(r, s, t)
                 \/ CreateApproval(r, s, t, due) \/ CreateRepair(r, s, t, due)
          PROVE  Goal
      BY <1>0, <2>3 DEF IngestOutput, CreateApproval, CreateRepair,
                        PollExpiredApproval
    <2>4. ASSUME NEW s, NEW trigger, IngestAttemptStarted(r, s, t, trigger)
          PROVE  Goal
      BY <1>0, <2>4 DEF IngestAttemptStarted
    <2>5. ASSUME NEW s, NEW n, NEW st, NEW code, NEW effect,
                 IngestAttemptFinished(r, s, t, n, st, code, effect)
          PROVE  Goal
      BY <1>0, <2>5 DEF IngestAttemptFinished
    <2>6. ASSUME NEW c, NEW result, Complete(r, t, c, result) PROVE Goal
      BY <1>0, <2>6 DEF Complete
    <2> QED
      BY <1>1, <1>6, <2>1, <2>2, <2>3, <2>4, <2>5, <2>6 DEF RunnerRequest
  <1>7. ASSUME NEW r \in Runs, NEW t, UserRequest(r, t) PROVE Goal
    BY <1>0, <1>1, <1>7 DEF UserRequest, CancelQueued, CancelActive,
       DecideApproval, DecideRepair
  <1>8. ASSUME NEW r \in Runs, NEW t, Reconcile(r, t) PROVE Goal
    BY <1>0, <1>8 DEF Reconcile, ExpireLease, InterruptRequests, ExpireApproval,
       handleRunCompletion
  <1>9. CASE \E r \in Runs : CompleteExpired(r)
    BY <1>0, <1>9 DEF CompleteExpired
  <1> QED
    BY <1>2, <1>3, <1>4, <1>5, <1>6, <1>7, <1>8, <1>9 DEF Next, Dispatch

(* The repair invariant is inductive.                                      *)
LEMMA RepairStep ==
  ASSUME TypeOK, TypeOK', RepairInv, [Next]_vars
  PROVE  RepairInv'
  <1>1. RecoveryMoves
    BY NextRecovers DEF RepairInv
  <1>0. ASSUME NEW r \in Runs, NEW s \in Steps
        PROVE  Len(attempts[r][s]) \in Nat /\ Len(attempts'[r][s]) \in Nat
    <2>1. attempts[r][s] \in Seq(AttemptRow) /\ attempts'[r][s] \in Seq(AttemptRow)
      BY DEF TypeOK
    <2> QED
      BY <2>1
  <1>2. ASSUME NEW r \in Runs, NEW s \in Steps, NEW n, RepairableAttempt(r, s, n)
        PROVE  /\ n \in 1..Len(attempts'[r][s])
               /\ attempts'[r][s][n] = attempts[r][s][n]
    BY <1>0, <1>1, <1>2 DEF RecoveryMoves, AttemptsMove, RepairableAttempt
  <1>3. RepairsAsked'
    <2> SUFFICES ASSUME NEW r \in Runs, NEW s \in Steps, NEW n \in AttemptNumbers,
                        repair'[r][s][n] # "NONE"
                 PROVE  RepairableAttempt(r, s, n)'
      BY DEF RepairsAsked
    <2>1. RepairableAttempt(r, s, n)
      BY <1>1 DEF RepairInv, RepairsAsked, RecoveryMoves, RepairsMove
    <2> QED
      BY <1>2, <2>1 DEF RepairableAttempt, isApprovalGatedStep
  <1>4. ExpiringAsked'
    <2> SUFFICES ASSUME NEW x \in expiring'
                 PROVE  repair'[x.run][x.step][x.attempt] # "NONE"
      BY DEF ExpiringAsked
    <2>1. x \in ExpiryTransaction /\ repair[x.run][x.step][x.attempt] # "NONE"
      BY NextExpiring DEF RepairInv, ExpiringAsked, TypeOK
    <2>2. x.run \in Runs /\ x.step \in Steps /\ x.attempt \in AttemptNumbers
      BY <2>1 DEF ExpiryTransaction
    <2> QED
      BY <1>1, <2>1, <2>2 DEF RecoveryMoves, RepairsMove
  <1>6. AttemptsBounded'
    <2> SUFFICES ASSUME NEW r \in Runs, NEW s \in Steps
                 PROVE  Len(attempts'[r][s]) <= MAX_TOTAL_ATTEMPTS
      BY DEF AttemptsBounded
    <2>1. \/ Len(attempts'[r][s]) = Len(attempts[r][s])
          \/ Len(attempts'[r][s]) \in AttemptNumbers
      BY <1>1 DEF RecoveryMoves, AttemptsMove
    <2>2. Len(attempts[r][s]) <= MAX_TOTAL_ATTEMPTS
      BY DEF RepairInv, AttemptsBounded
    <2> QED
      BY <1>0, <2>1, <2>2 DEF AttemptNumbers
  <1>5. ManualRetryIsSafe'
    <2> SUFFICES ASSUME NEW r \in Runs, NEW s \in Steps,
                        NEW n \in DOMAIN attempts'[r][s],
                        attempts'[r][s][n].trigger = "manual_retry"
                 PROVE  /\ n > 1
                        /\ repair'[r][s][n - 1] \in {"RETRY_APPROVED", "EXPIRED"}
                        /\ attempts'[r][s][n - 1].effect \in SafeEffects
                        /\ ~isApprovalGatedStep(s)
      BY DEF ManualRetryIsSafe, SafeEffects, isApprovalGatedStep
    <2>1. attempts'[r][s] \in Seq(AttemptRow) /\ attempts[r][s] \in Seq(AttemptRow)
      BY DEF TypeOK
    <2>2. /\ n \in 1..Len(attempts'[r][s])
          /\ DOMAIN attempts[r][s] = 1..Len(attempts[r][s])
      BY <2>1
    <2>3. AttemptsMove(r, s) /\ RepairsMove(r, s)
      BY <1>1 DEF RecoveryMoves
    <2>4. /\ n > 1
          /\ repair[r][s][n - 1] \in {"RETRY_APPROVED", "EXPIRED"}
      <3>1. CASE n \in 1..Len(attempts[r][s])
        <4>1. attempts[r][s][n].trigger = "manual_retry"
          BY <2>3, <3>1 DEF AttemptsMove
        <4> QED
          BY <2>2, <3>1, <4>1 DEF RepairInv, ManualRetryIsSafe
      <3>2. CASE n \notin 1..Len(attempts[r][s])
        <4>1. n > Len(attempts[r][s])
          BY <1>0, <2>2, <3>2
        <4> QED
          BY <2>2, <2>3, <4>1 DEF AttemptsMove
      <3> QED
        BY <3>1, <3>2
    <2>5. n - 1 \in AttemptNumbers
      <3>1. Len(attempts'[r][s]) <= MAX_TOTAL_ATTEMPTS
        BY <1>6 DEF AttemptsBounded
      <3> QED
        BY <1>0, <2>2, <2>4, <3>1 DEF AttemptNumbers, MAX_TOTAL_ATTEMPTS
    <2>6. RepairableAttempt(r, s, n - 1)
      BY <2>4, <2>5 DEF RepairInv, RepairsAsked
    <2>7. repair'[r][s][n - 1] \in {"RETRY_APPROVED", "EXPIRED"}
      BY <2>3, <2>4, <2>5 DEF RepairsMove
    <2> QED
      BY <1>2, <2>4, <2>6, <2>7 DEF RepairableAttempt
  <1> QED
    BY <1>3, <1>4, <1>5, <1>6 DEF RepairInv

(* The empty ledger has no attempts and no requests.                       *)
LEMMA RepairInit == Init => RepairInv
  BY DEF Init, RepairInv, RepairsAsked, ExpiringAsked, AttemptsBounded,
         ManualRetryIsSafe, MAX_TOTAL_ATTEMPTS

(* A manual retry repeats only an attempt a human was asked about, that    *)
(* had ended and had no side effect, whatever expiries race the decision.  *)
THEOREM RetriesAreSafe == Spec => []RepairInv
  <1>1. TypeOK /\ TypeOK' /\ RepairInv /\ [Next]_vars => RepairInv'
    BY RepairStep
  <1> QED
    BY <1>1, RepairInit, TypeCorrect, PTL DEF Spec

(* Both repair properties: an accepted completion left every step ended    *)
(* with an output exactly if it is an Extract that succeeded, and manual   *)
(* retries repeat no side effect.                                          *)
THEOREM RepairsHold == Spec => []RepairsAreSafe
  <1>1. GateInv /\ RepairInv => RepairsAreSafe
    BY DEF GateInv, RepairInv, RepairsAreSafe
  <1> QED
    BY <1>1, GatesHold, RetriesAreSafe, PTL
=============================================================================
