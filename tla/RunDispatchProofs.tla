-------------------------- MODULE RunDispatchProofs --------------------------
(***************************************************************************)
(* Proofs about RunDispatch for every set of runs and Runners, every       *)
(* workflow and every choice of terms and latencies.                       *)
(***************************************************************************)
EXTENDS RunDispatch, TLAPS

-----------------------------------------------------------------------------
(* What the row updates return                                             *)

(* Skipping or interrupting a step leaves it with a step status.           *)
LEMMA StepUpdatesType ==
  ASSUME NEW st \in PersistedRunStepStatus
  PROVE  /\ SkipPending(st) \in PersistedRunStepStatus
         /\ InterruptStep(st) \in PersistedRunStepStatus
  BY DEF SkipPending, InterruptStep, PersistedRunStepStatus, TerminalStepStatus,
         WaitingStepStatus

(* Interrupting the steps of a set of runs keeps the step table typed.     *)
LEMMA InterruptedStepsType ==
  ASSUME TypeOK, NEW S
  PROVE  InterruptedSteps(S) \in [Runs -> [Steps -> PersistedRunStepStatus]]
  BY StepUpdatesType DEF TypeOK, InterruptedSteps

(* The steps of a run whose request expired are typed.                     *)
LEMMA TimedOutStepsType ==
  ASSUME TypeOK, NEW r \in Runs, NEW s, NEW waiting
  PROVE  TimedOutSteps(r, s, waiting) \in [Steps -> PersistedRunStepStatus]
  <1>1. "TIMED_OUT" \in PersistedRunStepStatus
    BY DEF PersistedRunStepStatus, TerminalStepStatus
  <1>2. \A x \in Steps : SkipPending(step[r][x]) \in PersistedRunStepStatus
    BY StepUpdatesType DEF TypeOK
  <1> QED
    BY <1>1, <1>2 DEF TimedOutSteps

(* Resolving the pending approvals of a set of runs keeps them typed.      *)
LEMMA ResolveApprovalsType ==
  ASSUME TypeOK, NEW S, NEW outcome \in ResolvedApproval,
         ResolveApprovals(S, outcome)
  PROVE  approval' \in [Runs -> [Steps -> ApprovalRequestStatus]]
  BY DEF TypeOK, ResolveApprovals, Resolve, ApprovalRequestStatus

(* Resolving the pending repairs of a set of runs keeps them typed.        *)
LEMMA ResolveRepairsType ==
  ASSUME TypeOK, NEW S, NEW outcome \in ResolvedRepair,
         ResolveRepairs(S, outcome)
  PROVE  repair' \in [Runs -> [Steps -> [AttemptNumbers -> RepairRequestStatus]]]
  BY DEF TypeOK, ResolveRepairs, Resolve, RepairRequestStatus

(* An interrupted attempt row is an attempt row.                           *)
LEMMA InterruptAttemptType ==
  ASSUME NEW row \in AttemptRow, NEW code \in {"LEASE_EXPIRED", "RUNNER_REVOKED"}
  PROVE  InterruptAttempt(row, code) \in AttemptRow
  BY DEF InterruptAttempt, AttemptRow, StepAttemptStatus, TerminalAttemptStatus,
         EffectCertainty

(* Interrupting the attempts of a set of runs keeps their sequences typed. *)
LEMMA InterruptAttemptsType ==
  ASSUME TypeOK, NEW S, NEW code \in {"LEASE_EXPIRED", "RUNNER_REVOKED"},
         InterruptAttempts(S, code)
  PROVE  attempts' \in [Runs -> [Steps -> Seq(AttemptRow)]]
  <1> SUFFICES ASSUME NEW r \in Runs, NEW s \in Steps
               PROVE  [n \in DOMAIN attempts[r][s] |->
                         InterruptAttempt(attempts[r][s][n], code)]
                        \in Seq(AttemptRow)
    BY DEF TypeOK, InterruptAttempts
  <1> DEFINE rows == attempts[r][s]
  <1>1. rows \in Seq(AttemptRow)
    BY DEF TypeOK
  <1>2. \A n \in DOMAIN rows : rows[n] \in AttemptRow
    BY <1>1
  <1>3. \A n \in DOMAIN rows : InterruptAttempt(rows[n], code) \in AttemptRow
    BY <1>2, InterruptAttemptType
  <1>4. DOMAIN rows = 1..Len(rows) /\ Len(rows) \in Nat
    BY <1>1
  <1> HIDE DEF rows
  <1> QED
    BY <1>3, <1>4 DEF rows

(* Tallies stay natural numbers.                                           *)
LEMMA IncrementType ==
  ASSUME NEW tally \in [Runs -> Nat], NEW S
  PROVE  Increment(tally, S) \in [Runs -> Nat]
  BY DEF Increment

-----------------------------------------------------------------------------
(* Type correctness                                                        *)

(* Request times are instants of the clock.                                *)
LEMMA RequestTimesType ==
  ASSUME TypeOK, NEW t \in RequestTimes
  PROVE  t \in Nat
  BY DEF TypeOK, RequestTimes

(* The initial rows are typed.                                             *)
LEMMA TypeInit == Init => TypeOK
  BY WorkflowAssumption, NullAssumption
     DEF Init, TypeOK, Steps, AttemptNumbers, PersistedRunStepStatus,
         ApprovalRequestStatus, RepairRequestStatus, ExpiryTransaction,
         OccurrenceStatus

(* Creating and claiming runs keeps the rows typed.                        *)
LEMMA TypeDispatch ==
  ASSUME TypeOK, NEW n \in Runners, NEW r \in Runs, NEW t \in RequestTimes,
         \/ CreateRun(r, n) \/ processOccurrence(r, n)
         \/ \E a \in ClaimAttempts, sent \in 0..MaxRevision :
              Claim(n, a, r, t, sent) \/ FailStalePin(n, a, r, t, sent)
  PROVE  TypeOK'
  <1> USE DEF leaseVars, recordVars, approvalVars, repairVars, logVars, runVars,
              scheduleVars, envVars
  <1>t. t \in Nat
    BY RequestTimesType
  <1>1. CASE CreateRun(r, n)
    BY <1>1 DEF TypeOK, CreateRun, QueueRun, WorkflowRunStatus
  <1>4. CASE processOccurrence(r, n)
    BY <1>4 DEF TypeOK, processOccurrence, QueueRun, WorkflowRunStatus,
                OccurrenceStatus
  <1>2. ASSUME NEW a \in ClaimAttempts, NEW sent \in 0..MaxRevision,
               Claim(n, a, r, t, sent)
        PROVE  TypeOK'
    <2> DEFINE lapsed == ActiveOf(n)
    <2>1. step' \in [Runs -> [Steps -> PersistedRunStepStatus]]
      BY <1>2, InterruptedStepsType DEF Claim
    <2>2. approval' \in [Runs -> [Steps -> ApprovalRequestStatus]]
      BY <1>2, ResolveApprovalsType DEF Claim, InterruptRequests, ResolvedApproval
    <2>3. repair' \in [Runs -> [Steps -> [AttemptNumbers -> RepairRequestStatus]]]
      BY <1>2, ResolveRepairsType DEF Claim, InterruptRequests, ResolvedRepair
    <2>4. attempts' \in [Runs -> [Steps -> Seq(AttemptRow)]]
      BY <1>2, InterruptAttemptsType DEF Claim, InterruptRequests
    <2>5. /\ status' \in [Runs -> {"ABSENT"} \cup WorkflowRunStatus]
          /\ cause' \in [Runs -> {"none"} \cup EngineCauses \cup ServerCauses]
      BY <1>2 DEF Claim, Assign, TypeOK, WorkflowRunStatus, ACTIVE_STATUSES,
                  TERMINAL_STATUSES, ServerCauses
    <2>6. /\ claimId' \in [Runs -> ClaimAttempts \cup {NoLease}]
          /\ lease' \in [Runs -> ClaimAttempts \cup {NoLease}]
          /\ leaseExpiresAt' \in [Runs -> Nat]
      <3>1. t + LeaseTerm \in Nat
        BY <1>t, TermAssumption
      <3>2. claimId' \in [Runs -> ClaimAttempts \cup {NoLease}]
        BY <1>2 DEF Claim, Assign, TypeOK
      <3>3. lease' \in [Runs -> ClaimAttempts \cup {NoLease}]
        BY <1>2 DEF Claim, Assign, TypeOK
      <3>4. leaseExpiresAt' \in [Runs -> Nat]
        BY <1>2, <3>1 DEF Claim, Assign, TypeOK
      <3> QED
        BY <3>2, <3>3, <3>4
    <2>7. evidence' \in [Runs -> Nat] /\ alerts' \in [Runs -> Nat]
      BY <1>2, IncrementType DEF Claim, Assign, TypeOK
    <2> QED
      BY <1>2, <2>1, <2>2, <2>3, <2>4, <2>5, <2>6, <2>7
         DEF Claim, InterruptRequests, TypeOK
  <1>3. ASSUME NEW a \in ClaimAttempts, NEW sent \in 0..MaxRevision,
               FailStalePin(n, a, r, t, sent)
        PROVE  TypeOK'
    <2>1. step' \in [Runs -> [Steps -> PersistedRunStepStatus]]
      <3>1. InterruptedSteps(ActiveOf(n)) \in
              [Runs -> [Steps -> PersistedRunStepStatus]]
        BY InterruptedStepsType
      <3>2. [s \in Steps |-> SkipPending(step[r][s])] \in
              [Steps -> PersistedRunStepStatus]
        BY StepUpdatesType DEF TypeOK
      <3> QED
        BY <1>3, <3>1, <3>2 DEF FailStalePin
    <2>2. approval' \in [Runs -> [Steps -> ApprovalRequestStatus]]
      BY <1>3, ResolveApprovalsType
         DEF FailStalePin, InterruptRequests, ResolvedApproval
    <2>3. repair' \in [Runs -> [Steps -> [AttemptNumbers -> RepairRequestStatus]]]
      BY <1>3, ResolveRepairsType
         DEF FailStalePin, InterruptRequests, ResolvedRepair
    <2>4. attempts' \in [Runs -> [Steps -> Seq(AttemptRow)]]
      BY <1>3, InterruptAttemptsType DEF FailStalePin, InterruptRequests
    <2>5. /\ status' \in [Runs -> {"ABSENT"} \cup WorkflowRunStatus]
          /\ cause' \in [Runs -> {"none"} \cup EngineCauses \cup ServerCauses]
      BY <1>3 DEF FailStalePin, Assign, TypeOK, WorkflowRunStatus, TERMINAL_STATUSES,
                  ServerCauses
    <2>6. /\ lease' \in [Runs -> ClaimAttempts \cup {NoLease}]
          /\ leaseExpiresAt' \in [Runs -> Nat]
      BY <1>3 DEF FailStalePin, Assign, TypeOK
    <2>7. /\ evidence' \in [Runs -> Nat] /\ alerts' \in [Runs -> Nat]
      BY <1>3, IncrementType DEF FailStalePin, Assign, TypeOK
    <2> QED
      BY <1>3, <2>1, <2>2, <2>3, <2>4, <2>5, <2>6, <2>7
         DEF FailStalePin, InterruptRequests, TypeOK
  <1> QED
    BY <1>1, <1>2, <1>3, <1>4

(* Revoking a Runner keeps the rows typed.                                 *)
LEMMA TypeRevoke ==
  ASSUME TypeOK, NEW n \in Runners, RevokeRunner(n)
  PROVE  TypeOK'
  <1> USE DEF leaseVars, recordVars, approvalVars, repairVars, logVars, runVars,
              scheduleVars, envVars
  <1>1. step' \in [Runs -> [Steps -> PersistedRunStepStatus]]
    BY InterruptedStepsType DEF RevokeRunner
  <1>2. approval' \in [Runs -> [Steps -> ApprovalRequestStatus]]
    BY ResolveApprovalsType DEF RevokeRunner, ResolvedApproval
  <1>3. repair' \in [Runs -> [Steps -> [AttemptNumbers -> RepairRequestStatus]]]
    BY ResolveRepairsType DEF RevokeRunner, ResolvedRepair
  <1>4. attempts' \in [Runs -> [Steps -> Seq(AttemptRow)]]
    BY InterruptAttemptsType DEF RevokeRunner
  <1>5. /\ status' \in [Runs -> {"ABSENT"} \cup WorkflowRunStatus]
        /\ cause' \in [Runs -> {"none"} \cup EngineCauses \cup ServerCauses]
        /\ lease' \in [Runs -> ClaimAttempts \cup {NoLease}]
        /\ leaseExpiresAt' \in [Runs -> Nat]
        /\ alerts' \in [Runs -> Nat]
        /\ revoked' \subseteq Runners
    BY IncrementType DEF RevokeRunner, EndRuns, Assign, TypeOK, WorkflowRunStatus,
                TERMINAL_STATUSES, ServerCauses
  <1> QED
    BY <1>1, <1>2, <1>3, <1>4, <1>5 DEF RevokeRunner, TypeOK

(* The engine's spellings map to persisted ones.                           *)
LEMMA PersistedType ==
  /\ \A st \in EngineStepStatus : persistedStepStatus[st] \in PersistedRunStepStatus
  /\ \A st \in TerminalEngineStepStatus :
       persistedStepStatus[st] \in TerminalStepStatus
  /\ \A c \in EngineCauses :
       persistedRunStatus[terminalStatusFor[c]] \in TERMINAL_STATUSES
  <1>1. /\ \A st \in EngineStepStatus :
             persistedStepStatus[st] \in PersistedRunStepStatus
        /\ \A st \in TerminalEngineStepStatus :
             persistedStepStatus[st] \in TerminalStepStatus
    BY DEF persistedStepStatus, EngineStepStatus, TerminalEngineStepStatus,
           PersistedRunStepStatus, TerminalStepStatus, WaitingStepStatus
  <1>2. \A c \in EngineCauses : terminalStatusFor[c] \in TerminalEngineRunStatus
    BY DEF terminalStatusFor, EngineCauses, TerminalEngineRunStatus
  <1>3. \A st \in TerminalEngineRunStatus :
          persistedRunStatus[st] \in TERMINAL_STATUSES
    BY DEF persistedRunStatus, TerminalEngineRunStatus, TERMINAL_STATUSES
  <1> QED
    BY <1>1, <1>2, <1>3

(* Renewing the lease and reporting the run's status keep the rows typed.  *)
LEMMA TypeLease ==
  ASSUME TypeOK, NEW r \in Runs, NEW t \in RequestTimes,
         \/ RenewLease(r, t)
         \/ \E next \in Reports : IngestRunStatus(r, t, next)
  PROVE  TypeOK'
  <1> USE DEF leaseVars, recordVars, approvalVars, repairVars, logVars, runVars,
              scheduleVars, envVars
  <1>t. t \in Nat
    BY RequestTimesType
  <1>1. CASE RenewLease(r, t)
    <2>1. t + LeaseTerm \in Nat
      BY <1>t, TermAssumption
    <2> QED
      BY <1>1, <2>1 DEF TypeOK, RenewLease
  <1>2. ASSUME NEW next \in Reports, IngestRunStatus(r, t, next)
        PROVE  TypeOK'
    <2>1. status' \in [Runs -> {"ABSENT"} \cup WorkflowRunStatus]
      BY <1>2 DEF TypeOK, IngestRunStatus, WorkflowRunStatus, ACTIVE_STATUSES
    <2>2. engine' \in [Runs -> {"none"} \cup EngineRunStatus]
      BY <1>2, InputAssumption DEF TypeOK, IngestRunStatus
    <2> QED
      BY <1>2, <2>1, <2>2 DEF TypeOK, IngestRunStatus
  <1> QED
    BY <1>1, <1>2

(* The Runner's reports on a step keep the rows typed.                     *)
LEMMA TypeProgress ==
  ASSUME TypeOK, NEW r \in Runs, NEW s \in Steps, NEW t \in RequestTimes,
         \/ \E next \in StepReports : IngestStepStatus(r, s, t, next)
         \/ IngestOutput(r, s, t)
         \/ \E trigger \in Triggers : IngestAttemptStarted(r, s, t, trigger)
         \/ \E n \in AttemptNumbers, effect \in Effects :
              \E st \in AttemptReports :
                \E code \in IF st = "succeeded" THEN {"none"} ELSE FailureCodes :
                  IngestAttemptFinished(r, s, t, n, st, code, effect)
  PROVE  TypeOK'
  <1> USE DEF leaseVars, recordVars, approvalVars, repairVars, logVars, runVars,
              scheduleVars, envVars
  <1>t. t \in Nat
    BY RequestTimesType
  <1>3. ASSUME NEW next \in StepReports, IngestStepStatus(r, s, t, next)
        PROVE  TypeOK'
    <2>1. next \in EngineStepStatus
      BY InputAssumption
    <2>2. persistedStepStatus[next] \in PersistedRunStepStatus
      BY <2>1, PersistedType
    <2>3. step' \in [Runs -> [Steps -> PersistedRunStepStatus]]
      BY <1>3, <2>2 DEF TypeOK, IngestStepStatus
    <2>4. stepEngine' \in [Runs -> [Steps -> {"none"} \cup EngineStepStatus]]
      BY <1>3, <2>1 DEF TypeOK, IngestStepStatus
    <2> QED
      BY <1>3, <2>3, <2>4 DEF TypeOK, IngestStepStatus
  <1>4. CASE IngestOutput(r, s, t)
    BY <1>4 DEF TypeOK, IngestOutput
  <1>5. ASSUME NEW trigger \in Triggers, IngestAttemptStarted(r, s, t, trigger)
        PROVE  TypeOK'
    <2> DEFINE row == [trigger |-> trigger, status |-> "running",
                       error |-> "none", effect |-> "unknown"]
    <2>1. row \in AttemptRow
      BY InputAssumption DEF AttemptRow, StepAttemptStatus, EffectCertainty
    <2>2. Append(attempts[r][s], row) \in Seq(AttemptRow)
      BY <2>1 DEF TypeOK
    <2>3. attempts' = [attempts EXCEPT ![r][s] = Append(attempts[r][s], row)]
      BY <1>5 DEF IngestAttemptStarted
    <2> HIDE DEF row
    <2>4. attempts' \in [Runs -> [Steps -> Seq(AttemptRow)]]
      BY <2>2, <2>3 DEF TypeOK
    <2> QED
      BY <1>5, <2>4 DEF TypeOK, IngestAttemptStarted
  <1>6. ASSUME NEW n \in AttemptNumbers, NEW effect \in Effects,
               NEW st \in AttemptReports,
               NEW code \in IF st = "succeeded" THEN {"none"} ELSE FailureCodes,
               IngestAttemptFinished(r, s, t, n, st, code, effect)
        PROVE  TypeOK'
    <2> DEFINE rows == attempts[r][s]
               row == [rows[n] EXCEPT !.status = st, !.error = code,
                                      !.effect = effect]
    <2>1. rows \in Seq(AttemptRow)
      BY DEF TypeOK
    <2>0. n \in 1..Len(rows)
      BY <1>6, Zenon DEF IngestAttemptFinished
    <2>2. rows[n] \in AttemptRow
      BY <2>0, <2>1
    <2>3. st \in StepAttemptStatus /\ effect \in EffectCertainty
      BY InputAssumption DEF StepAttemptStatus
    <2>4. code \in FailureCodes \cup {"none", "LEASE_EXPIRED", "RUNNER_REVOKED"}
      OBVIOUS
    <2>5. row \in AttemptRow
      BY <2>2, <2>3, <2>4 DEF AttemptRow
    <2>6. attempts' = [attempts EXCEPT ![r][s][n] = row]
      BY <1>6 DEF IngestAttemptFinished
    <2> HIDE DEF row, rows
    <2>7. [rows EXCEPT ![n] = row] \in Seq(AttemptRow)
      BY <2>0, <2>1, <2>5
    <2>8. attempts' \in [Runs -> [Steps -> Seq(AttemptRow)]]
      BY <2>6, <2>7 DEF TypeOK, rows
    <2> QED
      BY <1>6, <2>8 DEF TypeOK, IngestAttemptFinished
  <1> QED
    BY <1>3, <1>4, <1>5, <1>6

(* Completion and the opening, decision and expiry of human requests keep  *)
(* the rows typed.                                                         *)
LEMMA TypeRequests ==
  ASSUME TypeOK, NEW r \in Runs, NEW s \in Steps, NEW t \in RequestTimes,
         NEW n \in AttemptNumbers,
         \/ \E due \in t + 1 .. t + ApprovalTerm : CreateApproval(r, s, t, due)
         \/ \E due \in t + 1 .. t + RepairTerm : CreateRepair(r, s, t, due)
         \/ PollExpiredApproval(r, s, t)
         \/ \E decision \in {"APPROVED", "REJECTED"} :
              DecideApproval(r, s, t, decision)
         \/ \E decision \in {"RETRY_APPROVED", "ABORTED"} :
              DecideRepair(r, s, n, t, decision)
         \/ \E terminate \in BOOLEAN : ExpireRepairRead(r, s, n, t, terminate)
         \/ ExpireApproval(r, s, t)
  PROVE  TypeOK'
  <1> USE DEF leaseVars, recordVars, approvalVars, repairVars, logVars, runVars,
              scheduleVars, envVars
  <1>t. t \in Nat
    BY RequestTimesType
  <1>s. \A st \in WaitingStepStatus : st \in PersistedRunStepStatus
    BY DEF PersistedRunStepStatus
  <1>1. ASSUME NEW due \in t + 1 .. t + ApprovalTerm, CreateApproval(r, s, t, due)
        PROVE  TypeOK'
    <2>1. due \in Nat
      BY <1>t, TermAssumption
    <2> QED
      BY <1>1, <1>s, <2>1
         DEF TypeOK, CreateApproval, WorkflowRunStatus, ACTIVE_STATUSES,
             ApprovalRequestStatus, WaitingStepStatus
  <1>2. ASSUME NEW due \in t + 1 .. t + RepairTerm, CreateRepair(r, s, t, due)
        PROVE  TypeOK'
    <2>1. due \in Nat
      BY <1>t, TermAssumption
    <2>2. repair' \in [Runs -> [Steps -> [AttemptNumbers -> RepairRequestStatus]]]
      BY <1>2 DEF TypeOK, CreateRepair, RepairRequestStatus
    <2>3. step' \in [Runs -> [Steps -> PersistedRunStepStatus]]
      BY <1>2, <1>s DEF TypeOK, CreateRepair, WaitingStepStatus
    <2> QED
      BY <1>2, <2>1, <2>2, <2>3
         DEF TypeOK, CreateRepair, WorkflowRunStatus, ACTIVE_STATUSES
  <1>3. CASE PollExpiredApproval(r, s, t)
    BY <1>3 DEF TypeOK, PollExpiredApproval, ApprovalRequestStatus,
                ResolvedApproval
  <1>4. ASSUME NEW decision \in {"APPROVED", "REJECTED"},
               DecideApproval(r, s, t, decision)
        PROVE  TypeOK'
    BY <1>4 DEF TypeOK, DecideApproval, ApprovalRequestStatus, ResolvedApproval
  <1>5. ASSUME NEW decision \in {"RETRY_APPROVED", "ABORTED"},
               DecideRepair(r, s, n, t, decision)
        PROVE  TypeOK'
    BY <1>5 DEF TypeOK, DecideRepair, RepairRequestStatus, ResolvedRepair
  <1>6. ASSUME NEW terminate \in BOOLEAN, ExpireRepairRead(r, s, n, t, terminate)
        PROVE  TypeOK'
    <2>1. [run |-> r, step |-> s, attempt |-> n, terminate |-> terminate]
            \in ExpiryTransaction
      BY <1>6 DEF ExpiryTransaction
    <2>2. expiring' \subseteq ExpiryTransaction
      BY <1>6, <2>1 DEF ExpireRepairRead, TypeOK
    <2> QED
      BY <1>6, <2>2 DEF TypeOK, ExpireRepairRead
  <1>7. CASE ExpireApproval(r, s, t)
    <2>1. step' \in [Runs -> [Steps -> PersistedRunStepStatus]]
      BY <1>7, TimedOutStepsType DEF TypeOK, ExpireApproval
    <2>2. approval' \in [Runs -> [Steps -> ApprovalRequestStatus]]
      BY <1>7 DEF TypeOK, ExpireApproval, ApprovalRequestStatus, ResolvedApproval
    <2>3. /\ status' \in [Runs -> {"ABSENT"} \cup WorkflowRunStatus]
          /\ cause' \in [Runs -> {"none"} \cup EngineCauses \cup ServerCauses]
          /\ lease' \in [Runs -> ClaimAttempts \cup {NoLease}]
          /\ leaseExpiresAt' \in [Runs -> Nat]
      BY <1>7 DEF TypeOK, ExpireApproval, EndRuns, Assign, WorkflowRunStatus,
                  TERMINAL_STATUSES, ServerCauses
    <2>4. alerts' \in [Runs -> Nat]
      BY <1>7, IncrementType DEF TypeOK, ExpireApproval
    <2> QED
      BY <1>7, <2>1, <2>2, <2>3, <2>4 DEF TypeOK, ExpireApproval
  <1> QED
    BY <1>1, <1>2, <1>3, <1>4, <1>5, <1>6, <1>7

(* The handlers that end one run keep the rows typed.                      *)
LEMMA TypeEnd ==
  ASSUME TypeOK, NEW r \in Runs, NEW t \in RequestTimes,
         \/ \E c \in ResultCauses, result \in [Steps -> TerminalEngineStepStatus] :
              Complete(r, t, c, result)
         \/ CompleteExpired(r)
         \/ CancelQueued(r)
         \/ CancelActive(r)
         \/ ExpireLease(r, t)
  PROVE  TypeOK'
  <1> USE DEF leaseVars, recordVars, approvalVars, repairVars, logVars, runVars,
              scheduleVars, envVars
  <1>1. ASSUME NEW c \in ResultCauses,
               NEW result \in [Steps -> TerminalEngineStepStatus],
               Complete(r, t, c, result)
        PROVE  TypeOK'
    <2> DEFINE st == persistedRunStatus[terminalStatusFor[c]]
    <2>1. c \in EngineCauses /\ st \in WorkflowRunStatus
      BY InputAssumption, PersistedType DEF WorkflowRunStatus
    <2>2. \A s \in Steps : persistedStepStatus[result[s]] \in PersistedRunStepStatus
      BY PersistedType DEF EngineStepStatus
    <2>3. result \in [Steps -> {"none"} \cup EngineStepStatus]
      BY DEF EngineStepStatus
    <2>4. step' \in [Runs -> [Steps -> PersistedRunStepStatus]]
      BY <1>1, <2>2 DEF TypeOK, Complete
    <2>5. stepEngine' \in [Runs -> [Steps -> {"none"} \cup EngineStepStatus]]
      BY <1>1, <2>3 DEF TypeOK, Complete
    <2>6. output' \in [Runs -> [Steps -> BOOLEAN]]
      BY <1>1 DEF TypeOK, Complete
    <2>7. evidence' \in [Runs -> Nat] /\ alerts' \in [Runs -> Nat]
      BY <1>1, IncrementType DEF TypeOK, Complete
    <2>8. /\ status' \in [Runs -> {"ABSENT"} \cup WorkflowRunStatus]
          /\ cause' \in [Runs -> {"none"} \cup EngineCauses \cup ServerCauses]
          /\ lease' \in [Runs -> ClaimAttempts \cup {NoLease}]
          /\ leaseExpiresAt' \in [Runs -> Nat]
      <3> HIDE DEF st
      <3>1. EndRuns({r}, st, c)
        BY <1>1 DEF Complete, st
      <3> QED
        BY <2>1, <3>1 DEF TypeOK, EndRuns, Assign
    <2>9. completed' \in [Runs -> BOOLEAN]
      BY <1>1 DEF TypeOK, Complete
    <2> QED
      BY <1>1, <2>4, <2>5, <2>6, <2>7, <2>8, <2>9 DEF TypeOK, Complete
  <1>2. CASE CompleteExpired(r)
    BY <1>2 DEF TypeOK, CompleteExpired
  <1>3. CASE CancelQueued(r)
    <2>1. step' \in [Runs -> [Steps -> PersistedRunStepStatus]]
      BY <1>3, StepUpdatesType DEF TypeOK, CancelQueued
    <2>2. approval' \in [Runs -> [Steps -> ApprovalRequestStatus]]
      BY <1>3, ResolveApprovalsType DEF CancelQueued, ResolvedApproval
    <2>3. repair' \in [Runs -> [Steps -> [AttemptNumbers -> RepairRequestStatus]]]
      BY <1>3, ResolveRepairsType DEF CancelQueued, ResolvedRepair
    <2>4. evidence' \in [Runs -> Nat]
      BY <1>3, IncrementType DEF TypeOK, CancelQueued
    <2> QED
      BY <1>3, <2>1, <2>2, <2>3, <2>4
         DEF TypeOK, CancelQueued, WorkflowRunStatus, TERMINAL_STATUSES,
             ServerCauses
  <1>4. CASE CancelActive(r)
    <2>1. approval' \in [Runs -> [Steps -> ApprovalRequestStatus]]
      BY <1>4, ResolveApprovalsType DEF CancelActive, ResolvedApproval
    <2>2. repair' \in [Runs -> [Steps -> [AttemptNumbers -> RepairRequestStatus]]]
      BY <1>4, ResolveRepairsType DEF CancelActive, ResolvedRepair
    <2> QED
      BY <1>4, <2>1, <2>2
         DEF TypeOK, CancelActive, WorkflowRunStatus, ACTIVE_STATUSES
  <1>5. CASE ExpireLease(r, t)
    <2>1. step' \in [Runs -> [Steps -> PersistedRunStepStatus]]
      BY <1>5, InterruptedStepsType DEF ExpireLease
    <2>2. approval' \in [Runs -> [Steps -> ApprovalRequestStatus]]
      BY <1>5, ResolveApprovalsType
         DEF ExpireLease, InterruptRequests, ResolvedApproval
    <2>3. repair' \in [Runs -> [Steps -> [AttemptNumbers -> RepairRequestStatus]]]
      BY <1>5, ResolveRepairsType
         DEF ExpireLease, InterruptRequests, ResolvedRepair
    <2>4. attempts' \in [Runs -> [Steps -> Seq(AttemptRow)]]
      BY <1>5, InterruptAttemptsType DEF ExpireLease, InterruptRequests
    <2>5. evidence' \in [Runs -> Nat] /\ alerts' \in [Runs -> Nat]
      BY <1>5, IncrementType DEF TypeOK, ExpireLease
    <2>6. /\ status' \in [Runs -> {"ABSENT"} \cup WorkflowRunStatus]
          /\ cause' \in [Runs -> {"none"} \cup EngineCauses \cup ServerCauses]
          /\ lease' \in [Runs -> ClaimAttempts \cup {NoLease}]
          /\ leaseExpiresAt' \in [Runs -> Nat]
      BY <1>5 DEF TypeOK, ExpireLease, EndRuns, Assign, WorkflowRunStatus,
                  TERMINAL_STATUSES, ServerCauses
    <2> QED
      BY <1>5, <2>1, <2>2, <2>3, <2>4, <2>5, <2>6
         DEF TypeOK, ExpireLease, InterruptRequests
  <1> QED
    BY <1>1, <1>2, <1>3, <1>4, <1>5

(* The end of an occurrence keeps the rows typed.                          *)
LEMMA TypeOccurrence ==
  ASSUME TypeOK, NEW r \in Runs, handleRunCompletion(r)
  PROVE  TypeOK'
  <1> USE DEF leaseVars, recordVars, approvalVars, repairVars, logVars, runVars,
              scheduleVars, envVars
  <1> DEFINE st == CASE status[r] = "SUCCEEDED" -> "SUCCEEDED"
                     [] status[r] = "INTERRUPTED" -> "CANCELLED"
                     [] OTHER -> "SKIPPED"
  <1>1. st \in OccurrenceStatus
    BY DEF OccurrenceStatus
  <1>2. occurrence' = [occurrence EXCEPT ![r] = st]
    BY Zenon DEF handleRunCompletion
  <1> HIDE DEF st
  <1>3. occurrence' \in [Runs -> OccurrenceStatus]
    BY <1>1, <1>2 DEF TypeOK
  <1>4. autoPaused' \subseteq Runs
    BY DEF TypeOK, handleRunCompletion
  <1> QED
    BY <1>3, <1>4 DEF TypeOK, handleRunCompletion

(* The write of a repair expiry keeps the rows typed.                      *)
LEMMA TypeExpireRepairWrite ==
  ASSUME TypeOK, NEW x \in expiring, ExpireRepairWrite(x)
  PROVE  TypeOK'
  <1> USE DEF leaseVars, recordVars, approvalVars, repairVars, logVars, runVars,
              scheduleVars, envVars
  <1>0. x.run \in Runs /\ x.step \in Steps /\ x.attempt \in AttemptNumbers
    BY DEF TypeOK, ExpiryTransaction
  <1>1. repair' \in [Runs -> [Steps -> [AttemptNumbers -> RepairRequestStatus]]]
    BY <1>0 DEF TypeOK, ExpireRepairWrite, RepairRequestStatus, ResolvedRepair
  <1>2. step' \in [Runs -> [Steps -> PersistedRunStepStatus]]
    BY <1>0, TimedOutStepsType DEF TypeOK, ExpireRepairWrite
  <1>3. /\ status' \in [Runs -> {"ABSENT"} \cup WorkflowRunStatus]
        /\ cause' \in [Runs -> {"none"} \cup EngineCauses \cup ServerCauses]
        /\ lease' \in [Runs -> ClaimAttempts \cup {NoLease}]
        /\ leaseExpiresAt' \in [Runs -> Nat]
    BY DEF TypeOK, ExpireRepairWrite, EndRuns, Assign, WorkflowRunStatus,
           TERMINAL_STATUSES, ServerCauses
  <1>4. alerts' \in [Runs -> Nat]
    BY IncrementType DEF TypeOK, ExpireRepairWrite
  <1>5. expiring' \subseteq ExpiryTransaction
    BY DEF TypeOK, ExpireRepairWrite
  <1> QED
    BY <1>1, <1>2, <1>3, <1>4, <1>5 DEF TypeOK, ExpireRepairWrite

(* Every step keeps the rows typed.                                        *)
LEMMA TypeNext == TypeOK /\ [Next]_vars => TypeOK'
  <1> SUFFICES ASSUME TypeOK, [Next]_vars
               PROVE  TypeOK'
    OBVIOUS
  <1>1. CASE Tick
    BY <1>1 DEF TypeOK, Tick, leaseVars, recordVars, approvalVars, repairVars,
                logVars, runVars, scheduleVars, envVars
  <1>2. CASE SupersedePolicy
    BY <1>2 DEF TypeOK, SupersedePolicy, leaseVars, recordVars, approvalVars,
                repairVars, logVars, runVars, scheduleVars
  <1>3. ASSUME NEW n \in Runners, SyncInventory(n)
        PROVE  TypeOK'
    BY SMTT(20), <1>3
       DEF TypeOK, SyncInventory, leaseVars, recordVars, approvalVars,
           repairVars, logVars, runVars, scheduleVars
  <1>4. ASSUME NEW n \in Runners, RevokeRunner(n)
        PROVE  TypeOK'
    BY <1>4, TypeRevoke
  <1>5. ASSUME NEW r \in Runs, CompleteExpired(r) \/ CancelQueued(r) \/ CancelActive(r)
        PROVE  TypeOK'
    <2>1. now \in RequestTimes
      BY TermAssumption DEF TypeOK, RequestTimes
    <2> QED
      BY <1>5, <2>1, TypeEnd
  <1>6. ASSUME NEW n \in Runners, NEW r \in Runs,
               CreateRun(r, n) \/ processOccurrence(r, n)
        PROVE  TypeOK'
    <2>1. now \in RequestTimes
      BY TermAssumption DEF TypeOK, RequestTimes
    <2> QED
      BY <1>6, <2>1, TypeDispatch
  <1>7. ASSUME NEW n \in Runners, NEW t \in RequestTimes, Dispatch(n, t)
        PROVE  TypeOK'
    BY <1>7, TypeDispatch DEF Dispatch
  <1>8. ASSUME NEW r \in Runs, NEW t \in RequestTimes, RunnerRequest(r, t)
        PROVE  TypeOK'
    <2>1. 1 \in AttemptNumbers
      BY DEF AttemptNumbers, MAX_TOTAL_ATTEMPTS
    <2>2. ASSUME NEW s \in Steps, NEW n \in AttemptNumbers,
                 ExpireRepairRead(r, s, n, t, FALSE)
          PROVE  TypeOK'
      BY <2>2, TypeRequests
    <2> QED
      BY <1>8, <2>1, <2>2, TypeLease, TypeProgress, TypeRequests, TypeEnd
         DEF RunnerRequest
  <1>9. ASSUME NEW r \in Runs, NEW t \in RequestTimes, UserRequest(r, t)
        PROVE  TypeOK'
    <2>1. 1 \in AttemptNumbers
      BY DEF AttemptNumbers, MAX_TOTAL_ATTEMPTS
    <2>2. ASSUME NEW s \in Steps, NEW n \in AttemptNumbers,
                 ExpireRepairRead(r, s, n, t, TRUE)
          PROVE  TypeOK'
      BY <2>2, TypeRequests
    <2> QED
      BY <1>9, <1>5, <2>1, <2>2, TypeRequests DEF UserRequest
  <1>10. ASSUME NEW r \in Runs, NEW t \in RequestTimes, Reconcile(r, t)
         PROVE  TypeOK'
    <2>1. 1 \in AttemptNumbers
      BY DEF AttemptNumbers, MAX_TOTAL_ATTEMPTS
    <2> QED
      BY <1>10, <2>1, TypeEnd, TypeRequests, TypeOccurrence DEF Reconcile
  <1>11. CASE UNCHANGED vars
    BY <1>11 DEF TypeOK, vars, leaseVars, recordVars, approvalVars, repairVars,
                 logVars, runVars, scheduleVars, envVars
  <1> QED
    BY <1>1, <1>2, <1>3, <1>4, <1>5, <1>6, <1>7, <1>8, <1>9, <1>10, <1>11,
       TypeExpireRepairWrite DEF Next

(* Every reachable ledger is well typed: no handler writes a value outside *)
(* its column's domain, whatever a lease-holding Runner sends.             *)
THEOREM TypeCorrect == Spec => []TypeOK
  BY TypeInit, TypeNext, PTL DEF Spec

-----------------------------------------------------------------------------
(* Safety                                                                  *)
(*                                                                         *)
(* What the invariants say of a run depends on a few columns of its row,   *)
(* and every transaction moves those columns in one of five ways: it keeps *)
(* them, moves between active statuses, ends the run, queues it or claims  *)
(* it. LedgerMoves says which transactions do which; the invariants and    *)
(* OutcomeFinal follow from the moves alone.                               *)

(* The columns move by none of the other ways.                             *)
Kept(r) ==
  /\ status'[r] = status[r] /\ cause'[r] = cause[r] /\ owner'[r] = owner[r]
  /\ claimId'[r] = claimId[r] /\ lease'[r] = lease[r]
  /\ alerts'[r] = alerts[r] /\ evidence'[r] = evidence[r]

Progressed(r) ==
  /\ status[r] \in ACTIVE_STATUSES /\ status'[r] \in ACTIVE_STATUSES
  /\ cause'[r] = cause[r] /\ owner'[r] = owner[r]
  /\ claimId'[r] = claimId[r] /\ lease'[r] = lease[r]
  /\ alerts'[r] = alerts[r] /\ evidence'[r] = evidence[r]

Ended(r) ==
  /\ status[r] \in ACTIVE_STATUSES \cup {"QUEUED"}
  /\ status'[r] \in TERMINAL_STATUSES
  /\ owner'[r] = owner[r] /\ claimId'[r] = claimId[r]
  /\ lease'[r] = NoLease
  /\ alerts'[r] = IF status'[r] \in NoteworthyStatuses THEN alerts[r] + 1
                                                        ELSE alerts[r]
  /\ \/ evidence'[r] = evidence[r] + 1
     \/ /\ evidence'[r] = evidence[r]
        /\ cause'[r] \in {"approval_expired", "repair_expired", "runner_revoked"}

Moved(r) == Kept(r) \/ Progressed(r) \/ Ended(r)

(* A transaction that hands out no run; nothing a revoked Runner owns is   *)
(* active after it.                                                        *)
RowsMove ==
  /\ \A r \in Runs : Moved(r)
  /\ revoked \subseteq revoked'
  /\ \A r \in Runs : owner[r] \in revoked' =>
       owner[r] \in revoked \/ status'[r] \notin ACTIVE_STATUSES

(* A run is queued.                                                        *)
RowQueued(r, n) ==
  /\ status[r] = "ABSENT"
  /\ status'[r] = "QUEUED" /\ owner'[r] = n
  /\ cause'[r] = cause[r] /\ claimId'[r] = claimId[r] /\ lease'[r] = lease[r]
  /\ alerts'[r] = alerts[r] /\ evidence'[r] = evidence[r]
  /\ \A x \in Runs \ {r} : Kept(x)
  /\ revoked' = revoked

(* A run is handed to its Runner, whose other active runs end.             *)
RowClaimed(r, n, a) ==
  /\ status[r] = "QUEUED" /\ owner[r] = n /\ n \notin revoked
  /\ \A x \in Runs : owner[x] = n => claimId[x] # a
  /\ a # NoLease
  /\ status'[r] = "CLAIMED" /\ cause'[r] = cause[r] /\ owner'[r] = n
  /\ claimId'[r] = a /\ lease'[r] = a
  /\ alerts'[r] = alerts[r] /\ evidence'[r] = evidence[r]
  /\ \A x \in Runs \ {r} : IF x \in ActiveOf(n) THEN Ended(x) ELSE Kept(x)
  /\ revoked' = revoked

LedgerMoves ==
  \/ RowsMove
  \/ \E r \in Runs, n \in Runners : RowQueued(r, n)
  \/ \E r \in Runs, n \in Runners, a \in ClaimAttempts : RowClaimed(r, n, a)

(* The inductive invariant: the fencing invariants need each other (a      *)
(* token is unique because a run is claimed once, a live lease is the last *)
(* claim's), and the counts of alerts and events need the statuses.        *)
LedgerInv ==
  /\ LeaseIffActive /\ LeaseIsClaim /\ QueuedNeverClaimed
  /\ OneActiveRun /\ TokenNamesOneRun /\ RevokedHoldsNothing
  /\ OneAlertPerBadEnd /\ EvidenceOfEnd

(* The empty ledger satisfies the invariant.                               *)
LEMMA LedgerInit == Init => LedgerInv
  BY NullAssumption
     DEF Init, LedgerInv, LeaseIffActive, LeaseIsClaim, QueuedNeverClaimed,
         OneActiveRun, TokenNamesOneRun, RevokedHoldsNothing, OneAlertPerBadEnd,
         EvidenceOfEnd, Terminal, ACTIVE_STATUSES, TERMINAL_STATUSES,
         NoteworthyStatuses

(* What OneAlertPerBadEnd says of a row with these columns.                *)
AlertsFit(st, count) == count = IF st \in NoteworthyStatuses THEN 1 ELSE 0

(* What EvidenceOfEnd says of a row with these columns.                    *)
EvidenceFits(st, c, count) ==
  /\ count \in 0..1
  /\ count = 1 => st \in TERMINAL_STATUSES
  /\ st \in TERMINAL_STATUSES /\ count = 0 =>
       c \in {"approval_expired", "repair_expired", "runner_revoked"}

(* The two invariants speak of each row on its own.                        *)
LEMMA CountsFit ==
  /\ OneAlertPerBadEnd <=> \A r \in Runs : AlertsFit(status[r], alerts[r])
  /\ EvidenceOfEnd <=> \A r \in Runs : EvidenceFits(status[r], cause[r], evidence[r])
  /\ OneAlertPerBadEnd' <=>
       \A r \in Runs : AlertsFit(status'[r], alerts'[r])
  /\ EvidenceOfEnd' <=>
       \A r \in Runs : EvidenceFits(status'[r], cause'[r], evidence'[r])
  BY DEF OneAlertPerBadEnd, EvidenceOfEnd, AlertsFit, EvidenceFits, Terminal

(* A moved row keeps its counts of alerts and terminal events.             *)
LEMMA MovedCounts ==
  ASSUME TypeOK, NEW r \in Runs, Moved(r),
         AlertsFit(status[r], alerts[r]),
         EvidenceFits(status[r], cause[r], evidence[r])
  PROVE  /\ AlertsFit(status'[r], alerts'[r])
         /\ EvidenceFits(status'[r], cause'[r], evidence'[r])
  <1>1. CASE Kept(r)
    BY <1>1 DEF Kept
  <1>2. CASE Progressed(r)
    BY <1>2 DEF Progressed, AlertsFit, EvidenceFits, ACTIVE_STATUSES,
                TERMINAL_STATUSES, NoteworthyStatuses
  <1>3. CASE Ended(r)
    <2>1. alerts[r] = 0 /\ evidence[r] = 0
      BY <1>3 DEF Ended, AlertsFit, EvidenceFits, ACTIVE_STATUSES,
                  TERMINAL_STATUSES, NoteworthyStatuses
    <2> QED
      BY <2>1, <1>3 DEF Ended, AlertsFit, EvidenceFits
  <1> QED
    BY <1>1, <1>2, <1>3 DEF Moved

(* Moves that hand out no run keep the invariant.                          *)
LEMMA RowsMoveKeep == TypeOK /\ LedgerInv /\ RowsMove => LedgerInv'
  <1> SUFFICES ASSUME TypeOK, LedgerInv, RowsMove PROVE LedgerInv'
    OBVIOUS
  <1>1. LeaseIffActive'
    BY DEF LedgerInv, RowsMove, Moved, Kept, Progressed, Ended,
           LeaseIffActive, ACTIVE_STATUSES,
           TERMINAL_STATUSES
  <1>2. LeaseIsClaim'
    BY DEF LedgerInv, RowsMove, Moved, Kept, Progressed, Ended,
           LeaseIsClaim
  <1>3. QueuedNeverClaimed'
    BY DEF LedgerInv, RowsMove, Moved, Kept, Progressed, Ended,
           QueuedNeverClaimed, ACTIVE_STATUSES, TERMINAL_STATUSES
  <1>4. OneActiveRun'
    BY DEF LedgerInv, RowsMove, Moved, Kept, Progressed, Ended,
           OneActiveRun, ACTIVE_STATUSES, TERMINAL_STATUSES
  <1>5. TokenNamesOneRun'
    BY DEF LedgerInv, RowsMove, Moved, Kept, Progressed, Ended,
           TokenNamesOneRun
  <1>6. RevokedHoldsNothing'
    BY DEF LedgerInv, RowsMove, Moved, Kept, Progressed, Ended,
           RevokedHoldsNothing, ACTIVE_STATUSES, TERMINAL_STATUSES
  <1>7. OneAlertPerBadEnd' /\ EvidenceOfEnd'
    <2>1. \A r \in Runs : Moved(r)
      BY DEF RowsMove
    <2> QED
      BY <2>1, MovedCounts, CountsFit DEF LedgerInv
  <1> QED
    BY <1>1, <1>2, <1>3, <1>4, <1>5, <1>6, <1>7 DEF LedgerInv

(* Queueing a run keeps the invariant.                                     *)
LEMMA RowQueuedKeeps ==
  ASSUME TypeOK, LedgerInv, NEW r \in Runs, NEW n \in Runners, RowQueued(r, n)
  PROVE  LedgerInv'
  <1> USE DEF RowQueued, Kept
  <1>1. LeaseIffActive'
    BY DEF LedgerInv, LeaseIffActive, ACTIVE_STATUSES
  <1>2. LeaseIsClaim'
    BY DEF LedgerInv, LeaseIsClaim
  <1>3. QueuedNeverClaimed'
    BY DEF LedgerInv, QueuedNeverClaimed
  <1>4. OneActiveRun'
    BY DEF LedgerInv, OneActiveRun, ACTIVE_STATUSES
  <1>5. TokenNamesOneRun'
    BY DEF LedgerInv, TokenNamesOneRun, QueuedNeverClaimed
  <1>6. RevokedHoldsNothing'
    BY DEF LedgerInv, RevokedHoldsNothing, ACTIVE_STATUSES
  <1>7. OneAlertPerBadEnd'
    BY DEF LedgerInv, OneAlertPerBadEnd, NoteworthyStatuses
  <1>8. EvidenceOfEnd'
    BY DEF LedgerInv, EvidenceOfEnd, Terminal, TERMINAL_STATUSES
  <1> QED
    BY <1>1, <1>2, <1>3, <1>4, <1>5, <1>6, <1>7, <1>8 DEF LedgerInv

(* Handing out a run keeps the invariant.                                  *)
LEMMA RowClaimedKeeps ==
  ASSUME TypeOK, LedgerInv, NEW r \in Runs, NEW n \in Runners,
         NEW a \in ClaimAttempts, RowClaimed(r, n, a)
  PROVE  LedgerInv'
  <1>1. LeaseIffActive'
    BY DEF LedgerInv, RowClaimed, ActiveOf, Kept, Ended,
           LeaseIffActive, ACTIVE_STATUSES,
           TERMINAL_STATUSES
  <1>2. LeaseIsClaim'
    BY DEF LedgerInv, RowClaimed, ActiveOf, Kept, Ended,
           LeaseIsClaim
  <1>3. QueuedNeverClaimed'
    BY DEF LedgerInv, RowClaimed, ActiveOf, Kept, Ended,
           QueuedNeverClaimed, ACTIVE_STATUSES, TERMINAL_STATUSES
  <1>4. OneActiveRun'
    BY DEF LedgerInv, RowClaimed, ActiveOf, Kept, Ended,
           OneActiveRun, ACTIVE_STATUSES, TERMINAL_STATUSES
  <1>5. TokenNamesOneRun'
    BY DEF LedgerInv, RowClaimed, ActiveOf, Kept, Ended,
           TokenNamesOneRun
  <1>6. RevokedHoldsNothing'
    BY DEF LedgerInv, RowClaimed, ActiveOf, Kept, Ended,
           RevokedHoldsNothing, ACTIVE_STATUSES, TERMINAL_STATUSES
  <1>7. OneAlertPerBadEnd' /\ EvidenceOfEnd'
    <2>1. \A x \in Runs \ {r} : Moved(x)
      BY DEF RowClaimed, Moved
    <2>2. /\ AlertsFit(status'[r], alerts'[r])
          /\ EvidenceFits(status'[r], cause'[r], evidence'[r])
      BY CountsFit
         DEF RowClaimed, LedgerInv, AlertsFit, EvidenceFits, TERMINAL_STATUSES,
             NoteworthyStatuses
    <2> QED
      BY <2>1, <2>2, MovedCounts, CountsFit DEF LedgerInv
  <1> QED
    BY <1>1, <1>2, <1>3, <1>4, <1>5, <1>6, <1>7 DEF LedgerInv

(* Ending runs that were active moves their rows.                          *)
LEMMA EndRunsMoves ==
  ASSUME TypeOK, NEW S, NEW st \in TERMINAL_STATUSES, NEW c,
         \A r \in S : r \in Runs /\ status[r] \in ACTIVE_STATUSES,
         EndRuns(S, st, c),
         owner' = owner, claimId' = claimId,
         alerts' = Increment(alerts, IF st \in NoteworthyStatuses THEN S ELSE {}),
         \/ evidence' = Increment(evidence, S)
         \/ /\ evidence' = evidence
            /\ c \in {"approval_expired", "repair_expired", "runner_revoked"}
  PROVE  \A r \in Runs : Moved(r)
  <1> SUFFICES ASSUME NEW r \in Runs PROVE Moved(r)
    OBVIOUS
  <1>1. CASE r \in S
    BY <1>1 DEF Moved, Ended, EndRuns, Assign, Increment
  <1>2. CASE r \notin S
    BY <1>2 DEF Moved, Kept, EndRuns, Assign, Increment, TypeOK
  <1> QED
    BY <1>1, <1>2

(* The columns no transaction below touches.                               *)
LEMMA QuietMoves ==
  ASSUME UNCHANGED <<status, cause, owner, claimId, lease, alerts, evidence,
                     revoked>>
  PROVE  RowsMove
  BY DEF RowsMove, Moved, Kept

(* Transactions that move a run between active statuses.                   *)
LEMMA ProgressMoves ==
  ASSUME TypeOK, NEW r \in Runs, NEW st \in ACTIVE_STATUSES,
         status[r] \in ACTIVE_STATUSES, status' = [status EXCEPT ![r] = st],
         UNCHANGED <<cause, owner, claimId, lease, alerts, evidence, revoked>>
  PROVE  RowsMove
  BY DEF RowsMove, Moved, Kept, Progressed, TypeOK

(* Creating and claiming a run.                                            *)
LEMMA CreateMoves ==
  ASSUME TypeOK, NEW n \in Runners, NEW r \in Runs, CreateRun(r, n)
  PROVE  RowQueued(r, n)
  BY DEF CreateRun, QueueRun, RowQueued, Kept, TypeOK, leaseVars, logVars

(* Dispatching an occurrence.                                              *)
LEMMA ProcessOccurrenceMoves ==
  ASSUME TypeOK, NEW n \in Runners, NEW r \in Runs,
         processOccurrence(r, n)
  PROVE  RowQueued(r, n)
  BY DEF processOccurrence, QueueRun, RowQueued, Kept, TypeOK, leaseVars, logVars

(* A claim hands out one run and interrupts the lapsed ones.               *)
LEMMA ClaimMoves ==
  ASSUME TypeOK, NEW n \in Runners, NEW r \in Runs, NEW t, NEW sent,
         NEW a \in ClaimAttempts, Claim(n, a, r, t, sent)
  PROVE  RowClaimed(r, n, a)
  <1> DEFINE lapsed == ActiveOf(n)
  <1>1. /\ status[r] = "QUEUED" /\ owner[r] = n /\ r \notin lapsed
    BY DEF Claim, QueuedFor, ActiveOf, ACTIVE_STATUSES
  <1>2. /\ n \notin revoked
        /\ \A x \in Runs : owner[x] = n => claimId[x] # a
    BY DEF Claim, FreshClaim
  <1>3. /\ status' = [Assign(status, lapsed, "INTERRUPTED") EXCEPT ![r] = "CLAIMED"]
        /\ lease' = [Assign(lease, lapsed, NoLease) EXCEPT ![r] = a]
    BY DEF Claim
  <1>4. /\ cause' = Assign(cause, lapsed, "lease_expired")
        /\ claimId' = [claimId EXCEPT ![r] = a]
        /\ evidence' = Increment(evidence, lapsed)
        /\ alerts' = Increment(alerts, lapsed)
        /\ owner' = owner /\ revoked' = revoked
    BY DEF Claim, envVars
  <1>5. ASSUME NEW x \in Runs \ {r}, x \in lapsed
        PROVE  Ended(x) /\ status'[x] \notin ACTIVE_STATUSES
    BY <1>3, <1>4, <1>5
       DEF Ended, ActiveOf, Assign, Increment, TypeOK, TERMINAL_STATUSES,
           NoteworthyStatuses, ACTIVE_STATUSES
  <1>6. ASSUME NEW x \in Runs \ {r}, x \notin lapsed
        PROVE  Kept(x) /\ (owner[x] = n => status'[x] \notin ACTIVE_STATUSES)
    BY <1>3, <1>4, <1>6 DEF Kept, ActiveOf, Assign, Increment, TypeOK
  <1>7. /\ status'[r] = "CLAIMED" /\ cause'[r] = cause[r] /\ owner'[r] = n
        /\ claimId'[r] = a /\ lease'[r] = a
        /\ alerts'[r] = alerts[r] /\ evidence'[r] = evidence[r]
    BY <1>1, <1>3, <1>4 DEF Assign, Increment, TypeOK
  <1> QED
    BY <1>1, <1>2, <1>4, <1>5, <1>6, <1>7, NullAssumption
       DEF RowClaimed, Moved

(* A claim that finds stale pins.                                          *)
LEMMA FailStalePinMoves ==
  ASSUME TypeOK, NEW n \in Runners, NEW r \in Runs, NEW t, NEW sent,
         NEW a \in ClaimAttempts, LeaseIffActive,
         FailStalePin(n, a, r, t, sent)
  PROVE  RowsMove
  <1> DEFINE lapsed == ActiveOf(n)
  <1>1. /\ status[r] = "QUEUED" /\ owner[r] = n /\ r \notin lapsed
        /\ lease[r] = NoLease
    BY DEF FailStalePin, QueuedFor, ActiveOf, ACTIVE_STATUSES, LeaseIffActive
  <1>2. /\ status' = [Assign(status, lapsed, "INTERRUPTED") EXCEPT ![r] = "FAILED"]
        /\ \A x \in Runs \ {r} : x \notin lapsed => cause'[x] = cause[x]
    BY <1>1 DEF FailStalePin, Assign, ActiveOf, TypeOK
  <1>3. /\ lease' = Assign(lease, lapsed, NoLease)
        /\ evidence' = Increment(evidence, lapsed \cup {r})
        /\ alerts' = Increment(alerts, lapsed \cup {r})
        /\ owner' = owner /\ claimId' = claimId /\ revoked' = revoked
    BY DEF FailStalePin, envVars
  <1>4. Ended(r)
    BY <1>1, <1>2, <1>3
       DEF Ended, Assign, Increment, TERMINAL_STATUSES, NoteworthyStatuses
  <1>5. ASSUME NEW x \in Runs \ {r}, x \in lapsed PROVE Ended(x)
    BY <1>2, <1>3, <1>5
       DEF Ended, ActiveOf, Assign, Increment, TERMINAL_STATUSES, NoteworthyStatuses
  <1>6. ASSUME NEW x \in Runs \ {r}, x \notin lapsed PROVE Kept(x)
    BY <1>2, <1>3, <1>6 DEF Kept, Assign, Increment, TypeOK
  <1> QED
    BY <1>3, <1>4, <1>5, <1>6 DEF RowsMove, Moved

(* A Runner's requests move rows, of an active run only to another active  *)
(* status or to its end.                                                   *)
LEMMA RunnerRequestMoves ==
  ASSUME TypeOK, NEW r \in Runs, NEW t, RunnerRequest(r, t)
  PROVE  RowsMove
  <1> USE DEF leaseVars, recordVars, approvalVars, repairVars, logVars, runVars,
              scheduleVars, envVars
  <1>1. ASSUME RenewLease(r, t) PROVE RowsMove
    BY <1>1, QuietMoves DEF RenewLease
  <1>2. ASSUME NEW next, IngestRunStatus(r, t, next) PROVE RowsMove
    <2> DEFINE st == CASE next = "running" /\ status[r] \in
                            {"CLAIMED", "WAITING_FOR_APPROVAL",
                             "WAITING_FOR_REPAIR"} -> "RUNNING"
                       [] next = "waiting_for_approval" /\ status[r] = "RUNNING" ->
                            "WAITING_FOR_APPROVAL"
                       [] next = "waiting_for_repair" /\ status[r] = "RUNNING" ->
                            "WAITING_FOR_REPAIR"
                       [] OTHER -> status[r]
    <2>1. status[r] \in ACTIVE_STATUSES
      BY <1>2 DEF IngestRunStatus, requireLease
    <2>2. st \in ACTIVE_STATUSES
      BY <2>1 DEF ACTIVE_STATUSES
    <2>3. status' = [status EXCEPT ![r] = st]
      BY <1>2, Zenon DEF IngestRunStatus
    <2>4. UNCHANGED <<cause, owner, claimId, lease, alerts, evidence, revoked>>
      BY <1>2 DEF IngestRunStatus
    <2> HIDE DEF st
    <2> QED
      BY <2>1, <2>2, <2>3, <2>4, ProgressMoves
  <1>3. ASSUME NEW s, NEW next, IngestStepStatus(r, s, t, next) PROVE RowsMove
    BY <1>3, QuietMoves DEF IngestStepStatus
  <1>4. ASSUME NEW s, IngestOutput(r, s, t) PROVE RowsMove
    BY <1>4, QuietMoves DEF IngestOutput
  <1>5. ASSUME NEW s, NEW trigger, IngestAttemptStarted(r, s, t, trigger)
        PROVE  RowsMove
    BY <1>5, QuietMoves DEF IngestAttemptStarted
  <1>6. ASSUME NEW s, NEW n, NEW st, NEW code, NEW effect,
               IngestAttemptFinished(r, s, t, n, st, code, effect)
        PROVE  RowsMove
    BY <1>6, QuietMoves DEF IngestAttemptFinished
  <1>7. ASSUME NEW s, NEW due, CreateApproval(r, s, t, due) PROVE RowsMove
    <2>1. status[r] \in ACTIVE_STATUSES /\ "WAITING_FOR_APPROVAL" \in ACTIVE_STATUSES
      BY <1>7 DEF CreateApproval, ACTIVE_STATUSES
    <2> QED
      BY <1>7, <2>1, ProgressMoves DEF CreateApproval
  <1>8. ASSUME NEW s, NEW due, CreateRepair(r, s, t, due) PROVE RowsMove
    <2>1. status[r] \in ACTIVE_STATUSES /\ "WAITING_FOR_REPAIR" \in ACTIVE_STATUSES
      BY <1>8 DEF CreateRepair, ACTIVE_STATUSES
    <2> QED
      BY <1>8, <2>1, ProgressMoves DEF CreateRepair
  <1>9. ASSUME NEW s, PollExpiredApproval(r, s, t) PROVE RowsMove
    BY <1>9, QuietMoves DEF PollExpiredApproval
  <1>10. ASSUME NEW s, NEW n, ExpireRepairRead(r, s, n, t, FALSE) PROVE RowsMove
    BY <1>10, QuietMoves DEF ExpireRepairRead
  <1>11. ASSUME NEW c \in ResultCauses, NEW result, Complete(r, t, c, result)
         PROVE  RowsMove
    <2> DEFINE st == persistedRunStatus[terminalStatusFor[c]]
    <2>1. st \in TERMINAL_STATUSES
      BY PersistedType, InputAssumption
    <2>2. status[r] \in ACTIVE_STATUSES
      BY <1>11 DEF Complete, requireLease
    <2>3. /\ EndRuns({r}, st, c)
          /\ evidence' = Increment(evidence, {r})
          /\ alerts' = Increment(alerts, IF st \in NoteworthyStatuses THEN {r} ELSE {})
          /\ owner' = owner /\ claimId' = claimId /\ revoked' = revoked
      BY <1>11 DEF Complete
    <2> HIDE DEF st
    <2>5. \A x \in Runs : Moved(x)
      BY <2>1, <2>2, <2>3, EndRunsMoves
    <2> QED
      BY <2>3, <2>5 DEF RowsMove
  <1> QED
    BY <1>1, <1>2, <1>3, <1>4, <1>5, <1>6, <1>7, <1>8, <1>9, <1>10, <1>11
       DEF RunnerRequest

(* So do users' requests.                                                  *)
LEMMA UserRequestMoves ==
  ASSUME TypeOK, LeaseIffActive, NEW r \in Runs, NEW t,
         UserRequest(r, t)
  PROVE  RowsMove
  <1> USE DEF leaseVars, recordVars, approvalVars, repairVars, logVars, runVars,
              scheduleVars, envVars
  <1>1. CASE CancelQueued(r)
    <2>1. status[r] = "QUEUED" /\ lease[r] = NoLease
      BY <1>1 DEF CancelQueued, LeaseIffActive, ACTIVE_STATUSES
    <2>2. /\ status' = [status EXCEPT ![r] = "CANCELLED"]
          /\ cause' = [cause EXCEPT ![r] = "run_cancelled"]
          /\ evidence' = Increment(evidence, {r})
          /\ UNCHANGED <<owner, claimId, lease, alerts, revoked>>
      BY <1>1 DEF CancelQueued
    <2>3. Ended(r)
      BY <2>1, <2>2 DEF Ended, TERMINAL_STATUSES, NoteworthyStatuses, Increment,
                        TypeOK
    <2>4. \A x \in Runs \ {r} : Kept(x)
      BY <2>2 DEF Kept, Increment, TypeOK
    <2> QED
      BY <2>2, <2>3, <2>4 DEF RowsMove, Moved
  <1>2. CASE CancelActive(r)
    <2>1. "CANCEL_REQUESTED" \in ACTIVE_STATUSES
      BY DEF ACTIVE_STATUSES
    <2> QED
      BY <1>2, <2>1, ProgressMoves DEF CancelActive
  <1>3. ASSUME NEW s, NEW decision, DecideApproval(r, s, t, decision)
        PROVE  RowsMove
    BY <1>3, QuietMoves DEF DecideApproval
  <1>4. ASSUME NEW s, NEW n, NEW decision, DecideRepair(r, s, n, t, decision)
        PROVE  RowsMove
    BY <1>4, QuietMoves DEF DecideRepair
  <1>5. ASSUME NEW s, NEW n, ExpireRepairRead(r, s, n, t, TRUE) PROVE RowsMove
    BY <1>5, QuietMoves DEF ExpireRepairRead
  <1> QED
    BY <1>1, <1>2, <1>3, <1>4, <1>5 DEF UserRequest

(* Lease and request expiry, and revocation, end active runs.              *)
LEMMA ReconcileMoves ==
  ASSUME TypeOK, NEW r \in Runs, NEW t, Reconcile(r, t)
  PROVE  RowsMove
  <1> USE DEF leaseVars, recordVars, approvalVars, repairVars, logVars, runVars,
              scheduleVars, envVars
  <1>0. /\ {"TIMED_OUT", "INTERRUPTED"} \subseteq TERMINAL_STATUSES
        /\ {"TIMED_OUT", "INTERRUPTED"} \subseteq NoteworthyStatuses
    BY DEF TERMINAL_STATUSES, NoteworthyStatuses
  <1>1. CASE ExpireLease(r, t)
    <2>1. \A x \in {r} : x \in Runs /\ status[x] \in ACTIVE_STATUSES
      BY <1>1 DEF ExpireLease, LeaseLapsed
    <2>2. /\ EndRuns({r}, "INTERRUPTED", "lease_expired")
          /\ evidence' = Increment(evidence, {r})
          /\ alerts' = Increment(alerts, {r})
          /\ owner' = owner /\ claimId' = claimId /\ revoked' = revoked
      BY <1>1 DEF ExpireLease
    <2>3. \A x \in Runs : Moved(x)
      BY <1>0, <2>1, <2>2, EndRunsMoves
    <2> QED
      BY <2>2, <2>3 DEF RowsMove
  <1>2. ASSUME NEW s, ExpireApproval(r, s, t) PROVE RowsMove
    <2> DEFINE waiting == {x \in {r} : status[x] = "WAITING_FOR_APPROVAL"}
    <2>1. \A x \in waiting : x \in Runs /\ status[x] \in ACTIVE_STATUSES
      BY DEF ACTIVE_STATUSES
    <2>2. /\ EndRuns(waiting, "TIMED_OUT", "approval_expired")
          /\ alerts' = Increment(alerts, waiting)
          /\ evidence' = evidence
          /\ owner' = owner /\ claimId' = claimId /\ revoked' = revoked
      BY <1>2 DEF ExpireApproval
    <2> HIDE DEF waiting
    <2>3. \A x \in Runs : Moved(x)
      BY <1>0, <2>1, <2>2, EndRunsMoves
    <2> QED
      BY <2>2, <2>3 DEF RowsMove
  <1>3. CASE handleRunCompletion(r)
    BY <1>3, QuietMoves DEF handleRunCompletion
  <1> QED
    BY <1>1, <1>2, <1>3 DEF Reconcile

(* The late write of a repair's expiry can end the run it waits for.       *)
LEMMA ExpireRepairWriteMoves ==
  ASSUME TypeOK, NEW x \in expiring, ExpireRepairWrite(x)
  PROVE  RowsMove
  <1> USE DEF leaseVars, recordVars, approvalVars, repairVars, logVars, runVars,
              scheduleVars, envVars
  <1> DEFINE waiting ==
        {y \in {x.run} : x.terminate /\ status[y] = "WAITING_FOR_REPAIR"}
  <1>1. x.run \in Runs
    BY DEF TypeOK, ExpiryTransaction
  <1>2. \A y \in waiting : y \in Runs /\ status[y] \in ACTIVE_STATUSES
    BY <1>1 DEF ACTIVE_STATUSES
  <1>3. /\ EndRuns(waiting, "TIMED_OUT", "repair_expired")
        /\ alerts' = Increment(alerts, waiting)
        /\ evidence' = evidence
        /\ owner' = owner /\ claimId' = claimId /\ revoked' = revoked
    BY DEF ExpireRepairWrite
  <1> HIDE DEF waiting
  <1>4. "TIMED_OUT" \in TERMINAL_STATUSES /\ "TIMED_OUT" \in NoteworthyStatuses
    BY DEF TERMINAL_STATUSES, NoteworthyStatuses
  <1>5. \A y \in Runs : Moved(y)
    BY <1>2, <1>3, <1>4, EndRunsMoves
  <1> QED
    BY <1>3, <1>5 DEF RowsMove

(* Revocation ends the Runner's active runs.                               *)
LEMMA RevokeMoves ==
  ASSUME TypeOK, NEW n \in Runners, RevokeRunner(n)
  PROVE  RowsMove
  <1> USE DEF leaseVars, recordVars, approvalVars, repairVars, logVars, runVars,
              scheduleVars, envVars
  <1>1. \A r \in ActiveOf(n) : r \in Runs /\ status[r] \in ACTIVE_STATUSES
    BY DEF ActiveOf
  <1>2. /\ EndRuns(ActiveOf(n), "INTERRUPTED", "runner_revoked")
        /\ alerts' = Increment(alerts, ActiveOf(n))
        /\ evidence' = evidence
        /\ owner' = owner /\ claimId' = claimId /\ revoked' = revoked \cup {n}
    BY DEF RevokeRunner
  <1>3. "INTERRUPTED" \in TERMINAL_STATUSES /\ "INTERRUPTED" \in NoteworthyStatuses
    BY DEF TERMINAL_STATUSES, NoteworthyStatuses
  <1>4. \A r \in Runs : Moved(r)
    BY <1>1, <1>2, <1>3, EndRunsMoves
  <1>5. \A r \in Runs : owner[r] = n => status'[r] \notin ACTIVE_STATUSES
    BY <1>2 DEF EndRuns, Assign, ActiveOf, ACTIVE_STATUSES
  <1> QED
    BY <1>2, <1>4, <1>5 DEF RowsMove

(* Every step of the ledger is one of the moves.                           *)
LEMMA NextMoves ==
  TypeOK /\ LeaseIffActive /\ [Next]_vars => LedgerMoves
  <1> SUFFICES ASSUME TypeOK, LeaseIffActive, [Next]_vars
               PROVE  LedgerMoves
    OBVIOUS
  <1> USE DEF leaseVars, recordVars, approvalVars, repairVars, logVars, runVars,
              scheduleVars, envVars
  <1>1. CASE Tick \/ SupersedePolicy \/ \E n \in Runners : SyncInventory(n)
    BY <1>1, QuietMoves DEF Tick, SupersedePolicy, SyncInventory, LedgerMoves
  <1>2. CASE \E n \in Runners : RevokeRunner(n)
    BY <1>2, RevokeMoves DEF LedgerMoves
  <1>3. CASE \E n \in Runners, r \in Runs : CreateRun(r, n)
    BY <1>3, CreateMoves DEF LedgerMoves
  <1>9. CASE \E n \in Runners, r \in Runs : processOccurrence(r, n)
    BY <1>9, ProcessOccurrenceMoves DEF LedgerMoves
  <1>4. CASE \E n \in Runners, t \in RequestTimes : Dispatch(n, t)
    BY <1>4, ClaimMoves, FailStalePinMoves DEF Dispatch, LedgerMoves
  <1>5. CASE \E r \in Runs : CompleteExpired(r)
    BY <1>5, QuietMoves DEF CompleteExpired, LedgerMoves
  <1>6. CASE \E r \in Runs, t \in RequestTimes :
               RunnerRequest(r, t) \/ UserRequest(r, t) \/ Reconcile(r, t)
    BY <1>6, RunnerRequestMoves, UserRequestMoves, ReconcileMoves DEF LedgerMoves
  <1>7. CASE \E x \in expiring : ExpireRepairWrite(x)
    BY <1>7, ExpireRepairWriteMoves DEF LedgerMoves
  <1>8. CASE UNCHANGED vars
    BY <1>8, QuietMoves DEF vars, LedgerMoves
  <1> QED
    BY <1>1, <1>2, <1>3, <1>4, <1>5, <1>6, <1>7, <1>8, <1>9 DEF Next

(* A lease fences its run: runs hold a lease exactly while they are        *)
(* active, a Runner has at most one active run and a revoked one none, a   *)
(* lease token stands for one run for ever, a run is handed out once, and  *)
(* its bad end is alerted once and recorded at most once.                  *)
THEOREM LedgerSafe == Spec => []LedgerInv
  <1>1. TypeOK /\ LedgerInv /\ [Next]_vars => LedgerInv'
    <2> SUFFICES ASSUME TypeOK, LedgerInv, [Next]_vars PROVE LedgerInv'
      OBVIOUS
    <2>1. LedgerMoves
      BY NextMoves DEF LedgerInv
    <2> QED
      BY <2>1, RowsMoveKeep, RowQueuedKeeps, RowClaimedKeeps DEF LedgerMoves
  <1> QED
    BY <1>1, LedgerInit, TypeCorrect, PTL DEF Spec

(* A run row carries a lease token exactly while the run is active.        *)
THEOREM LeaseFences == Spec => []LeaseIffActive
  <1>1. LedgerInv => LeaseIffActive
    BY DEF LedgerInv
  <1> QED
    BY <1>1, LedgerSafe, PTL

(* A claim attempt id answered with a run is never answered with another.  *)
THEOREM TokensNameOneRun == Spec => []TokenNamesOneRun
  <1>1. LedgerInv => TokenNamesOneRun
    BY DEF LedgerInv
  <1> QED
    BY <1>1, LedgerSafe, PTL

(* A Runner never has two active runs.                                     *)
THEOREM OneRunAtATime == Spec => []OneActiveRun
  <1>1. LedgerInv => OneActiveRun
    BY DEF LedgerInv
  <1> QED
    BY <1>1, LedgerSafe, PTL

(* A run that was claimed is never in the queue again.                     *)
THEOREM HandedOutOnce == Spec => []QueuedNeverClaimed
  <1>1. LedgerInv => QueuedNeverClaimed
    BY DEF LedgerInv
  <1> QED
    BY <1>1, LedgerSafe, PTL

(* A revoked Runner has no active run.                                     *)
THEOREM RevocationFences == Spec => []RevokedHoldsNothing
  <1>1. LedgerInv => RevokedHoldsNothing
    BY DEF LedgerInv
  <1> QED
    BY <1>1, LedgerSafe, PTL

(* Every bad end raises exactly one alert and nothing else raises any.     *)
THEOREM AlertedOnce == Spec => []OneAlertPerBadEnd
  <1>1. LedgerInv => OneAlertPerBadEnd
    BY DEF LedgerInv
  <1> QED
    BY <1>1, LedgerSafe, PTL

(* No run's end is recorded too early or twice, and only three causes      *)
(* leave no record.                                                        *)
THEOREM EndsAreRecorded == Spec => []EvidenceOfEnd
  <1>1. LedgerInv => EvidenceOfEnd
    BY DEF LedgerInv
  <1> QED
    BY <1>1, LedgerSafe, PTL

(* The lease fences the queue: all five parts of ClaimsFenced, for every   *)
(* number of runs, Runners, steps and claims.                              *)
THEOREM LedgerFenced == Spec => []ClaimsFenced
  BY LeaseFences, OneRunAtATime, TokensNameOneRun, HandedOutOnce,
     RevocationFences, PTL DEF ClaimsFenced

(* Every end is alerted as often as it is bad and recorded at most once.   *)
THEOREM EndsTold == Spec => []EndsRecorded
  BY AlertedOnce, EndsAreRecorded, PTL DEF EndsRecorded

(* Seen as a phase, an active row is held and a terminal one has ended.    *)
LEMMA PhaseValues ==
  /\ Phase("ABSENT") = "absent" /\ Phase("QUEUED") = "queued"
  /\ \A st \in ACTIVE_STATUSES : Phase(st) = "held"
  /\ \A st \in TERMINAL_STATUSES : Phase(st) = "ended"
  BY DEF Phase, ACTIVE_STATUSES, TERMINAL_STATUSES

(* A moved row is in the phase it was in, or was open and has ended.       *)
LEMMA MovedPhase ==
  ASSUME TypeOK, NEW r \in Runs, Moved(r)
  PROVE  /\ owner'[r] = owner[r] /\ claimId'[r] = claimId[r]
         /\ \/ Phase(status'[r]) = Phase(status[r])
            \/ /\ Phase(status[r]) \in {"queued", "held"}
               /\ Phase(status'[r]) = "ended"
  BY PhaseValues DEF Moved, Kept, Progressed, Ended

(* A transaction that hands out no run ends runs and bars Runners.         *)
LEMMA RowsMoveEnds ==
  ASSUME TypeOK, TypeOK', RowsMove
  PROVE  Lifecycle!Next
  <1> DEFINE S == {r \in Runs : Phase(status'[r]) # Phase(status[r])}
             bar == revoked' \ revoked
  <1>1. \A r \in Runs :
          /\ owner'[r] = owner[r] /\ claimId'[r] = claimId[r]
          /\ r \in S => /\ Phase(status[r]) \in {"queued", "held"}
                       /\ Phase(status'[r]) = "ended"
    BY MovedPhase DEF RowsMove
  <1>2. owner' = owner /\ claimId' = claimId
    BY <1>1 DEF TypeOK
  <1>3. \A n \in bar : Lifecycle!HeldBy(n) \subseteq S
    <2> SUFFICES ASSUME NEW r \in Runs, Phase(status[r]) = "held",
                        owner[r] \in revoked', owner[r] \notin revoked
                 PROVE  r \in S
      BY DEF Lifecycle!HeldBy
    <2>1. status'[r] \notin ACTIVE_STATUSES
      BY DEF RowsMove
    <2> QED
      BY <2>1 DEF Phase
  <1>4. [r \in Runs |-> Phase(status[r])]' =
          [r \in Runs |-> IF r \in S THEN "ended"
                         ELSE [x \in Runs |-> Phase(status[x])][r]]
    BY <1>1
  <1>5. revoked' = revoked \cup bar /\ bar \in SUBSET Runners /\ S \in SUBSET Runs
    BY DEF RowsMove, TypeOK
  <1>6. Lifecycle!End(S, bar)
    BY <1>1, <1>2, <1>3, <1>4, <1>5 DEF Lifecycle!End
  <1> QED
    BY <1>5, <1>6 DEF Lifecycle!Next

(* A claim is a hand-out.                                                  *)
LEMMA RowClaimedHandsOut ==
  ASSUME TypeOK, TypeOK', NEW r \in Runs, NEW n \in Runners,
         NEW a \in ClaimAttempts, RowClaimed(r, n, a)
  PROVE  Lifecycle!Next
  <1> DEFINE phase == [x \in Runs |-> Phase(status[x])]
  <1>1. \A x \in Runs : x \in Lifecycle!HeldBy(n) <=> x \in ActiveOf(n)
    <2>1. \A x \in Runs : Phase(status[x]) = "held" <=> status[x] \in ACTIVE_STATUSES
      BY PhaseValues DEF Phase
    <2> QED
      BY <2>1 DEF Lifecycle!HeldBy, ActiveOf
  <1>2. \A x \in Runs \ {r} :
          /\ owner'[x] = owner[x] /\ claimId'[x] = claimId[x]
          /\ Phase(status'[x]) = IF x \in ActiveOf(n) THEN "ended"
                                                     ELSE Phase(status[x])
    BY PhaseValues DEF RowClaimed, Kept, Ended
  <1>3. Phase(status[r]) = "queued" /\ Phase(status'[r]) = "held"
    BY PhaseValues DEF RowClaimed, ACTIVE_STATUSES
  <1>4. phase' = [x \in Runs |-> IF x = r THEN "held"
                               ELSE IF x \in Lifecycle!HeldBy(n) THEN "ended"
                               ELSE phase[x]]
    BY <1>1, <1>2, <1>3
  <1>5. owner' = owner /\ claimId' = [claimId EXCEPT ![r] = a]
    BY SMTT(20), <1>2 DEF RowClaimed, TypeOK
  <1>6. Lifecycle!HandOut(r, n, a)
    BY <1>3, <1>4, <1>5 DEF Lifecycle!HandOut, RowClaimed
  <1> QED
    BY <1>6 DEF Lifecycle!Next

(* A created row is a submitted run.                                       *)
LEMMA RowQueuedSubmits ==
  ASSUME TypeOK, TypeOK', NEW r \in Runs, NEW n \in Runners, RowQueued(r, n)
  PROVE  Lifecycle!Next
  <1> DEFINE phase == [x \in Runs |-> Phase(status[x])]
  <1>1. \A x \in Runs \ {r} :
          /\ owner'[x] = owner[x] /\ claimId'[x] = claimId[x]
          /\ status'[x] = status[x]
    BY DEF RowQueued, Kept
  <1>2. Phase(status[r]) = "absent" /\ Phase(status'[r]) = "queued"
    BY PhaseValues DEF RowQueued
  <1>3. phase' = [phase EXCEPT ![r] = "queued"]
    BY <1>1, <1>2
  <1>4. owner' = [owner EXCEPT ![r] = n] /\ claimId' = claimId
    BY SMTT(20), <1>1 DEF RowQueued, TypeOK
  <1>5. Lifecycle!Submit(r, n)
    BY <1>2, <1>3, <1>4 DEF Lifecycle!Submit, RowQueued
  <1> QED
    BY <1>5 DEF Lifecycle!Next

(* The ledger implements the abstract lifecycle, for any numbers of runs,  *)
(* Runners and claims: every transaction is a submission, a hand-out, an   *)
(* end of runs or invisible.                                               *)
THEOREM LedgerRefinesLifecycle == Spec => ImplementsLifecycle
  <1>1. Init => Lifecycle!Init
    BY PhaseValues DEF Init, Lifecycle!Init
  <1>2. /\ TypeOK /\ TypeOK' /\ LedgerInv /\ [Next]_vars
        => [Lifecycle!Next]_Lifecycle!vars
    <2> SUFFICES ASSUME TypeOK, TypeOK', LedgerInv, [Next]_vars
                 PROVE  Lifecycle!Next
      OBVIOUS
    <2>1. LedgerMoves
      BY NextMoves DEF LedgerInv
    <2> QED
      BY <2>1, RowsMoveEnds, RowQueuedSubmits, RowClaimedHandsOut DEF LedgerMoves
  <1> QED
    BY <1>1, <1>2, TypeCorrect, LedgerSafe, PTL
       DEF Spec, ImplementsLifecycle, Lifecycle!Spec

(* Outputs are written only for active runs.                               *)
LEMMA OutputOfActive ==
  ASSUME TypeOK, [Next]_vars, NEW r \in Runs, status[r] \notin ACTIVE_STATUSES
  PROVE  output'[r] = output[r]
  <1> USE DEF leaseVars, recordVars, approvalVars, repairVars, logVars, runVars,
              scheduleVars, envVars
  <1>1. ASSUME NEW x \in Runs, NEW t, RunnerRequest(x, t)
        PROVE  output'[r] = output[r]
    <2>1. ASSUME NEW s \in Steps, IngestOutput(x, s, t)
          PROVE  output'[r] = output[r]
      BY <2>1 DEF IngestOutput, requireLease, TypeOK
    <2>2. ASSUME NEW c, NEW result, Complete(x, t, c, result)
          PROVE  output'[r] = output[r]
      BY <2>2 DEF Complete, requireLease, TypeOK
    <2>3. CASE RenewLease(x, t) \/ \E next \in Reports : IngestRunStatus(x, t, next)
      BY <2>3 DEF RenewLease, IngestRunStatus
    <2>4. ASSUME NEW s \in Steps, NEW next, IngestStepStatus(x, s, t, next)
          PROVE  output'[r] = output[r]
      BY <2>4 DEF IngestStepStatus
    <2>5. ASSUME NEW s \in Steps, NEW n, NEW st, NEW code, NEW effect,
                 IngestAttemptFinished(x, s, t, n, st, code, effect)
          PROVE  output'[r] = output[r]
      BY <2>5 DEF IngestAttemptFinished
    <2>6. ASSUME NEW s \in Steps, NEW trigger, IngestAttemptStarted(x, s, t, trigger)
          PROVE  output'[r] = output[r]
      BY <2>6 DEF IngestAttemptStarted
    <2>7. ASSUME NEW s \in Steps, NEW due,
                 CreateApproval(x, s, t, due) \/ CreateRepair(x, s, t, due)
          PROVE  output'[r] = output[r]
      BY <2>7 DEF CreateApproval, CreateRepair
    <2>8. ASSUME NEW s \in Steps, NEW n,
                 \/ PollExpiredApproval(x, s, t)
                 \/ ExpireRepairRead(x, s, n, t, FALSE)
          PROVE  output'[r] = output[r]
      BY <2>8 DEF PollExpiredApproval, ExpireRepairRead
    <2> QED
      BY <1>1, <2>1, <2>2, <2>3, <2>4, <2>5, <2>6, <2>7, <2>8 DEF RunnerRequest
  <1>2. ASSUME NEW x \in Runs, NEW t, UserRequest(x, t)
        PROVE  output'[r] = output[r]
    BY <1>2 DEF UserRequest, CancelQueued, CancelActive, DecideApproval,
                DecideRepair, ExpireRepairRead
  <1>3. ASSUME NEW x \in Runs, NEW t, Reconcile(x, t)
        PROVE  output'[r] = output[r]
    BY <1>3 DEF Reconcile, ExpireLease, ExpireApproval, handleRunCompletion
  <1>4. ASSUME NEW n \in Runners, NEW t, Dispatch(n, t)
        PROVE  output'[r] = output[r]
    BY <1>4 DEF Dispatch, Claim, FailStalePin
  <1>5. CASE UNCHANGED vars
    BY <1>5 DEF vars
  <1> QED
    BY ZenonT(60), <1>1, <1>2, <1>3, <1>4, <1>5
       DEF Next, Tick, SupersedePolicy, SyncInventory, RevokeRunner, CreateRun,
           processOccurrence, QueueRun, CompleteExpired, ExpireRepairWrite

(* The outcome of an ended run is final: none of its status, cause,        *)
(* outputs and alert changes whatever request, expiry, revocation or close *)
(* of its occurrence is still on its way.                                  *)
THEOREM OutcomeIsFinal == Spec => OutcomeFinal
  <1>1. TypeOK /\ LedgerInv /\ [Next]_vars =>
          \A r \in Runs : Terminal(r) =>
            /\ status'[r] = status[r] /\ cause'[r] = cause[r]
            /\ output'[r] = output[r] /\ alerts'[r] = alerts[r]
    <2> SUFFICES ASSUME TypeOK, LedgerInv, [Next]_vars,
                        NEW r \in Runs, Terminal(r)
                 PROVE  /\ status'[r] = status[r] /\ cause'[r] = cause[r]
                        /\ output'[r] = output[r] /\ alerts'[r] = alerts[r]
      OBVIOUS
    <2>1. status[r] \notin ACTIVE_STATUSES \cup {"QUEUED", "ABSENT"}
      BY DEF Terminal, TERMINAL_STATUSES, ACTIVE_STATUSES
    <2>2. LedgerMoves
      BY NextMoves DEF LedgerInv
    <2>3. Kept(r)
      BY <2>1, <2>2
         DEF LedgerMoves, RowsMove, RowQueued, RowClaimed, Moved, Progressed, Ended
    <2> QED
      BY <2>1, <2>3, OutputOfActive DEF Kept
  <1> QED
    BY <1>1, TypeCorrect, LedgerSafe, PTL DEF Spec, OutcomeFinal

=============================================================================
