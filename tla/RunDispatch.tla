----------------------------- MODULE RunDispatch -----------------------------
(***************************************************************************)
(* The Control Plane's run ledger: the rows the run, approval, repair and  *)
(* runner repositories keep, the occurrences through which the schedule    *)
(* repository creates and ends runs, and one action per transaction that   *)
(* changes them. Local Runners, users and the scheduler are the            *)
(* environment: a Runner that holds a lease may send any request its       *)
(* schemas admit, in any order, so nothing rests on a Runner behaving.     *)
(*                                                                         *)
(* A transaction is one step, with one exception. Every repository works   *)
(* in Serializable transactions or under row locks, except the expiry of a *)
(* repair request, which reads and then writes at READ COMMITTED without   *)
(* a lock; it is two steps, ExpireRepairRead and ExpireRepairWrite.        *)
(*                                                                         *)
(* Every handler takes its `now` from the clock when the request arrives   *)
(* and commits later: a transaction runs with a time t up to Latency old.  *)
(* Requests that are refused, or that repeat one already applied, change   *)
(* nothing and are stuttering steps.                                       *)
(***************************************************************************)
EXTENDS Integers, Sequences, FiniteSets, RetryPolicy

CONSTANTS
  Runs,           \* the client run ids users and schedules submit
  Runners,        \* paired Runner devices
  ClaimAttempts,  \* claim attempt ids; the lease token is derived from one
  Workflow,       \* the published definition: the types of its steps
  Mode,           \* the recovery mode in the runs' execution options
  Scheduled,      \* the runs an occurrence of the schedule created
  LocalStore,     \* the runs pinned to a local secret inventory
  LeaseTerm, ApprovalTerm, RepairTerm,
  Latency,        \* the longest time a request takes to commit
  Horizon,        \* the last instant; Runners fall silent before it
  MaxRevision,    \* bound on policy and inventory revisions
  Reports,        \* the engine run statuses Runners report
  StepReports,    \* the engine step statuses Runners report
  Triggers,       \* the triggers of the attempts Runners report
  AttemptReports, \* the statuses they report attempts to finish with
  FailureCodes,   \* the error codes attempts fail with
  Effects,        \* the effect certainties attempts finish with
  ResultCauses,   \* the termination causes of completed executions
  NoLease, NoRunner

EngineCauses ==
  {"completed", "preflight_failed", "adapter_start_failed", "step_failed",
   "step_timeout", "run_cancelled", "total_timeout", "cleanup_failed",
   "approval_rejected", "approval_expired", "approval_invalidated",
   "repair_aborted", "repair_expired", "repair_invalidated"}

Steps == 1..Len(Workflow)

ASSUME WorkflowAssumption ==
  /\ Workflow \in Seq(StepType)
  /\ \A s \in Steps : Workflow[s] = "approval" =>
       s + 1 \in Steps /\ Workflow[s + 1] # "approval"
ASSUME TermAssumption ==
  /\ LeaseTerm \in Nat \ {0} /\ ApprovalTerm \in Nat \ {0}
  /\ RepairTerm \in Nat \ {0}
  /\ Latency \in Nat /\ Horizon \in Nat /\ MaxRevision \in Nat
ASSUME InputAssumption ==
  /\ Scheduled \subseteq Runs /\ LocalStore \subseteq Runs
  /\ Mode \in RecoveryMode
  /\ Scheduled # {} => Mode = "automatic_safe_only"
  /\ Reports \subseteq EngineRunStatus /\ StepReports \subseteq EngineStepStatus
  /\ Triggers \subseteq RetryTrigger /\ Effects \subseteq EffectCertainty
  /\ AttemptReports \subseteq TerminalAttemptStatus
  /\ ResultCauses \subseteq EngineCauses
ASSUME NullAssumption == NoLease \notin ClaimAttempts /\ NoRunner \notin Runners

VARIABLES
  now,          \* the database clock
  status,       \* run -> persisted status, "ABSENT" before the row exists
  cause,        \* run -> termination cause, "none" while not terminal
  owner,        \* run -> the Runner it was created for
  claimId,      \* run -> claimAttemptId, kept when the lease ends
  lease,        \* run -> the lease token, NoLease when null
  leaseExpiresAt,
  engine,       \* run -> last engine status accepted, "none" before
  step,         \* run -> step -> persisted status
  stepEngine,   \* run -> step -> last engine status accepted
  attempts,     \* run -> step -> sequence of attempt rows
  output,       \* run -> step -> the step's output has been produced
  approval,     \* run -> approval step -> request status
  approvalDue,
  repair,       \* run -> step -> attempt number -> request status
  repairDue,    \* run -> expiry of its pending repair request
  expiring,     \* repair expiries that have read and not yet written
  completed,    \* run -> a completion has been stored
  evidence,     \* run -> terminal run events in the audit trail
  alerts,       \* run -> terminal operational alerts raised
  revoked,      \* revoked Runner devices
  policy,       \* revision of the active execution policy
  policyPin,    \* run -> revision pinned at creation
  inventory,    \* Runner -> revision of its synced secret inventory
  inventoryPin, \* run -> revision pinned at creation
  occurrence,   \* run -> status of the occurrence that created it, or "NONE"
  autoPaused    \* runs whose end paused their schedule

leaseVars == <<claimId, lease, leaseExpiresAt>>
recordVars == <<engine, step, stepEngine, attempts, output>>
approvalVars == <<approval, approvalDue>>
repairVars == <<repair, repairDue, expiring>>
logVars == <<completed, evidence, alerts>>
runVars == <<status, cause, owner, leaseVars>>
scheduleVars == <<occurrence, autoPaused>>
envVars == <<revoked, policy, policyPin, inventory, inventoryPin, scheduleVars>>
vars == <<now, runVars, recordVars, approvalVars, repairVars, logVars, envVars>>

AttemptNumbers == 1..MAX_TOTAL_ATTEMPTS

NoteworthyStatuses == {"FAILED", "TIMED_OUT", "INTERRUPTED"}

ServerCauses ==
  {"lease_expired", "runner_revoked", "run_cancelled", "approval_expired",
   "repair_expired", "secret_inventory_changed_before_execution",
   "policy_changed_before_execution"}

OccurrenceStatus ==
  {"NONE", "DISPATCHED", "SUCCEEDED", "SKIPPED", "TIMED_OUT", "CANCELLED"}

(* The terminal status the engine reports for a termination cause.         *)
terminalStatusFor ==
  [c \in EngineCauses |->
     CASE c = "completed" -> "succeeded"
       [] c \in {"run_cancelled", "approval_rejected", "repair_aborted"} ->
            "cancelled"
       [] c \in {"total_timeout", "approval_expired", "repair_expired"} ->
            "timed_out"
       [] c \in {"approval_invalidated", "repair_invalidated"} -> "interrupted"
       [] OTHER -> "failed"]

Init ==
  /\ now = 0
  /\ status = [r \in Runs |-> "ABSENT"]
  /\ cause = [r \in Runs |-> "none"]
  /\ owner = [r \in Runs |-> NoRunner]
  /\ claimId = [r \in Runs |-> NoLease]
  /\ lease = [r \in Runs |-> NoLease]
  /\ leaseExpiresAt = [r \in Runs |-> 0]
  /\ engine = [r \in Runs |-> "none"]
  /\ step = [r \in Runs |-> [s \in Steps |-> "PENDING"]]
  /\ stepEngine = [r \in Runs |-> [s \in Steps |-> "none"]]
  /\ attempts = [r \in Runs |-> [s \in Steps |-> <<>>]]
  /\ output = [r \in Runs |-> [s \in Steps |-> FALSE]]
  /\ approval = [r \in Runs |-> [s \in Steps |-> "NONE"]]
  /\ approvalDue = [r \in Runs |-> [s \in Steps |-> 0]]
  /\ repair = [r \in Runs |-> [s \in Steps |-> [n \in AttemptNumbers |-> "NONE"]]]
  /\ repairDue = [r \in Runs |-> 0]
  /\ expiring = {}
  /\ completed = [r \in Runs |-> FALSE]
  /\ evidence = [r \in Runs |-> 0]
  /\ alerts = [r \in Runs |-> 0]
  /\ revoked = {}
  /\ policy = 0
  /\ policyPin = [r \in Runs |-> 0]
  /\ inventory = [n \in Runners |-> 0]
  /\ inventoryPin = [r \in Runs |-> 0]
  /\ occurrence = [r \in Runs |-> "NONE"]
  /\ autoPaused = {}

-----------------------------------------------------------------------------
(* Conditions shared by the handlers                                       *)

RequestTimes == {t \in 0..now : now - t <= Latency}

ActiveOf(n) == {r \in Runs : owner[r] = n /\ status[r] \in ACTIVE_STATUSES}

(* Mutant: only an executing run's lease is seen to lapse.                 *)
LeaseLapsedWhenRunning(r, t) ==
  /\ status[r] \in {"CLAIMED", "RUNNING"}
  /\ lease[r] # NoLease
  /\ leaseExpiresAt[r] <= t

(* The row's lease columns are set and its expiry has passed at t.         *)
LeaseLapsed(r, t) ==
  /\ status[r] \in ACTIVE_STATUSES
  /\ lease[r] # NoLease
  /\ leaseExpiresAt[r] <= t

(* A request that carries the run's own lease token is accepted at t.      *)
requireLease(r, t) ==
  /\ owner[r] \notin revoked
  /\ status[r] \in ACTIVE_STATUSES
  /\ lease[r] # NoLease
  /\ t < leaseExpiresAt[r]

(* The token columns alone, as the approval and repair repositories check. *)
TokenValid(r, t) == lease[r] # NoLease /\ t < leaseExpiresAt[r]

isApprovalGatedStep(s) == s > 1 /\ Workflow[s - 1] = "approval"

Triggered(r, s, trigger) ==
  {n \in 1..Len(attempts[r][s]) : attempts[r][s][n].trigger = trigger}

-----------------------------------------------------------------------------
(* Row updates shared by the handlers                                      *)

SkipPending(st) == IF st = "PENDING" THEN "SKIPPED" ELSE st

InterruptStep(st) ==
  IF st \in {"RUNNING"} \cup WaitingStepStatus THEN "INTERRUPTED"
                                               ELSE SkipPending(st)

(* The steps of r once the request its step s waited for has expired.      *)
TimedOutSteps(r, s, waiting) ==
  [x \in Steps |-> IF x = s /\ step[r][x] = waiting THEN "TIMED_OUT"
                                                    ELSE SkipPending(step[r][x])]

Resolve(st, outcome) == IF st = "PENDING" THEN outcome ELSE st

ResolveApprovals(S, outcome) ==
  approval' = [r \in Runs |-> IF r \in S
    THEN [s \in Steps |-> Resolve(approval[r][s], outcome)]
    ELSE approval[r]]

ResolveRepairs(S, outcome) ==
  repair' = [r \in Runs |-> IF r \in S
    THEN [s \in Steps |-> [n \in AttemptNumbers |->
            Resolve(repair[r][s][n], outcome)]]
    ELSE repair[r]]

(* An attempt cut off by the Control Plane: nobody knows what it did.      *)
InterruptAttempt(attempt, code) ==
  IF attempt.status = "running"
  THEN [attempt EXCEPT !.status = "interrupted", !.error = code,
                       !.effect = "unknown"]
  ELSE attempt

InterruptAttempts(S, code) ==
  attempts' = [r \in Runs |-> IF r \in S
    THEN [s \in Steps |-> [n \in DOMAIN attempts[r][s] |->
            InterruptAttempt(attempts[r][s][n], code)]]
    ELSE attempts[r]]

(* UPDATE ... SET column = value for the runs in S.                        *)
Assign(column, S, value) ==
  [r \in Runs |-> IF r \in S THEN value ELSE column[r]]

(* The columns every transaction that ends the runs in S writes.           *)
EndRuns(S, st, c) ==
  /\ status' = Assign(status, S, st)
  /\ cause' = Assign(cause, S, c)
  /\ lease' = Assign(lease, S, NoLease)
  /\ leaseExpiresAt' = Assign(leaseExpiresAt, S, 0)

Increment(tally, S) == [r \in Runs |-> IF r \in S THEN tally[r] + 1 ELSE tally[r]]

-----------------------------------------------------------------------------
(* Creation, dispatch and the lease                                        *)

(* A run is created for one Runner and pinned to the policy, and for local *)
(* secrets to the inventory, in force.                                     *)
QueueRun(r, n) ==
  /\ status[r] = "ABSENT"
  /\ n \notin revoked
  /\ status' = [status EXCEPT ![r] = "QUEUED"]
  /\ owner' = [owner EXCEPT ![r] = n]
  /\ policyPin' = [policyPin EXCEPT ![r] = policy]
  /\ inventoryPin' = [inventoryPin EXCEPT ![r] = inventory[n]]
  /\ UNCHANGED <<now, cause, leaseVars, recordVars, approvalVars, repairVars,
                 logVars, revoked, policy, inventory>>

CreateRun(r, n) ==
  /\ r \notin Scheduled
  /\ QueueRun(r, n)
  /\ UNCHANGED scheduleVars

(* A due occurrence becomes a run once its Runner has none queued or       *)
(* active. The end of its start window is stored with the run and never    *)
(* read again: a claim does not look at it, and what the scheduler does at *)
(* that end is rolled back (see Occurrences of the schedule below).        *)
processOccurrence(r, n) ==
  /\ r \in Scheduled
  /\ \A x \in Runs : owner[x] = n => status[x] \notin ACTIVE_STATUSES \cup {"QUEUED"}
  /\ QueueRun(r, n)
  /\ occurrence' = [occurrence EXCEPT ![r] = "DISPATCHED"]
  /\ UNCHANGED autoPaused

(* Mutant: a retried claim is answered with another run.                   *)
FreshClaimUnlessRetried(n, a, t) ==
  /\ n \notin revoked
  /\ \A r \in ActiveOf(n) : LeaseLapsed(r, t)

(* What a claim with a fresh attempt id needs before it looks at the queue:*)
(* the Runner's other active run, if it has one, has lapsed. An attempt id *)
(* used before never reaches the queue: the claim answers with the run it  *)
(* claimed, and only interrupts that run if it has lapsed (ExpireLease).   *)
(* An incompatible, blocked or draining Runner is given no job.            *)
FreshClaim(n, a, t) ==
  /\ n \notin revoked
  /\ \A r \in Runs : owner[r] = n => claimId[r] # a
  /\ \A r \in ActiveOf(n) : LeaseLapsed(r, t)

(* Claimable run: the oldest QUEUED row that no other transaction has      *)
(* locked (FOR UPDATE SKIP LOCKED). Reading a run through the API locks    *)
(* its row, so any queued run can be the oldest unlocked one.              *)
QueuedFor(n) == {r \in Runs : owner[r] = n /\ status[r] = "QUEUED"}

(* sent is the inventory revision the claim request carries.               *)
SecretInventoryMatches(n, r, sent) ==
  r \in LocalStore => sent = inventoryPin[r] /\ inventory[n] = inventoryPin[r]

InterruptedSteps(S) ==
  [r \in Runs |-> IF r \in S THEN [s \in Steps |-> InterruptStep(step[r][s])]
                             ELSE step[r]]

(* Everything interruptLockedRun writes besides the run row and its steps. *)
InterruptRequests(S) ==
  /\ ResolveApprovals(S, "INVALIDATED")
  /\ ResolveRepairs(S, "INVALIDATED")
  /\ InterruptAttempts(S, "LEASE_EXPIRED")
  /\ UNCHANGED <<approvalDue, repairDue, expiring>>

Claim(n, a, r, t, sent) ==
  LET lapsed == ActiveOf(n) IN
  /\ t + LeaseTerm <= Horizon
  /\ FreshClaim(n, a, t)
  /\ r \in QueuedFor(n)
  /\ SecretInventoryMatches(n, r, sent)
  /\ policyPin[r] = policy
  /\ InterruptRequests(lapsed)
  /\ step' = InterruptedSteps(lapsed)
  /\ status' = [Assign(status, lapsed, "INTERRUPTED") EXCEPT ![r] = "CLAIMED"]
  /\ cause' = Assign(cause, lapsed, "lease_expired")
  /\ claimId' = [claimId EXCEPT ![r] = a]
  /\ lease' = [Assign(lease, lapsed, NoLease) EXCEPT ![r] = a]
  /\ leaseExpiresAt' =
       [Assign(leaseExpiresAt, lapsed, 0) EXCEPT ![r] = t + LeaseTerm]
  /\ evidence' = Increment(evidence, lapsed)
  /\ alerts' = Increment(alerts, lapsed)
  /\ UNCHANGED <<now, owner, engine, stepEngine, output, completed, envVars>>

(* The queued run's pins no longer hold: the run fails before it starts.   *)
(* The claim of a scheduled run with stale secrets would also pause the    *)
(* schedule, with an event the audit trail refuses (AuditEvents!           *)
(* OnlyTheseAreRefused): that claim is rolled back and the run stays in    *)
(* the queue.                                                              *)
FailStalePin(n, a, r, t, sent) ==
  LET lapsed == ActiveOf(n)
      stale == ~SecretInventoryMatches(n, r, sent) IN
  /\ FreshClaim(n, a, t)
  /\ r \in QueuedFor(n)
  /\ stale \/ policyPin[r] # policy
  /\ ~(stale /\ r \in Scheduled)
  /\ InterruptRequests(lapsed)
  /\ step' = [InterruptedSteps(lapsed) EXCEPT
                ![r] = [s \in Steps |-> SkipPending(step[r][s])]]
  /\ status' = [Assign(status, lapsed, "INTERRUPTED") EXCEPT ![r] = "FAILED"]
  /\ cause' = [Assign(cause, lapsed, "lease_expired") EXCEPT
       ![r] = IF stale THEN "secret_inventory_changed_before_execution"
                       ELSE "policy_changed_before_execution"]
  /\ lease' = Assign(lease, lapsed, NoLease)
  /\ leaseExpiresAt' = Assign(leaseExpiresAt, lapsed, 0)
  /\ evidence' = Increment(evidence, lapsed \cup {r})
  /\ alerts' = Increment(alerts, lapsed \cup {r})
  /\ UNCHANGED <<now, owner, claimId, engine, stepEngine, output, completed,
                 envVars>>

RenewLease(r, t) ==
  /\ t + LeaseTerm <= Horizon
  /\ requireLease(r, t)
  /\ leaseExpiresAt' = [leaseExpiresAt EXCEPT ![r] = t + LeaseTerm]
  /\ UNCHANGED <<now, status, cause, owner, claimId, lease, recordVars,
                 approvalVars, repairVars, logVars, envVars>>

(* Mutant: a run whose lease lapsed is queued again.                       *)
ExpireLeaseByRequeueing(r, t) ==
  /\ LeaseLapsed(r, t)
  /\ EndRuns({r}, "QUEUED", "none")
  /\ step' = [step EXCEPT ![r] = [s \in Steps |-> "PENDING"]]
  /\ InterruptRequests({r})
  /\ UNCHANGED <<now, owner, claimId, engine, stepEngine, output, logVars, envVars>>

(* Mutant: the interruption is not recorded in the audit trail.            *)
ExpireLeaseUnrecorded(r, t) ==
  /\ LeaseLapsed(r, t)
  /\ EndRuns({r}, "INTERRUPTED", "lease_expired")
  /\ step' = InterruptedSteps({r})
  /\ InterruptRequests({r})
  /\ alerts' = Increment(alerts, {r})
  /\ UNCHANGED <<now, owner, claimId, engine, stepEngine, output, completed,
                 evidence, envVars>>

(* Any handler that finds the lease lapsed, and the scheduler's tick,      *)
(* interrupts the run in a transaction of its own.                         *)
ExpireLease(r, t) ==
  /\ LeaseLapsed(r, t)
  /\ EndRuns({r}, "INTERRUPTED", "lease_expired")
  /\ step' = InterruptedSteps({r})
  /\ InterruptRequests({r})
  /\ evidence' = Increment(evidence, {r})
  /\ alerts' = Increment(alerts, {r})
  /\ UNCHANGED <<now, owner, claimId, engine, stepEngine, output, completed,
                 envVars>>

-----------------------------------------------------------------------------
(* Progress. The Runner's sink sends one event per batch.                  *)

IngestRunStatus(r, t, next) ==
  /\ requireLease(r, t)
  /\ validEngineRunTransition(engine[r], next)
  /\ engine' = [engine EXCEPT ![r] = next]
  /\ status' = [status EXCEPT ![r] =
       CASE next = "running" /\ @ \in {"CLAIMED", "WAITING_FOR_APPROVAL",
                                       "WAITING_FOR_REPAIR"} -> "RUNNING"
         [] next = "waiting_for_approval" /\ @ = "RUNNING" ->
              "WAITING_FOR_APPROVAL"
         [] next = "waiting_for_repair" /\ @ = "RUNNING" -> "WAITING_FOR_REPAIR"
         [] OTHER -> @]
  /\ UNCHANGED <<now, cause, owner, leaseVars, step, stepEngine, attempts,
                 output, approvalVars, repairVars, logVars, envVars>>

IngestStepStatus(r, s, t, next) ==
  /\ requireLease(r, t)
  /\ validEngineStepTransition(stepEngine[r][s], next)
  /\ LET st == persistedStepStatus[next] IN
       /\ step[r][s] = st \/ canTransitionRunStep(step[r][s], st)
       /\ st = "RUNNING" => \A x \in Steps \ {s} : step[r][x] # "RUNNING"
       /\ step' = [step EXCEPT ![r][s] = st]
  /\ stepEngine' = [stepEngine EXCEPT ![r][s] = next]
  /\ UNCHANGED <<now, runVars, engine, attempts, output, approvalVars,
                 repairVars, logVars, envVars>>

(* Only Extract steps declare outputs.                                     *)
IngestOutput(r, s, t) ==
  /\ requireLease(r, t)
  /\ Workflow[s] = "extract"
  /\ ~output[r][s]
  /\ step[r][s] = "RUNNING"
  /\ output' = [output EXCEPT ![r][s] = TRUE]
  /\ UNCHANGED <<now, runVars, engine, step, stepEngine, attempts, approvalVars,
                 repairVars, logVars, envVars>>

(* A started attempt's effect is unknown until it finishes. A manual retry *)
(* needs the approved repair request of the attempt before it.             *)
IngestAttemptStarted(r, s, t, trigger) ==
  LET n == Len(attempts[r][s]) + 1 IN
  /\ requireLease(r, t)
  /\ n \in AttemptNumbers
  /\ n > 1 => trigger # "initial"
  /\ trigger = "manual_retry" =>
       n > 1 /\ repair[r][s][n - 1] = "RETRY_APPROVED"
  /\ attempts' = [attempts EXCEPT ![r][s] =
       Append(@, [trigger |-> trigger, status |-> "running", error |-> "none",
                  effect |-> "unknown"])]
  /\ UNCHANGED <<now, runVars, engine, step, stepEngine, output, approvalVars,
                 repairVars, logVars, envVars>>

IngestAttemptFinished(r, s, t, n, st, code, effect) ==
  /\ requireLease(r, t)
  /\ n \in 1..Len(attempts[r][s])
  /\ attempts[r][s][n].status = "running"
  /\ attempts' = [attempts EXCEPT ![r][s][n] =
       [@ EXCEPT !.status = st, !.error = code, !.effect = effect]]
  /\ UNCHANGED <<now, runVars, engine, step, stepEngine, output, approvalVars,
                 repairVars, logVars, envVars>>

-----------------------------------------------------------------------------
(* Completion and cancellation                                             *)

(* What the result schema asks of a step's final attempt.                  *)
compatibleStatuses ==
  [st \in TerminalEngineStepStatus |->
     CASE st = "succeeded" -> {"succeeded"}
       [] st = "failed" -> {"failed"}
       [] st = "cancelled" -> {"cancelled", "failed"}
       [] st = "timed_out" -> {"timed_out", "cancelled", "failed"}
       [] st = "interrupted" -> {"interrupted", "cancelled", "failed"}
       [] OTHER -> {}]

(* The result repeats the attempts on record and satisfies their schema.   *)
AttemptsAgree(r, s, result) ==
  LET count == Len(attempts[r][s]) IN
  count > 0 =>
    /\ attempts[r][s][count].status \in compatibleStatuses[result[s]]
    /\ \A n \in 1..count :
         (attempts[r][s][n].trigger = "initial") <=> (n = 1)
    /\ Cardinality(Triggered(r, s, "automatic_retry")) <= MAX_AUTOMATIC_RETRIES
    /\ Cardinality(Triggered(r, s, "manual_retry")) <= MAX_MANUAL_RETRIES

(* The result agrees with the decision on every approval request.          *)
ApprovalAgrees(r, s, c, result) ==
  LET skipped == result[s + 1] = "skipped" IN
  CASE approval[r][s] = "NONE" -> TRUE
    [] approval[r][s] = "APPROVED" -> result[s] = "succeeded"
    [] approval[r][s] = "REJECTED" ->
         c = "approval_rejected" /\ result[s] = "cancelled" /\ skipped
    [] approval[r][s] = "EXPIRED" ->
         c = "approval_expired" /\ result[s] = "timed_out" /\ skipped
    [] approval[r][s] = "CANCELLED" ->
         terminalStatusFor[c] = "cancelled" /\ skipped
    [] approval[r][s] = "INVALIDATED" ->
         terminalStatusFor[c] = "interrupted" /\ skipped
    [] OTHER -> FALSE

(* An output on record stays produced, and only a succeeded Extract step   *)
(* has one.                                                                *)
OutputsAgree(r, result) ==
  \A s \in Steps : output[r][s] => result[s] = "succeeded"

AcceptsResult(r, c, result) ==
  /\ \A s \in Steps : AttemptsAgree(r, s, result)
  /\ \A s \in Steps : ApprovalAgrees(r, s, c, result)
  /\ OutputsAgree(r, result)

(* Mutant: a late completion is stored over the outcome.                   *)
CompleteWithoutLease(r, t, c, result) ==
  LET st == persistedRunStatus[terminalStatusFor[c]] IN
  /\ status[r] # "ABSENT"
  /\ AcceptsResult(r, c, result)
  /\ EndRuns({r}, st, c)
  /\ step' = [step EXCEPT ![r] = [s \in Steps |-> persistedStepStatus[result[s]]]]
  /\ stepEngine' = [stepEngine EXCEPT ![r] = result]
  /\ completed' = [completed EXCEPT ![r] = TRUE]
  /\ UNCHANGED <<now, owner, claimId, engine, attempts, output, approvalVars,
                 repairVars, evidence, alerts, envVars>>

(* Pending repair requests are left as they are.                           *)
Complete(r, t, c, result) ==
  LET st == persistedRunStatus[terminalStatusFor[c]] IN
  /\ requireLease(r, t)
  /\ AcceptsResult(r, c, result)
  /\ EndRuns({r}, st, c)
  /\ step' = [step EXCEPT ![r] = [s \in Steps |-> persistedStepStatus[result[s]]]]
  /\ stepEngine' = [stepEngine EXCEPT ![r] = result]
  /\ output' = [output EXCEPT ![r] = [s \in Steps |->
                  Workflow[s] = "extract" /\ result[s] = "succeeded"]]
  /\ completed' = [completed EXCEPT ![r] = TRUE]
  /\ evidence' = Increment(evidence, {r})
  /\ alerts' = Increment(alerts, IF st \in NoteworthyStatuses THEN {r} ELSE {})
  /\ UNCHANGED <<now, owner, claimId, engine, attempts, approvalVars, repairVars,
                 envVars>>

(* The Runner's own report of an approval expiry that already ended the    *)
(* run is stored beside the outcome; it needs no lease.                    *)
CompleteExpired(r) ==
  /\ status[r] = "TIMED_OUT"
  /\ cause[r] = "approval_expired"
  /\ ~completed[r]
  /\ completed' = [completed EXCEPT ![r] = TRUE]
  /\ UNCHANGED <<now, runVars, recordVars, approvalVars, repairVars, evidence,
                 alerts, envVars>>

(* A queued run ends at once; an active one is asked to stop.              *)
CancelQueued(r) ==
  /\ status[r] = "QUEUED"
  /\ ResolveApprovals({r}, "CANCELLED")
  /\ ResolveRepairs({r}, "CANCELLED")
  /\ status' = [status EXCEPT ![r] = "CANCELLED"]
  /\ cause' = [cause EXCEPT ![r] = "run_cancelled"]
  /\ step' = [step EXCEPT ![r] = [s \in Steps |-> SkipPending(step[r][s])]]
  /\ evidence' = Increment(evidence, {r})
  /\ UNCHANGED <<now, owner, leaseVars, engine, stepEngine, attempts, output,
                 approvalDue, repairDue, expiring, completed, alerts, envVars>>

(* Mutant: the engine's spelling of the status is persisted.               *)
CancelActiveMisspelt(r) ==
  /\ status[r] \in ACTIVE_STATUSES
  /\ ResolveApprovals({r}, "CANCELLED")
  /\ ResolveRepairs({r}, "CANCELLED")
  /\ status' = [status EXCEPT ![r] = "cancelling"]
  /\ UNCHANGED <<now, cause, owner, leaseVars, recordVars, approvalDue,
                 repairDue, expiring, logVars, envVars>>

CancelActive(r) ==
  /\ status[r] \in ACTIVE_STATUSES
  /\ ResolveApprovals({r}, "CANCELLED")
  /\ ResolveRepairs({r}, "CANCELLED")
  /\ status' = [status EXCEPT ![r] = "CANCEL_REQUESTED"]
  /\ UNCHANGED <<now, cause, owner, leaseVars, recordVars, approvalDue,
                 repairDue, expiring, logVars, envVars>>

(* Revocation ends the Runner's active runs and every open request and     *)
(* attempt of the device; its queued runs stay queued.                     *)
RevokeRunner(n) ==
  LET owned == {r \in Runs : owner[r] = n}
      active == ActiveOf(n) IN
  /\ n \notin revoked
  /\ revoked' = revoked \cup {n}
  /\ ResolveApprovals(owned, "INVALIDATED")
  /\ ResolveRepairs(owned, "INVALIDATED")
  /\ InterruptAttempts(owned, "RUNNER_REVOKED")
  /\ EndRuns(active, "INTERRUPTED", "runner_revoked")
  /\ step' = InterruptedSteps(active)
  /\ alerts' = Increment(alerts, active)
  /\ UNCHANGED <<now, owner, claimId, engine, stepEngine, output, approvalDue,
                 repairDue, expiring, completed, evidence, policy, policyPin,
                 inventory, inventoryPin, scheduleVars>>

-----------------------------------------------------------------------------
(* Approval requests                                                       *)

CreateApproval(r, s, t, due) ==
  /\ due <= Horizon
  /\ TokenValid(r, t)
  /\ status[r] \in {"RUNNING", "WAITING_FOR_APPROVAL"}
  /\ Workflow[s] = "approval"
  /\ approval[r][s] = "NONE"
  /\ approval' = [approval EXCEPT ![r][s] = "PENDING"]
  /\ approvalDue' = [approvalDue EXCEPT ![r][s] = due]
  /\ status' = [status EXCEPT ![r] = "WAITING_FOR_APPROVAL"]
  /\ step' = [step EXCEPT ![r][s] = "WAITING_FOR_APPROVAL"]
  /\ UNCHANGED <<now, cause, owner, leaseVars, engine, stepEngine, attempts,
                 output, repairVars, logVars, envVars>>

DecideApproval(r, s, t, decision) ==
  /\ approval[r][s] = "PENDING"
  /\ t < approvalDue[r][s]
  /\ approval' = [approval EXCEPT ![r][s] = decision]
  /\ UNCHANGED <<now, runVars, recordVars, approvalDue, repairVars, logVars,
                 envVars>>

(* The Runner's poll marks the request expired; a user's request and the   *)
(* scheduler's tick also end the run that waits for it.                    *)
PollExpiredApproval(r, s, t) ==
  /\ approval[r][s] = "PENDING"
  /\ approvalDue[r][s] <= t
  /\ lease[r] # NoLease
  /\ approval' = [approval EXCEPT ![r][s] = "EXPIRED"]
  /\ UNCHANGED <<now, runVars, recordVars, approvalDue, repairVars, logVars,
                 envVars>>

(* Mutant: the expiry does not look at the decision again.                 *)
ExpireApprovalBlindly(r, s, t) ==
  /\ approval[r][s] # "NONE"
  /\ approvalDue[r][s] <= t
  /\ approval' = [approval EXCEPT ![r][s] = "EXPIRED"]
  /\ UNCHANGED <<now, runVars, recordVars, approvalDue, repairVars, logVars,
                 envVars>>

ExpireApproval(r, s, t) ==
  LET waiting == {x \in {r} : status[x] = "WAITING_FOR_APPROVAL"} IN
  /\ approval[r][s] = "PENDING"
  /\ approvalDue[r][s] <= t
  /\ approval' = [approval EXCEPT ![r][s] = "EXPIRED"]
  /\ EndRuns(waiting, "TIMED_OUT", "approval_expired")
  /\ alerts' = Increment(alerts, waiting)
  /\ step' = [step EXCEPT ![r] = TimedOutSteps(r, s, "WAITING_FOR_APPROVAL")]
  /\ UNCHANGED <<now, owner, claimId, engine, stepEngine, attempts, output,
                 approvalDue, repairVars, completed, evidence, envVars>>

-----------------------------------------------------------------------------
(* Repair requests                                                         *)

RepairDisposition(r, s) ==
  LET last == attempts[r][s][Len(attempts[r][s])] IN
  decideRetry([stepType |-> Workflow[s],
               errorCode |-> last.error,
               effectCertainty |-> last.effect,
               recoveryMode |-> Mode,
               automaticRetryCount |->
                 Cardinality(Triggered(r, s, "automatic_retry")),
               manualRetryCount |-> Cardinality(Triggered(r, s, "manual_retry")),
               totalAttemptCount |-> Len(attempts[r][s]),
               approvalGated |-> isApprovalGatedStep(s)])

(* A unique index admits one pending request per run.                      *)
NoPendingRepair(r) ==
  \A s \in Steps, n \in AttemptNumbers : repair[r][s][n] # "PENDING"

CreateRepair(r, s, t, due) ==
  LET n == Len(attempts[r][s]) IN
  /\ TokenValid(r, t)
  /\ status[r] \in {"RUNNING", "WAITING_FOR_REPAIR"}
  /\ n > 0
  /\ attempts[r][s][n].status # "running"
  /\ attempts[r][s][n].error # "none"
  /\ RepairDisposition(r, s) \in {"manual_repair", "locator_proposal"}
  /\ repair[r][s][n] = "NONE"
  /\ NoPendingRepair(r)
  /\ repair' = [repair EXCEPT ![r][s][n] = "PENDING"]
  /\ repairDue' = [repairDue EXCEPT ![r] = due]
  /\ status' = [status EXCEPT ![r] = "WAITING_FOR_REPAIR"]
  /\ step' = [step EXCEPT ![r][s] = "WAITING_FOR_REPAIR"]
  /\ UNCHANGED <<now, cause, owner, leaseVars, engine, stepEngine, attempts,
                 output, approvalVars, expiring, logVars, envVars>>

(* The stored retryAllowed flag is set for manual repairs only, which the  *)
(* run's recovery mode decides.                                            *)
DecideRepair(r, s, n, t, decision) ==
  /\ repair[r][s][n] = "PENDING"
  /\ t < repairDue[r]
  /\ decision = "RETRY_APPROVED" => Mode = "automatic_safe_and_manual"
  /\ repair' = [repair EXCEPT ![r][s][n] = decision]
  /\ UNCHANGED <<now, runVars, recordVars, approvalVars, repairDue, expiring,
                 logVars, envVars>>

(* The expiry's unlocked read. The Runner's poll (terminate = FALSE) needs *)
(* a live lease.                                                           *)
ExpireRepairRead(r, s, n, t, terminate) ==
  /\ repair[r][s][n] = "PENDING"
  /\ repairDue[r] <= t
  /\ terminate \/ TokenValid(r, t)
  /\ expiring' = expiring \cup
       {[run |-> r, step |-> s, attempt |-> n, terminate |-> terminate]}
  /\ UNCHANGED <<now, runVars, recordVars, approvalVars, repair, repairDue,
                 logVars, envVars>>

(* Its write, which updates the request by id whatever its status is now.  *)
ExpireRepairWrite(x) ==
  LET r == x.run
      waiting == {y \in {r} : x.terminate /\ status[y] = "WAITING_FOR_REPAIR"} IN
  /\ expiring' = expiring \ {x}
  /\ repair' = [repair EXCEPT ![r][x.step][x.attempt] = "EXPIRED"]
  /\ EndRuns(waiting, "TIMED_OUT", "repair_expired")
  /\ alerts' = Increment(alerts, waiting)
  /\ step' = IF x.terminate
       THEN [step EXCEPT ![r] = TimedOutSteps(r, x.step, "WAITING_FOR_REPAIR")]
       ELSE step
  /\ UNCHANGED <<now, owner, claimId, engine, stepEngine, attempts, output,
                 approvalVars, repairDue, completed, evidence, envVars>>

-----------------------------------------------------------------------------
(* Occurrences of the schedule                                             *)

(* Of an occurrence whose start window has closed the scheduler's tick     *)
(* writes the end, and the end of its run, in a transaction whose event    *)
(* the audit trail refuses: it is rolled back on every tick, so no run     *)
(* ends that way (RunSchedule!reconcileTimedOutOccurrence).                *)

(* Mutant: an interrupted run does not pause its schedule.                 *)
handleRunCompletionResuming(r) ==
  /\ occurrence[r] = "DISPATCHED"
  /\ status[r] \in TERMINAL_STATUSES
  /\ occurrence' = [occurrence EXCEPT ![r] = "SKIPPED"]
  /\ UNCHANGED <<now, runVars, recordVars, approvalVars, repairVars, logVars,
                 revoked, policy, policyPin, inventory, inventoryPin, autoPaused>>

(* A later phase of the tick closes the occurrences of ended runs. What an *)
(* interrupted run did is unknown: its schedule waits for a human.         *)
handleRunCompletion(r) ==
  LET ambiguous == \/ status[r] = "INTERRUPTED"
                   \/ status[r] = "FAILED" /\ cause[r] = "lease_expired" IN
  /\ occurrence[r] = "DISPATCHED"
  /\ status[r] \in TERMINAL_STATUSES
  /\ occurrence' = [occurrence EXCEPT ![r] =
       CASE status[r] = "SUCCEEDED" -> "SUCCEEDED"
         [] status[r] = "INTERRUPTED" -> "CANCELLED"
         [] OTHER -> "SKIPPED"]
  /\ autoPaused' = autoPaused \cup {x \in {r} : ambiguous}
  /\ UNCHANGED <<now, runVars, recordVars, approvalVars, repairVars, logVars,
                 revoked, policy, policyPin, inventory, inventoryPin>>

-----------------------------------------------------------------------------
(* The environment: time, policy publication and secret inventory sync     *)

Tick ==
  /\ now < Horizon
  /\ now' = now + 1
  /\ UNCHANGED <<runVars, recordVars, approvalVars, repairVars, logVars, envVars>>

SupersedePolicy ==
  /\ policy < MaxRevision
  /\ policy' = policy + 1
  /\ UNCHANGED <<now, runVars, recordVars, approvalVars, repairVars, logVars,
                 revoked, policyPin, inventory, inventoryPin, scheduleVars>>

SyncInventory(n) ==
  /\ inventory[n] < MaxRevision
  /\ n \notin revoked
  /\ inventory' = [inventory EXCEPT ![n] = @ + 1]
  /\ UNCHANGED <<now, runVars, recordVars, approvalVars, repairVars, logVars,
                 revoked, policy, policyPin, inventoryPin, scheduleVars>>

-----------------------------------------------------------------------------
RunnerRequest(r, t) ==
  \/ RenewLease(r, t)
  \/ \E next \in Reports : IngestRunStatus(r, t, next)
  \/ \E s \in Steps :
       \/ \E next \in StepReports : IngestStepStatus(r, s, t, next)
       \/ IngestOutput(r, s, t)
       \/ \E trigger \in Triggers : IngestAttemptStarted(r, s, t, trigger)
       \/ \E n \in AttemptNumbers, effect \in Effects :
            \E st \in AttemptReports :
              \E code \in IF st = "succeeded" THEN {"none"} ELSE FailureCodes :
                IngestAttemptFinished(r, s, t, n, st, code, effect)
       \/ \E due \in t + 1 .. t + ApprovalTerm : CreateApproval(r, s, t, due)
       \/ \E due \in t + 1 .. t + RepairTerm : CreateRepair(r, s, t, due)
       \/ PollExpiredApproval(r, s, t)
       \/ \E n \in AttemptNumbers : ExpireRepairRead(r, s, n, t, FALSE)
  \/ \E c \in ResultCauses, result \in [Steps -> TerminalEngineStepStatus] :
       Complete(r, t, c, result)

UserRequest(r, t) ==
  \/ CancelQueued(r)
  \/ CancelActive(r)
  \/ \E s \in Steps :
       \/ \E decision \in {"APPROVED", "REJECTED"} :
            DecideApproval(r, s, t, decision)
       \/ \E n \in AttemptNumbers :
            \/ \E decision \in {"RETRY_APPROVED", "ABORTED"} :
                 DecideRepair(r, s, n, t, decision)
            \/ ExpireRepairRead(r, s, n, t, TRUE)

Dispatch(n, t) ==
  \E a \in ClaimAttempts, r \in Runs, sent \in 0..MaxRevision :
    Claim(n, a, r, t, sent) \/ FailStalePin(n, a, r, t, sent)

Reconcile(r, t) ==
  \/ ExpireLease(r, t)
  \/ \E s \in Steps : ExpireApproval(r, s, t)
  \/ handleRunCompletion(r)

Next ==
  \/ Tick
  \/ SupersedePolicy
  \/ \E n \in Runners :
       \/ SyncInventory(n)
       \/ RevokeRunner(n)
       \/ \E r \in Runs :
            \/ CreateRun(r, n)
            \/ processOccurrence(r, n)
       \/ \E t \in RequestTimes : Dispatch(n, t)
  \/ \E r \in Runs :
       \/ CompleteExpired(r)
       \/ \E t \in RequestTimes :
            RunnerRequest(r, t) \/ UserRequest(r, t) \/ Reconcile(r, t)
  \/ \E x \in expiring : ExpireRepairWrite(x)

Spec == Init /\ [][Next]_vars

(* Time passes, and the scheduler's tick keeps reconciling with the        *)
(* current time whatever else happens.                                     *)
Fairness ==
  /\ WF_vars(Tick)
  /\ \A r \in Runs : WF_vars(Reconcile(r, now))

FairSpec == Spec /\ Fairness

-----------------------------------------------------------------------------
(* Properties                                                              *)

AttemptRow ==
  [trigger : RetryTrigger, status : StepAttemptStatus,
   error : FailureCodes \cup {"none", "LEASE_EXPIRED", "RUNNER_REVOKED"},
   effect : EffectCertainty]

ExpiryTransaction ==
  [run : Runs, step : Steps, attempt : AttemptNumbers, terminate : BOOLEAN]

(* Every row keeps a value its column admits.                              *)
TypeOK ==
  /\ now \in Nat
  /\ status \in [Runs -> {"ABSENT"} \cup WorkflowRunStatus]
  /\ cause \in [Runs -> {"none"} \cup EngineCauses \cup ServerCauses]
  /\ owner \in [Runs -> Runners \cup {NoRunner}]
  /\ claimId \in [Runs -> ClaimAttempts \cup {NoLease}]
  /\ lease \in [Runs -> ClaimAttempts \cup {NoLease}]
  /\ leaseExpiresAt \in [Runs -> Nat]
  /\ engine \in [Runs -> {"none"} \cup EngineRunStatus]
  /\ step \in [Runs -> [Steps -> PersistedRunStepStatus]]
  /\ stepEngine \in [Runs -> [Steps -> {"none"} \cup EngineStepStatus]]
  /\ attempts \in [Runs -> [Steps -> Seq(AttemptRow)]]
  /\ output \in [Runs -> [Steps -> BOOLEAN]]
  /\ approval \in [Runs -> [Steps -> ApprovalRequestStatus]]
  /\ approvalDue \in [Runs -> [Steps -> Nat]]
  /\ repair \in [Runs -> [Steps -> [AttemptNumbers -> RepairRequestStatus]]]
  /\ repairDue \in [Runs -> Nat]
  /\ expiring \subseteq ExpiryTransaction
  /\ completed \in [Runs -> BOOLEAN]
  /\ evidence \in [Runs -> Nat]
  /\ alerts \in [Runs -> Nat]
  /\ revoked \subseteq Runners
  /\ policy \in Nat
  /\ policyPin \in [Runs -> Nat]
  /\ inventory \in [Runners -> Nat]
  /\ inventoryPin \in [Runs -> Nat]
  /\ occurrence \in [Runs -> OccurrenceStatus]
  /\ autoPaused \subseteq Runs

Terminal(r) == status[r] \in TERMINAL_STATUSES

(* A run row carries a lease token exactly while the run is active, so     *)
(* every active run can be fenced and reclaimed, and no ended run can be   *)
(* written to with the token it once had.                                  *)
LeaseIffActive ==
  \A r \in Runs : status[r] \in ACTIVE_STATUSES <=> lease[r] # NoLease

(* A Runner executes at most one run at a time: a claim reclaims or waits  *)
(* for the Runner's other active run before it takes one from the queue.   *)
OneActiveRun ==
  \A r, x \in Runs :
    /\ status[r] \in ACTIVE_STATUSES /\ status[x] \in ACTIVE_STATUSES
    /\ owner[r] = owner[x]
    => r = x

(* A lease token names one run of its Runner for ever: a claim attempt id  *)
(* that was answered with a run is never answered with another, however    *)
(* late the Runner's retry of the claim arrives.                           *)
TokenNamesOneRun ==
  \A r, x \in Runs :
    /\ claimId[r] # NoLease /\ claimId[r] = claimId[x]
    /\ owner[r] = owner[x]
    => r = x

(* A live lease is always the one its claim handed out.                    *)
LeaseIsClaim ==
  \A r \in Runs : lease[r] # NoLease => lease[r] = claimId[r]

(* A run is handed out at most once: a run whose lease was lost is never   *)
(* put back in the queue, so no browser action of it is performed twice.   *)
QueuedNeverClaimed ==
  \A r \in Runs : status[r] \in {"ABSENT", "QUEUED"} => claimId[r] = NoLease

(* Revocation fences the device: no run of a revoked Runner is active.     *)
RevokedHoldsNothing ==
  \A r \in Runs : status[r] \in ACTIVE_STATUSES => owner[r] \notin revoked

(* The lease fences the queue: a run is handed out once, to a Runner with  *)
(* no other active run that was not revoked, and the token of that claim   *)
(* is the row's while the run is active and stands for no other run ever,  *)
(* however claims, late requests, revocations and reclaims interleave.     *)
ClaimsFenced ==
  /\ LeaseIffActive /\ OneActiveRun /\ TokenNamesOneRun
  /\ QueuedNeverClaimed /\ RevokedHoldsNothing

(* A failed, timed out or interrupted run raised exactly one operational   *)
(* alert, and no other run raised any, whichever of the handlers ended it. *)
OneAlertPerBadEnd ==
  \A r \in Runs : alerts[r] = IF status[r] \in NoteworthyStatuses THEN 1 ELSE 0

(* The audit trail never shows the end of a run that goes on, and never    *)
(* two ends of a run; it shows the end of every run that its Runner        *)
(* completed, that was cancelled in the queue or whose lease lapsed.       *)
EvidenceOfEnd ==
  \A r \in Runs :
    /\ evidence[r] \in 0..1
    /\ evidence[r] = 1 => Terminal(r)
    /\ Terminal(r) /\ evidence[r] = 0 =>
         cause[r] \in {"approval_expired", "repair_expired", "runner_revoked"}

(* Whoever ends a run, its end is alerted as often as it is a bad one and  *)
(* never recorded before it happened or twice.                             *)
EndsRecorded == OneAlertPerBadEnd /\ EvidenceOfEnd

(* An ended run that no expiry ended leaves no approval to decide: a       *)
(* decision made later could not be carried out any more.                  *)
ApprovalsSettled ==
  \A r \in Runs :
    Terminal(r) /\ cause[r] \notin {"approval_expired", "repair_expired"} =>
      \A s \in Steps : approval[r][s] # "PENDING"

(* The Runner's completion was accepted and describes the run.             *)
Accepted(r) == completed[r] /\ evidence[r] = 1

(* An accepted completion agrees with the human: a gate that was rejected, *)
(* or expired, was cancelled or invalidated, has its gated step skipped,   *)
(* and stays so whatever expiries are still in flight.                     *)
GateRespected ==
  \A r \in Runs, s \in Steps :
    Accepted(r) /\ approval[r][s] \in ResolvedApproval \ {"APPROVED"} =>
      step[r][s + 1] = "SKIPPED"

(* In an accepted completion a step's output exists exactly when the       *)
(* Extract step succeeded, and every step has ended.                       *)
AcceptedRunSettled ==
  \A r \in Runs : Accepted(r) =>
    \A s \in Steps :
      /\ step[r][s] \in TerminalStepStatus
      /\ output[r][s] <=> Workflow[s] = "extract" /\ step[r][s] = "SUCCEEDED"

(* A manual retry repeats an attempt only if a human was asked about it,   *)
(* the attempt had ended, and it had no side effect: the attempt before it *)
(* finished read-only or never started, on a step no approval gates.       *)
ManualRetryIsSafe ==
  \A r \in Runs, s \in Steps : \A n \in DOMAIN attempts[r][s] :
    attempts[r][s][n].trigger = "manual_retry" =>
      /\ n > 1
      /\ repair[r][s][n - 1] \in {"RETRY_APPROVED", "EXPIRED"}
      /\ attempts[r][s][n - 1].effect \in {"read_only", "not_started"}
      /\ ~isApprovalGatedStep(s)

(* A completion and a retry rest on what is on record: in a completion     *)
(* that was accepted every step has ended and has an output exactly if it  *)
(* is an Extract that succeeded, and a manual retry repeats only an        *)
(* attempt a human was asked about, that had ended and had no side effect. *)
RepairsAreSafe == AcceptedRunSettled /\ ManualRetryIsSafe

(* The outcome of an ended run never changes: no late request, expiry,     *)
(* revocation or close alters its status, cause, outputs or alerts.        *)
OutcomeFinal ==
  [][\A r \in Runs : Terminal(r) =>
       /\ status'[r] = status[r] /\ cause'[r] = cause[r]
       /\ output'[r] = output[r] /\ alerts'[r] = alerts[r]]_vars

(* A scheduled run of unknown effect paused its schedule by the time its   *)
(* occurrence closed, and an occurrence closes only after its run ended.   *)
AmbiguousEndPauses ==
  \A r \in Runs :
    occurrence[r] \notin {"NONE", "DISPATCHED"} =>
      /\ Terminal(r)
      /\ status[r] = "INTERRUPTED" => r \in autoPaused

(* An approval request has one outcome: of a decision, an expiry, a        *)
(* cancellation and an invalidation that race, the first to commit wins.   *)
ApprovalDecisionFinal ==
  [][\A r \in Runs, s \in Steps : approval[r][s] \in ResolvedApproval =>
       approval'[r][s] = approval[r][s]]_vars

(* Of a decision, an expiry and the end of the run that race for an        *)
(* approval request the first wins for good; an ended run that no expiry   *)
(* ended leaves none to decide, and an accepted completion has skipped     *)
(* every step whose gate was not approved.                                 *)
ApprovalsObeyed ==
  []ApprovalsSettled /\ []GateRespected /\ ApprovalDecisionFinal

(* Every terminal run has its terminal event in the audit trail.           *)
TerminalEvidence == \A r \in Runs : Terminal(r) => evidence[r] = 1

Phase(st) ==
  CASE st = "ABSENT" -> "absent"
    [] st = "QUEUED" -> "queued"
    [] st \in ACTIVE_STATUSES -> "held"
    [] OTHER -> "ended"

Lifecycle ==
  INSTANCE RunLifecycle WITH
    Tickets <- ClaimAttempts, NoTicket <- NoLease,
    phase <- [r \in Runs |-> Phase(status[r])],
    assigned <- owner, ticket <- claimId, barred <- revoked

(* The ledger implements the lifecycle: whatever handler moves a run, seen *)
(* from outside it is queued, handed out once to the Runner that lost all  *)
(* its other runs, and ended.                                              *)
ImplementsLifecycle == Lifecycle!Spec

(* A run whose Runner falls silent ends: the scheduler interrupts it       *)
(* (reconcileExpiredLeases).                                               *)
ActiveRunEnds(r) == status[r] \in ACTIVE_STATUSES ~> Terminal(r)

(* An approval nobody decides is resolved all the same (reconcileExpired). *)
ApprovalResolved(r, s) ==
  approval[r][s] = "PENDING" ~> approval[r][s] \in ResolvedApproval

=============================================================================
