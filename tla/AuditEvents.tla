----------------------------- MODULE AuditEvents -----------------------------
(***************************************************************************)
(* The events of the audit trail: what every call site passes to           *)
(* appendAuditEventTransactional and which payloads the strict schema of   *)
(* the event's type takes.  appendAuditEvent throws AUDIT_EVENT_INVALID    *)
(* for any other payload, and the transaction it is part of, which is the  *)
(* operation itself, is rolled back.                                       *)
(*                                                                         *)
(* A payload is a function from its keys to the shape of the value:        *)
(*   "uuid", "digest", "count" (0 or more), "sequence" (1 or more), "bool" *)
(*   "iso"     an ISO timestamp, "date" a Date object, "null"              *)
(*   "member"  a member of the enumeration the field is typed with         *)
(*   "UPPER"   a code such as LEASE_EXPIRED, "lower" lease_expired         *)
(*   "camel"   a name such as setChecked or testId                         *)
(*   "free"    any other text, such as a step id with a space              *)
(***************************************************************************)
EXTENDS Naturals, TLC

VARIABLES
  outcome  \* of the last append: the call site and whether it was accepted

vars == <<outcome>>

\* The schemas of the fields.
UuidSchema == {"uuid"}
CountSchema == {"count", "sequence"}
SequenceSchema == {"sequence"}
DigestSchema == {"digest"}
SafeCodeSchema == {"UPPER"}
BoundedKindSchema == {"lower"}
StableIdSchema == {"uuid", "lower", "UPPER", "camel"}
AuditTimestampSchema == {"iso"}
Member == {"member"}
Text == {"lower", "UPPER", "camel", "free"}

\* The schema of an event type: its keys with the shapes they take, and the
\* keys that may be left out.  All are strict: no other key is taken.
Schema(keys, optional) == [keys |-> keys, optional |-> optional]

VersionKeys == [workflowId |-> StableIdSchema,
                workflowVersionId |-> UuidSchema,
                version |-> SequenceSchema, revision |-> SequenceSchema]

WorkflowVersionTransitionPayloadSchema == Schema(VersionKeys, {})

WorkflowSchema(type) ==
  CASE type = "workflow_version.created" ->
         Schema(VersionKeys @@ [sourceVersionId |-> UuidSchema,
                                   schemaVersion |-> SequenceSchema],
                {"sourceVersionId"})
    [] type = "workflow_draft.updated" ->
         Schema(VersionKeys @@ [stepCount |-> CountSchema], {})
    [] type = "workflow_version.published" ->
         Schema(VersionKeys @@ [workflowDigest |-> DigestSchema,
                                   replacedVersionId |-> UuidSchema],
                {"replacedVersionId"})
    [] type = "workflow_version.archived" ->
         Schema(VersionKeys @@ [reason |-> Member], {})
    [] OTHER -> WorkflowVersionTransitionPayloadSchema

PolicyKeys == [policyVersionId |-> UuidSchema, revision |-> SequenceSchema,
               policyDigest |-> DigestSchema]

PolicySchema(type) ==
  IF type = "policy_version.archived"
  THEN Schema(PolicyKeys @@ [reason |-> Member], {})
  ELSE Schema(PolicyKeys @@ [previousPolicyVersionId |-> UuidSchema],
              {"previousPolicyVersionId"})

Run == [workflowRunId |-> UuidSchema]

RunSchema(type) ==
  CASE type = "workflow_run.created" ->
         Schema(Run @@ [workflowId |-> StableIdSchema,
                           workflowVersionId |-> UuidSchema,
                           runnerDeviceId |-> UuidSchema,
                           workflowDigest |-> DigestSchema,
                           policyVersionId |-> UuidSchema,
                           policyDigest |-> DigestSchema], {})
    [] type = "workflow_run.claimed" ->
         Schema(Run @@ [runnerDeviceId |-> UuidSchema,
                           claimAttemptId |-> UuidSchema,
                           leaseExpiresAt |-> AuditTimestampSchema], {})
    [] type = "workflow_run.started" ->
         Schema(Run @@ [startedAt |-> AuditTimestampSchema], {})
    [] type = "workflow_run.cancel_requested" ->
         Schema(Run @@ [requestedAt |-> AuditTimestampSchema], {})
    [] type = "workflow_run.waiting" ->
         Schema(Run @@ [stepId |-> StableIdSchema,
                           stepIndex |-> CountSchema,
                           attemptNumber |-> SequenceSchema],
                {"attemptNumber"})
    [] OTHER ->
         Schema(Run @@ [terminalStatus |-> Member,
                           terminationCause |-> SafeCodeSchema,
                           finishedAt |-> AuditTimestampSchema,
                           engineResultDigest |-> DigestSchema,
                           durationMs |-> CountSchema,
                           stepCount |-> CountSchema,
                           producedOutputCount |-> CountSchema],
                {"terminationCause", "engineResultDigest", "durationMs"})

AttemptKeys == [workflowRunId |-> UuidSchema, runStepAttemptId |-> UuidSchema,
                stepId |-> StableIdSchema, stepIndex |-> CountSchema,
                stepType |-> BoundedKindSchema,
                attemptNumber |-> SequenceSchema, trigger |-> Member,
                effectCertainty |-> Member]

ExecutionSchema(type) ==
  CASE type = "execution.attempt_started" ->
         Schema(AttemptKeys @@ [authorizedByRepairRequestId |-> UuidSchema],
                {"authorizedByRepairRequestId"})
    [] type = "execution.attempt_terminal" ->
         Schema(AttemptKeys @@ [attemptStatus |-> Member,
                                   safeErrorCode |-> SafeCodeSchema,
                                   durationMs |-> CountSchema],
                {"safeErrorCode", "durationMs"})
    [] type = "execution.verification_completed" ->
         Schema(Run @@ [stepId |-> StableIdSchema,
                           stepIndex |-> CountSchema,
                           verificationSequence |-> SequenceSchema,
                           verificationKind |-> BoundedKindSchema,
                           outcome |-> Member,
                           attemptCount |-> SequenceSchema], {})
    [] OTHER ->
         Schema(Run @@ [outputName |-> StableIdSchema,
                           outputType |-> Member,
                           producerStepId |-> StableIdSchema,
                           producerStepIndex |-> CountSchema], {})

\* Approvals and repairs have the same three events.
RequestSchema(id, type, request) ==
  CASE type = "requested" ->
         Schema(Run @@ request @@ [requestedAt |-> AuditTimestampSchema,
                      expiresAt |-> AuditTimestampSchema] @@ id, {})
    [] type = "decided" ->
         Schema(Run @@ [decision |-> Member,
                           decidedByUserId |-> UuidSchema,
                           resolvedAt |-> AuditTimestampSchema] @@ id, {})
    [] OTHER ->
         Schema(Run @@ [reason |-> Member,
                           resolvedAt |-> AuditTimestampSchema] @@ id, {})

ApprovalSchema(type) ==
  RequestSchema([approvalRequestId |-> UuidSchema], type,
                [approvalStepId |-> StableIdSchema,
                 gatedStepId |-> StableIdSchema, riskLevel |-> Member])

RepairSchema(type) ==
  RequestSchema([repairRequestId |-> UuidSchema], type,
                [stepId |-> StableIdSchema, stepIndex |-> CountSchema,
                 attemptNumber |-> SequenceSchema,
                 safeErrorCode |-> SafeCodeSchema,
                 effectCertainty |-> Member, retryAllowed |-> {"bool"}])

ProposalKeys == [proposalId |-> UuidSchema]

LocatorSchema(type) ==
  CASE type = "locator_repair.proposal_created" ->
         Schema(ProposalKeys @@ [workflowRunId |-> UuidSchema,
                      stepId |-> StableIdSchema, stepIndex |-> CountSchema,
                      failedAttemptNumber |-> SequenceSchema,
                      candidateCount |-> CountSchema], {})
    [] type = "locator_repair.candidate_tested" ->
         Schema(ProposalKeys @@ [candidateId |-> UuidSchema,
                      candidateRank |-> SequenceSchema,
                      candidateStrategy |-> BoundedKindSchema,
                      candidateConfidence |-> Member, testStatus |-> Member,
                      evidenceCodeCount |-> CountSchema,
                      testedAt |-> AuditTimestampSchema], {"testedAt"})
    [] type = "locator_repair.applied_to_draft" ->
         Schema(ProposalKeys @@ [candidateId |-> UuidSchema,
                      workflowRunId |-> UuidSchema,
                      stepId |-> StableIdSchema, stepIndex |-> CountSchema,
                      targetDraftVersionId |-> UuidSchema,
                      previousRevision |-> SequenceSchema,
                      newRevision |-> SequenceSchema,
                      appliedAt |-> AuditTimestampSchema], {})
    [] OTHER ->
         Schema(ProposalKeys @@ [workflowRunId |-> UuidSchema,
                      reason |-> Member,
                      dismissedAt |-> AuditTimestampSchema], {})

ScheduleKeys == [scheduleId |-> UuidSchema]

ScheduleSchema(type) ==
  CASE type = "schedule.created" ->
         Schema(ScheduleKeys @@ [workflowId |-> StableIdSchema,
                      workflowVersionId |-> UuidSchema,
                      runnerDeviceId |-> UuidSchema,
                      scheduleName |-> Text, scheduleType |-> Member,
                      timezone |-> Text, scheduleDigest |-> DigestSchema,
                      workflowDigest |-> DigestSchema,
                      policyVersionId |-> UuidSchema,
                      policyDigest |-> DigestSchema,
                      nextOccurrenceAt |-> AuditTimestampSchema \cup {"null"},
                      maxStartDelaySeconds |-> SequenceSchema], {})
    [] type = "schedule.paused" ->
         Schema(ScheduleKeys @@ [pausedAt |-> AuditTimestampSchema], {})
    [] type = "schedule.resumed" ->
         Schema(ScheduleKeys @@ [resumedAt |-> AuditTimestampSchema,
                      nextOccurrenceAt |-> AuditTimestampSchema], {})
    [] type = "schedule.archived" ->
         Schema(ScheduleKeys @@ [archivedAt |-> AuditTimestampSchema], {})
    [] OTHER ->
         Schema(ScheduleKeys @@ [reason |-> Member,
                      autoPausedAt |-> AuditTimestampSchema,
                      triggeringOccurrenceId |-> UuidSchema],
                {"triggeringOccurrenceId"})

OccurrenceKeys == [scheduleId |-> UuidSchema, occurrenceId |-> UuidSchema]

OccurrenceSchema(type) ==
  CASE type = "schedule.occurrence.dispatched" ->
         Schema(OccurrenceKeys @@ [workflowRunId |-> UuidSchema,
                      scheduledFor |-> AuditTimestampSchema,
                      startDeadlineAt |-> AuditTimestampSchema], {})
    [] type = "schedule.occurrence.skipped" ->
         Schema(OccurrenceKeys @@ [scheduledFor |-> AuditTimestampSchema,
                      skipReason |-> Member,
                      skippedAt |-> AuditTimestampSchema], {})
    [] type = "schedule.occurrence.start_window_expired" ->
         Schema(OccurrenceKeys @@ [workflowRunId |-> UuidSchema,
                      scheduledFor |-> AuditTimestampSchema,
                      startDeadlineAt |-> AuditTimestampSchema,
                      expiredAt |-> AuditTimestampSchema], {})
    [] OTHER -> Schema(OccurrenceKeys @@ [workflowRunId |-> UuidSchema],
                       {})

\* The three notification events share their keys.
NotificationSchema ==
  Schema([alertId |-> UuidSchema, alertType |-> Member, severity |-> Member,
          sourceType |-> Member, sourceId |-> StableIdSchema,
          recipientCount |-> CountSchema], {})

Device == [runnerDeviceId |-> UuidSchema]
OrNull(shapes) == shapes \cup {"null"}

RunnerSchema(type) ==
  CASE type = "runner.secret_inventory.updated" ->
         Schema(Device @@ [previousRevision |-> CountSchema,
                              newRevision |-> SequenceSchema,
                              configuredSecretCount |-> CountSchema,
                              inventoryDigest |-> DigestSchema], {})
    [] type = "runner.software_version.changed" ->
         Schema(Device @@ [previousVersion |-> Text, newVersion |-> Text,
                              runnerProtocolVersion |-> OrNull(SequenceSchema),
                              localStateSchemaVersion |->
                                OrNull(SequenceSchema)], {})
    [] type = "runner.runtime_mode.changed" ->
         Schema(Device @@ [previousRuntimeMode |-> OrNull(Member),
                              runtimeMode |-> Member,
                              previousAutonomyLevel |-> OrNull(Member),
                              autonomyLevel |-> Member,
                              serviceStatus |-> Member], {})
    [] OTHER ->
         Schema(Device @@ [previousUnlockMode |-> OrNull(Member),
                              unlockMode |-> Member], {})

RolloutSchema(type) ==
  CASE type = "runner.rollout.created" ->
         Schema([rolloutId |-> UuidSchema, targetReleaseId |-> UuidSchema,
                 stageCount |-> CountSchema,
                 assignmentCount |-> CountSchema], {})
    [] type = "runner.rollout.status" ->
         Schema([rolloutId |-> UuidSchema, status |-> Member,
                 reason |-> Member, changedAt |-> AuditTimestampSchema],
                {"reason"})
    [] type = "runner.rollout.stage.activated" ->
         Schema([rolloutId |-> UuidSchema, stageId |-> UuidSchema,
                 stageNumber |-> SequenceSchema,
                 targetReleaseId |-> UuidSchema,
                 assignmentCount |-> CountSchema], {})
    [] OTHER ->
         Schema([rolloutId |-> UuidSchema, stageId |-> UuidSchema,
                 assignmentId |-> UuidSchema, runnerDeviceId |-> UuidSchema,
                 stageNumber |-> SequenceSchema,
                 observedAt |-> AuditTimestampSchema], {})

\* parseAuditPayload.
parseAuditPayload(schema, payload) ==
  /\ DOMAIN payload \subseteq DOMAIN schema.keys
  /\ DOMAIN schema.keys \ schema.optional \subseteq DOMAIN payload
  /\ \A k \in DOMAIN payload : payload[k] \in schema.keys[k]
-----------------------------------------------------------------------------
\* The call sites.  An event is the site, the schema of its type and the
\* payload passed.
Event(site, schema, payload) ==
  [site |-> site, schema |-> schema, payload |-> payload]

\* What a step of a workflow may bring: an id (NonEmptyStringSchema), a type
\* (setChecked is the one that is not lower case), the name of an output
\* (an identifier) and the source of a locator (testId, stableId and
\* stableName are not lower case).
StepIds == {"lower", "free"}
StepTypes == {"lower", "camel"}
OutputNames == {"lower", "camel", "free"}
LocatorSources == {"lower", "camel"}

toUpperCase(shape) == IF shape \in {"lower", "camel"} THEN "UPPER" ELSE shape

\* payload with key, when present.
Given(present, key, shape) == IF present THEN key :> shape ELSE <<>>

VersionPayload == [workflowId |-> "uuid", workflowVersionId |-> "uuid",
                   version |-> "sequence", revision |-> "sequence"]

buildWorkflowVersionTransitionInput ==
  Event("submitForTesting", WorkflowSchema("workflow_version.transition"),
        VersionPayload)

buildWorkflowVersionCreatedInput ==
  Event("createDraft", WorkflowSchema("workflow_version.created"),
        VersionPayload @@ [sourceVersionId |-> "uuid",
                           schemaVersion |-> "sequence"])

buildWorkflowVersionPublishedInput(replaced) ==
  Event("publish", WorkflowSchema("workflow_version.published"),
        VersionPayload @@ [workflowDigest |-> "digest"]
          @@ Given(replaced, "replacedVersionId", "uuid"))

buildWorkflowVersionArchivedInput ==
  Event("archive", WorkflowSchema("workflow_version.archived"),
        VersionPayload @@ [reason |-> "member"])

buildWorkflowDraftUpdatedInput ==
  Event("updateDraft", WorkflowSchema("workflow_draft.updated"),
        VersionPayload @@ [stepCount |-> "count"])

PolicyPayload == [policyVersionId |-> "uuid", revision |-> "sequence",
                  policyDigest |-> "digest"]

buildPolicyArchivedInput ==
  Event("createPolicy", PolicySchema("policy_version.archived"),
        PolicyPayload @@ [reason |-> "member"])

buildPolicyActivatedInput(previous) ==
  Event("createPolicy", PolicySchema("policy_version.activated"),
        PolicyPayload @@ Given(previous, "previousPolicyVersionId", "uuid"))

RunPayload == [workflowRunId |-> "uuid"]

buildRunCreatedInput ==
  Event("createRun", RunSchema("workflow_run.created"),
        RunPayload @@ [workflowId |-> "uuid", workflowVersionId |-> "uuid",
                       runnerDeviceId |-> "uuid", workflowDigest |-> "digest",
                       policyVersionId |-> "uuid", policyDigest |-> "digest"])

buildScheduledRunCreatedInput ==
  [buildRunCreatedInput EXCEPT !.site = "processOccurrence"]

buildRunClaimedInput ==
  Event("claim", RunSchema("workflow_run.claimed"),
        RunPayload @@ [runnerDeviceId |-> "uuid", claimAttemptId |-> "uuid",
                       leaseExpiresAt |-> "iso"])

buildRunStartedInput ==
  Event("progress", RunSchema("workflow_run.started"),
        RunPayload @@ [startedAt |-> "iso"])

buildWaitingForApprovalInput(stepId) ==
  Event("progress", RunSchema("workflow_run.waiting"),
        RunPayload @@ [stepId |-> stepId, stepIndex |-> "count"])

buildWaitingForRepairInput(stepId) ==
  Event("progress", RunSchema("workflow_run.waiting"),
        RunPayload @@ [stepId |-> stepId, stepIndex |-> "count",
                       attemptNumber |-> "sequence"])

buildRunCancelRequestedInput ==
  Event("cancel", RunSchema("workflow_run.cancel_requested"),
        RunPayload @@ [requestedAt |-> "iso"])

TerminalPayload == RunPayload @@ [terminalStatus |-> "member",
                                  finishedAt |-> "iso", stepCount |-> "count",
                                  producedOutputCount |-> "count"]

\* The cause of the engine's result is written in lower case and raised.

\* Mutant: the cause is recorded as the engine writes it.
CausePassedOn(site, cause, digest) ==
  Event(site, RunSchema("workflow_run.terminal"),
        TerminalPayload @@ [terminationCause |-> cause]
          @@ Given(digest, "engineResultDigest", "digest")
          @@ Given(digest, "durationMs", "count"))

buildRunTerminalInput(site, cause, digest) ==
  Event(site, RunSchema("workflow_run.terminal"),
        TerminalPayload @@ [terminationCause |-> toUpperCase(cause)]
          @@ Given(digest, "engineResultDigest", "digest")
          @@ Given(digest, "durationMs", "count"))

buildRunInterruptedInput ==
  Event("expireLease", RunSchema("workflow_run.terminal"),
        TerminalPayload @@ [terminationCause |-> "UPPER"])

\* reconcileTimedOutOccurrences writes its own terminal event.
StartWindowTerminalInput ==
  Event("reconcileTimedOutOccurrences", RunSchema("workflow_run.terminal"),
        TerminalPayload @@ [terminationCause |-> "lower"])

AttemptPayload(stepId, stepType) ==
  RunPayload @@ [runStepAttemptId |-> "uuid", stepId |-> stepId,
                 stepIndex |-> "count", stepType |-> stepType,
                 attemptNumber |-> "sequence", trigger |-> "member",
                 effectCertainty |-> "member"]

buildAttemptStartedInput(stepId, stepType, repair) ==
  Event("progress", ExecutionSchema("execution.attempt_started"),
        AttemptPayload(stepId, stepType)
          @@ Given(repair, "authorizedByRepairRequestId", "uuid"))

buildAttemptTerminalInput(stepId, stepType, failed) ==
  Event("progress", ExecutionSchema("execution.attempt_terminal"),
        AttemptPayload(stepId, stepType)
          @@ [attemptStatus |-> "member", durationMs |-> "count"]
          @@ Given(failed, "safeErrorCode", "UPPER"))

buildVerificationCompletedInput(stepId) ==
  Event("complete", ExecutionSchema("execution.verification_completed"),
        RunPayload @@ [stepId |-> stepId, stepIndex |-> "count",
                       verificationSequence |-> "sequence",
                       verificationKind |-> "lower", outcome |-> "member",
                       attemptCount |-> "sequence"])

buildOutputProducedInput(name, stepId) ==
  Event("progress", ExecutionSchema("execution.output_produced"),
        RunPayload @@ [outputName |-> name, outputType |-> "member",
                       producerStepId |-> stepId,
                       producerStepIndex |-> "count"])

buildApprovalRequestedInput(stepId) ==
  Event("requestApproval", ApprovalSchema("requested"),
        RunPayload @@ [approvalRequestId |-> "uuid",
                       approvalStepId |-> stepId, gatedStepId |-> stepId,
                       riskLevel |-> "member", requestedAt |-> "iso",
                       expiresAt |-> "iso"])

buildApprovalDecidedInput ==
  Event("decideApproval", ApprovalSchema("decided"),
        RunPayload @@ [approvalRequestId |-> "uuid", decision |-> "member",
                       decidedByUserId |-> "uuid", resolvedAt |-> "iso"])

buildApprovalLifecycleInput ==
  Event("expireApproval", ApprovalSchema("lifecycle"),
        RunPayload @@ [approvalRequestId |-> "uuid", reason |-> "member",
                       resolvedAt |-> "iso"])

buildRepairRequestedInput(stepId) ==
  Event("requestRepair", RepairSchema("requested"),
        RunPayload @@ [repairRequestId |-> "uuid", stepId |-> stepId,
                       stepIndex |-> "count", attemptNumber |-> "sequence",
                       safeErrorCode |-> "UPPER",
                       effectCertainty |-> "member", retryAllowed |-> "bool",
                       requestedAt |-> "iso", expiresAt |-> "iso"])

buildRepairDecidedInput ==
  Event("decideRepair", RepairSchema("decided"),
        RunPayload @@ [repairRequestId |-> "uuid", decision |-> "member",
                       decidedByUserId |-> "uuid", resolvedAt |-> "iso"])

buildRepairLifecycleInput ==
  Event("expireRepair", RepairSchema("lifecycle"),
        RunPayload @@ [repairRequestId |-> "uuid", reason |-> "member",
                       resolvedAt |-> "iso"])

buildLocatorRepairProposalCreatedInput(stepId) ==
  Event("createProposal", LocatorSchema("locator_repair.proposal_created"),
        RunPayload @@ [proposalId |-> "uuid", stepId |-> stepId,
                       stepIndex |-> "count",
                       failedAttemptNumber |-> "sequence",
                       candidateCount |-> "count"])

buildLocatorRepairCandidateTestedInput(source) ==
  Event("submitTestResult", LocatorSchema("locator_repair.candidate_tested"),
        [proposalId |-> "uuid", candidateId |-> "uuid",
         candidateRank |-> "sequence", candidateStrategy |-> source,
         candidateConfidence |-> "member", testStatus |-> "member",
         evidenceCodeCount |-> "count", testedAt |-> "iso"])

buildLocatorRepairAppliedInput(stepId) ==
  Event("applyCandidate", LocatorSchema("locator_repair.applied_to_draft"),
        RunPayload @@ [proposalId |-> "uuid", candidateId |-> "uuid",
                       stepId |-> stepId, stepIndex |-> "count",
                       targetDraftVersionId |-> "uuid",
                       previousRevision |-> "sequence",
                       newRevision |-> "sequence", appliedAt |-> "iso"])

buildLocatorRepairDismissedInput ==
  Event("dismissProposal", LocatorSchema("locator_repair.dismissed"),
        RunPayload @@ [proposalId |-> "uuid", reason |-> "member",
                       dismissedAt |-> "iso"])

toIsoString(date) == IF date = "date" THEN "iso" ELSE date

SchedulePayload == [scheduleId |-> "uuid"]

buildScheduleCreatedInput(next) ==
  Event("createSchedule", ScheduleSchema("schedule.created"),
        SchedulePayload @@
          [workflowId |-> "uuid", workflowVersionId |-> "uuid",
           runnerDeviceId |-> "uuid", scheduleName |-> "free",
           scheduleType |-> "member", timezone |-> "free",
           scheduleDigest |-> "digest", workflowDigest |-> "digest",
           policyVersionId |-> "uuid", policyDigest |-> "digest",
           nextOccurrenceAt |-> IF next THEN toIsoString("date") ELSE "null",
           maxStartDelaySeconds |-> "sequence"])

buildSchedulePausedInput ==
  Event("pauseSchedule", ScheduleSchema("schedule.paused"),
        SchedulePayload @@ [pausedAt |-> toIsoString("date")])

\* A schedule that resumes without a next occurrence names the epoch.
buildScheduleResumedInput(next) ==
  Event("resumeSchedule", ScheduleSchema("schedule.resumed"),
        SchedulePayload @@ [resumedAt |-> toIsoString("date"),
                            nextOccurrenceAt |-> toIsoString("date")])

buildScheduleArchivedInput ==
  Event("archiveSchedule", ScheduleSchema("schedule.archived"),
        SchedulePayload @@ [archivedAt |-> toIsoString("date")])

buildScheduleAutoPausedInput ==
  Event("processOccurrence", ScheduleSchema("schedule.auto_paused"),
        SchedulePayload @@ [reason |-> "member",
                            autoPausedAt |-> toIsoString("date"),
                            triggeringOccurrenceId |-> "uuid"])

OccurrencePayload == SchedulePayload @@ [occurrenceId |-> "uuid"]

buildOccurrenceDispatchedInput ==
  Event("processOccurrence",
        OccurrenceSchema("schedule.occurrence.dispatched"),
        OccurrencePayload @@ RunPayload @@
          [scheduledFor |-> toIsoString("date"),
           startDeadlineAt |-> toIsoString("date")])

buildOccurrenceSkippedInput ==
  Event("processOccurrence", OccurrenceSchema("schedule.occurrence.skipped"),
        OccurrencePayload @@ [scheduledFor |-> toIsoString("date"),
                              skipReason |-> "member",
                              skippedAt |-> toIsoString("date")])

buildOccurrenceStartWindowExpiredInput ==
  Event("reconcileTimedOutOccurrences",
        OccurrenceSchema("schedule.occurrence.start_window_expired"),
        OccurrencePayload @@ RunPayload @@
          [scheduledFor |-> toIsoString("date"),
           startDeadlineAt |-> toIsoString("date"),
           expiredAt |-> toIsoString("date")])

buildOccurrenceSucceededInput ==
  Event("handleRunCompletion",
        OccurrenceSchema("schedule.occurrence.succeeded"),
        OccurrencePayload @@ RunPayload)

\* The claim of a scheduled run whose secrets changed passes its dates as
\* they are.
ClaimSkippedInput ==
  Event("claimStaleSecrets", OccurrenceSchema("schedule.occurrence.skipped"),
        OccurrencePayload @@ [scheduledFor |-> "date",
                              skipReason |-> "member",
                              skippedAt |-> "date"])

ClaimAutoPausedInput(occurrence) ==
  Event("claimStaleSecrets", ScheduleSchema("schedule.auto_paused"),
        SchedulePayload @@ [reason |-> "member", autoPausedAt |-> "date"]
          @@ Given(occurrence, "triggeringOccurrenceId", "uuid"))

AlertInput ==
  Event("alert", NotificationSchema,
        [alertId |-> "uuid", alertType |-> "member", severity |-> "member",
         sourceType |-> "member", sourceId |-> "uuid",
         recipientCount |-> "count"])

SecretInventoryInput ==
  Event("syncInventory", RunnerSchema("runner.secret_inventory.updated"),
        [runnerDeviceId |-> "uuid", previousRevision |-> "count",
         newRevision |-> "sequence", configuredSecretCount |-> "count",
         inventoryDigest |-> "digest"])

SoftwareVersionInput(reported) ==
  Event("heartbeat", RunnerSchema("runner.software_version.changed"),
        [runnerDeviceId |-> "uuid", previousVersion |-> "free",
         newVersion |-> "free",
         runnerProtocolVersion |-> IF reported THEN "sequence" ELSE "null",
         localStateSchemaVersion |-> IF reported THEN "sequence"
                                     ELSE "null"])

RuntimeModeInput(first) ==
  LET before == IF first THEN "null" ELSE "member" IN
  Event("heartbeat", RunnerSchema("runner.runtime_mode.changed"),
        [runnerDeviceId |-> "uuid", previousRuntimeMode |-> before,
         runtimeMode |-> "member", previousAutonomyLevel |-> before,
         autonomyLevel |-> "member", serviceStatus |-> "member"])

SecretProtectorInput(first) ==
  Event("heartbeat", RunnerSchema("runner.secret_protector.changed"),
        [runnerDeviceId |-> "uuid",
         previousUnlockMode |-> IF first THEN "null" ELSE "member",
         unlockMode |-> "member"])

RolloutCreatedInput ==
  Event("createRollout", RolloutSchema("runner.rollout.created"),
        [rolloutId |-> "uuid", targetReleaseId |-> "uuid",
         stageCount |-> "count", assignmentCount |-> "count"])

\* Activation, pause and cancellation of a rollout, and the pause of the
\* rollouts of a release that is blocked.
RolloutStatusInput(site, reason) ==
  Event(site, RolloutSchema("runner.rollout.status"),
        [rolloutId |-> "uuid", status |-> "member", changedAt |-> "date"]
          @@ Given(reason, "reason", "member"))

BlockedRolloutInput ==
  Event("blockRelease", RolloutSchema("runner.rollout.status"),
        [rolloutId |-> "uuid", status |-> "member", reason |-> "member",
         changedAt |-> "date"])

StageActivatedInput ==
  Event("activateStage", RolloutSchema("runner.rollout.stage.activated"),
        [rolloutId |-> "uuid", stageId |-> "uuid", stageNumber |-> "sequence",
         targetReleaseId |-> "uuid", assignmentCount |-> "count"])

AssignmentPayload ==
  [rolloutId |-> "uuid", stageId |-> "uuid", assignmentId |-> "uuid",
   runnerDeviceId |-> "uuid", stageNumber |-> "sequence",
   observedAt |-> "date"]

ConvergedInput ==
  Event("observeConverged", RolloutSchema("runner.rollout.assignment"),
        AssignmentPayload)

RolledBackInput ==
  Event("observeRolledBack", RolloutSchema("runner.rollout.assignment"),
        AssignmentPayload)
-----------------------------------------------------------------------------
\* Every event some call site can pass.
RunEvents ==
  UNION {
    {buildRunCreatedInput, buildScheduledRunCreatedInput,
     buildRunClaimedInput, buildRunStartedInput,
     buildRunCancelRequestedInput, buildRunInterruptedInput,
     StartWindowTerminalInput},
    {buildRunTerminalInput(s, c, d) :
       s \in {"complete", "claim", "cancel"}, c \in {"lower", "UPPER"},
       d \in BOOLEAN},
    {buildWaitingForApprovalInput(i) : i \in StepIds},
    {buildWaitingForRepairInput(i) : i \in StepIds},
    {buildAttemptStartedInput(i, t, r) :
       i \in StepIds, t \in StepTypes, r \in BOOLEAN},
    {buildAttemptTerminalInput(i, t, f) :
       i \in StepIds, t \in StepTypes, f \in BOOLEAN},
    {buildVerificationCompletedInput(i) : i \in StepIds},
    {buildOutputProducedInput(n, i) : n \in OutputNames, i \in StepIds}}

RequestEvents ==
  UNION {
    {buildApprovalRequestedInput(i) : i \in StepIds},
    {buildApprovalDecidedInput, buildApprovalLifecycleInput,
     buildRepairDecidedInput, buildRepairLifecycleInput,
     buildLocatorRepairDismissedInput},
    {buildRepairRequestedInput(i) : i \in StepIds},
    {buildLocatorRepairProposalCreatedInput(i) : i \in StepIds},
    {buildLocatorRepairCandidateTestedInput(s) : s \in LocatorSources},
    {buildLocatorRepairAppliedInput(i) : i \in StepIds}}

WorkspaceEvents ==
  UNION {
    {buildWorkflowVersionTransitionInput, buildWorkflowVersionCreatedInput,
     buildWorkflowVersionArchivedInput, buildWorkflowDraftUpdatedInput,
     buildPolicyArchivedInput, buildSchedulePausedInput,
     buildScheduleArchivedInput, buildScheduleAutoPausedInput,
     buildOccurrenceDispatchedInput, buildOccurrenceSkippedInput,
     buildOccurrenceStartWindowExpiredInput, buildOccurrenceSucceededInput,
     ClaimSkippedInput, AlertInput, SecretInventoryInput,
     RolloutCreatedInput, BlockedRolloutInput, StageActivatedInput,
     ConvergedInput, RolledBackInput,
     RolloutStatusInput("activateRollout", FALSE),
     RolloutStatusInput("pauseRollout", TRUE),
     RolloutStatusInput("cancelRollout", TRUE)},
    UNION {{buildWorkflowVersionPublishedInput(b),
            buildPolicyActivatedInput(b), buildScheduleCreatedInput(b),
            buildScheduleResumedInput(b), ClaimAutoPausedInput(b),
            SoftwareVersionInput(b), RuntimeModeInput(b),
            SecretProtectorInput(b)} : b \in BOOLEAN}}

Events == RunEvents \cup RequestEvents \cup WorkspaceEvents

Init == outcome = [site |-> "none", accepted |-> TRUE, plain |-> TRUE]

\* A payload all of whose texts are plain: no camel case, no free text in
\* an identifier.
Plain(payload) ==
  \A k \in DOMAIN payload \ {"scheduleName", "timezone", "previousVersion",
                             "newVersion"} :
    payload[k] \notin {"camel", "free"}

appendAuditEventTransactional(e) ==
  outcome' = [site |-> e.site,
              accepted |-> parseAuditPayload(e.schema, e.payload),
              plain |-> Plain(e.payload)]

Next == \E e \in Events : appendAuditEventTransactional(e)

Spec == Init /\ [][Next]_vars
-----------------------------------------------------------------------------
\* The operations whose transaction the schemas refuse, whatever the
\* workflow: their call sites pass a Date or a lower case code, as the comment
\* of AuditEventInput tells them they may ("Callers pass raw values (Date,
\* etc.)").
RefusedOperations ==
  {"reconcileTimedOutOccurrences", "claimStaleSecrets", "activateRollout",
   "pauseRollout", "cancelRollout", "blockRelease", "observeConverged",
   "observeRolledBack"}

TypeOK == outcome.accepted \in BOOLEAN /\ outcome.plain \in BOOLEAN

\* But for the eight RefusedOperations, every operation's event fits its
\* schema for a workflow whose step ids, step types, output names and locator
\* sources are plain: no combination of optional fields makes the transaction
\* roll back.
OnlyTheseAreRefused ==
  ~outcome.accepted /\ outcome.plain => outcome.site \in RefusedOperations
=============================================================================
