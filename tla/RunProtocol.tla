----------------------------- MODULE RunProtocol -----------------------------
(***************************************************************************)
(* The vocabulary shared by the Control Plane and the Local Runner: the    *)
(* statuses of runs, steps, attempts and human requests, and the           *)
(* transition tables both sides validate against.                          *)
(*                                                                         *)
(* Upper-case statuses are the ones the Control Plane persists, lower-case *)
(* ones are the workflow engine's, exactly as in the source.               *)
(***************************************************************************)

-----------------------------------------------------------------------------
(* Persisted run statuses                                                  *)

ACTIVE_STATUSES ==
  {"CLAIMED", "RUNNING", "WAITING_FOR_APPROVAL", "WAITING_FOR_REPAIR",
   "CANCEL_REQUESTED"}

TERMINAL_STATUSES ==
  {"SUCCEEDED", "FAILED", "CANCELLED", "TIMED_OUT", "INTERRUPTED"}

WorkflowRunStatus == {"QUEUED"} \cup ACTIVE_STATUSES \cup TERMINAL_STATUSES

(* The transitions the protocol package declares for a run.                *)
RUN_TRANSITIONS ==
  [from \in WorkflowRunStatus |->
     CASE from = "QUEUED" -> {"CLAIMED", "CANCELLED"}
       [] from = "CLAIMED" ->
            (ACTIVE_STATUSES \ {"CLAIMED"}) \cup TERMINAL_STATUSES
       [] from = "RUNNING" ->
            (ACTIVE_STATUSES \ {"CLAIMED", "RUNNING"}) \cup TERMINAL_STATUSES
       [] from = "WAITING_FOR_APPROVAL" ->
            {"RUNNING", "CANCEL_REQUESTED"} \cup TERMINAL_STATUSES
       [] from = "WAITING_FOR_REPAIR" ->
            {"RUNNING", "CANCEL_REQUESTED"}
              \cup (TERMINAL_STATUSES \ {"SUCCEEDED"})
       [] from = "CANCEL_REQUESTED" -> TERMINAL_STATUSES
       [] OTHER -> {}]

canTransitionWorkflowRun(current, next) == next \in RUN_TRANSITIONS[current]

-----------------------------------------------------------------------------
(* Persisted step statuses                                                 *)

TerminalStepStatus ==
  {"SUCCEEDED", "FAILED", "CANCELLED", "TIMED_OUT", "SKIPPED", "INTERRUPTED"}

WaitingStepStatus == {"WAITING_FOR_APPROVAL", "WAITING_FOR_REPAIR"}

PersistedRunStepStatus ==
  {"PENDING", "RUNNING"} \cup WaitingStepStatus \cup TerminalStepStatus

STEP_TRANSITIONS ==
  [from \in PersistedRunStepStatus |->
     CASE from = "PENDING" -> {"RUNNING"} \cup TerminalStepStatus
       [] from = "RUNNING" ->
            WaitingStepStatus \cup (TerminalStepStatus \ {"SKIPPED"})
       [] from = "WAITING_FOR_APPROVAL" ->
            {"RUNNING"} \cup (TerminalStepStatus \ {"SKIPPED"})
       [] from = "WAITING_FOR_REPAIR" ->
            {"RUNNING"} \cup (TerminalStepStatus \ {"SKIPPED", "SUCCEEDED"})
       [] OTHER -> {}]

canTransitionRunStep(current, next) == next \in STEP_TRANSITIONS[current]

-----------------------------------------------------------------------------
(* Engine run and step statuses                                            *)

TerminalEngineRunStatus ==
  {"succeeded", "failed", "cancelled", "timed_out", "interrupted"}

EngineRunStatus ==
  {"pending", "validating", "starting", "running", "waiting_for_approval",
   "waiting_for_repair", "cancelling"} \cup TerminalEngineRunStatus

validRunTransitions ==
  [from \in EngineRunStatus |->
     CASE from = "pending" -> {"validating", "cancelling"}
       [] from = "validating" -> {"starting", "cancelling", "failed"}
       [] from = "starting" -> {"running", "cancelling", "failed", "timed_out"}
       [] from = "running" ->
            {"waiting_for_approval", "waiting_for_repair", "cancelling",
             "succeeded", "failed", "timed_out", "interrupted"}
       [] from \in {"waiting_for_approval", "waiting_for_repair"} ->
            {"running", "cancelling", "failed", "timed_out", "interrupted"}
       [] from = "cancelling" -> {"cancelled"}
       [] OTHER -> {}]

TerminalEngineStepStatus ==
  {"succeeded", "failed", "cancelled", "timed_out", "skipped", "interrupted"}

EngineStepStatus ==
  {"pending", "running", "waiting_for_approval", "waiting_for_repair"}
    \cup TerminalEngineStepStatus

validStepTransitions ==
  [from \in EngineStepStatus |->
     CASE from = "pending" -> {"running", "skipped"}
       [] from = "running" ->
            {"waiting_for_approval", "waiting_for_repair"}
              \cup (TerminalEngineStepStatus \ {"skipped"})
       [] from = "waiting_for_approval" ->
            TerminalEngineStepStatus \ {"skipped"}
       [] from = "waiting_for_repair" ->
            {"running"} \cup (TerminalEngineStepStatus \ {"skipped", "succeeded"})
       [] OTHER -> {}]

(* The Control Plane keeps the last engine status it accepted; before the  *)
(* first one ("none") only the initial "pending" is acceptable.            *)
validEngineRunTransition(current, next) ==
  IF current = "none" THEN next = "pending"
                      ELSE next \in validRunTransitions[current]

validEngineStepTransition(current, next) ==
  IF current = "none" THEN next = "pending"
                      ELSE next \in validStepTransitions[current]

(* The persisted spelling of an engine step or terminal run status.        *)
persistedStepStatus ==
  [st \in EngineStepStatus |->
     CASE st = "pending" -> "PENDING"
       [] st = "running" -> "RUNNING"
       [] st = "waiting_for_approval" -> "WAITING_FOR_APPROVAL"
       [] st = "waiting_for_repair" -> "WAITING_FOR_REPAIR"
       [] st = "succeeded" -> "SUCCEEDED"
       [] st = "failed" -> "FAILED"
       [] st = "cancelled" -> "CANCELLED"
       [] st = "timed_out" -> "TIMED_OUT"
       [] st = "skipped" -> "SKIPPED"
       [] st = "interrupted" -> "INTERRUPTED"]

persistedRunStatus ==
  [st \in TerminalEngineRunStatus |->
     CASE st = "succeeded" -> "SUCCEEDED"
       [] st = "failed" -> "FAILED"
       [] st = "cancelled" -> "CANCELLED"
       [] st = "timed_out" -> "TIMED_OUT"
       [] st = "interrupted" -> "INTERRUPTED"]

-----------------------------------------------------------------------------
(* Attempts and human requests. "NONE" stands for a row that does not      *)
(* exist.                                                                  *)

RetryTrigger == {"initial", "automatic_retry", "manual_retry"}

TerminalAttemptStatus ==
  {"succeeded", "failed", "cancelled", "timed_out", "interrupted"}

StepAttemptStatus == {"running"} \cup TerminalAttemptStatus

EffectCertainty ==
  {"not_started", "read_only", "side_effect_possible", "completed", "unknown"}

ResolvedApproval == {"APPROVED", "REJECTED", "EXPIRED", "CANCELLED", "INVALIDATED"}

ApprovalRequestStatus == {"NONE", "PENDING"} \cup ResolvedApproval

ResolvedRepair ==
  {"RETRY_APPROVED", "ABORTED", "EXPIRED", "CANCELLED", "INVALIDATED"}

RepairRequestStatus == {"NONE", "PENDING"} \cup ResolvedRepair

=============================================================================
