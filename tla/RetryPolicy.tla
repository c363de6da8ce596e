----------------------------- MODULE RetryPolicy -----------------------------
(***************************************************************************)
(* The recovery package: how a failed step attempt is classified and       *)
(* whether it may be retried. The Local Runner's engine evaluates          *)
(* decideRetry when an attempt fails, and the Control Plane evaluates the  *)
(* same function again on what it persisted before it opens a repair       *)
(* request.                                                                *)
(***************************************************************************)
EXTENDS Naturals, RunProtocol

MAX_AUTOMATIC_RETRIES == 1
MAX_MANUAL_RETRIES == 1
MAX_TOTAL_ATTEMPTS == 3

StepType ==
  {"navigate", "click", "fill", "select", "setChecked", "wait", "extract",
   "verify", "approval"}

RecoveryMode ==
  {"automatic_safe_only", "automatic_safe_and_manual",
   "automatic_safe_and_locator_proposals"}

VALIDATION_ERRORS ==
  {"INVALID_EXECUTION_REQUEST", "INVALID_WORKFLOW", "INVALID_RUNTIME_INPUTS",
   "INVALID_EXECUTION_TIMEOUT", "UNSUPPORTED_STEP_TYPE", "UNSUPPORTED_LOCATOR",
   "UNSUPPORTED_ROLE", "VERIFICATION_RULE_INVALID",
   "VERIFICATION_EXPECTATION_INVALID", "VERIFICATION_TARGET_UNSUPPORTED",
   "EXTRACTION_TARGET_UNSUPPORTED"}

POLICY_ERRORS ==
  {"SECRET_RESOLUTION_UNAVAILABLE", "INVALID_NAVIGATION_URL",
   "UNSAFE_URL_SCHEME", "ORIGIN_NOT_ALLOWED",
   "POST_NAVIGATION_ORIGIN_NOT_ALLOWED"}

APPROVAL_ERRORS ==
  {"APPROVAL_COORDINATOR_UNAVAILABLE", "APPROVAL_BINDING_INVALID",
   "APPROVAL_REQUEST_FAILED", "APPROVAL_REJECTED", "APPROVAL_EXPIRED",
   "APPROVAL_INVALIDATED"}

OUTPUT_ERRORS ==
  {"OUTPUT_NOT_AVAILABLE", "OUTPUT_TYPE_MISMATCH",
   "DUPLICATE_OUTPUT_PRODUCTION"}

INFRASTRUCTURE_ERRORS ==
  {"BROWSER_LAUNCH_FAILED", "BROWSER_CONTEXT_FAILED", "ADAPTER_START_FAILED",
   "RESOURCE_CLEANUP_FAILED"}

classifyFailure(errorCode) ==
  CASE errorCode \in {"VERIFICATION_NOT_MATCHED",
                      "EXTRACTION_VALUE_UNAVAILABLE"} -> "transient_read"
    [] errorCode \in {"LOCATOR_NOT_FOUND", "LOCATOR_NOT_UNIQUE"} ->
         "locator_resolution"
    [] errorCode \in VALIDATION_ERRORS -> "validation"
    [] errorCode \in POLICY_ERRORS -> "policy"
    [] errorCode \in {"EXECUTION_CANCELLED", "TOTAL_EXECUTION_TIMEOUT"} ->
         "cancellation"
    [] errorCode \in APPROVAL_ERRORS -> "approval"
    [] errorCode \in OUTPUT_ERRORS -> "output"
    [] errorCode \in INFRASTRUCTURE_ERRORS -> "infrastructure"
    [] errorCode = "NAVIGATION_TIMEOUT" -> "navigation"
    [] errorCode \in {"ACTION_TIMEOUT", "STEP_TIMEOUT", "ACTION_FAILED"} ->
         "action"
    [] OTHER -> "unknown"

AUTO_RETRY(stepType) ==
  CASE stepType = "verify" -> {"VERIFICATION_NOT_MATCHED", "LOCATOR_NOT_FOUND"}
    [] stepType = "extract" ->
         {"EXTRACTION_VALUE_UNAVAILABLE", "LOCATOR_NOT_FOUND"}
    [] OTHER -> {}

MANUAL_STEP_TYPES ==
  {"verify", "extract", "click", "fill", "select", "setChecked"}

MANUAL_BLOCKED_CATEGORIES ==
  {"validation", "policy", "cancellation", "approval", "output",
   "infrastructure", "unknown"}

-----------------------------------------------------------------------------
(* `in` is the policy's input: the step's type and whether an approval     *)
(* gates it, the failure, its effect certainty, the run's recovery mode    *)
(* and the attempts made so far.                                           *)

(* Mutant: the effect of the failed attempt is not looked at.              *)
RepeatIsSafeWhateverItDid(in) == in.totalAttemptCount < MAX_TOTAL_ATTEMPTS

(* A retry may repeat neither a side effect nor the last attempt allowed.  *)
RepeatIsSafe(in) ==
  /\ in.effectCertainty \in {"read_only", "not_started"}
  /\ in.totalAttemptCount < MAX_TOTAL_ATTEMPTS

AutomaticRetryAllowed(in) ==
  /\ in.effectCertainty = "read_only"
  /\ in.errorCode \in AUTO_RETRY(in.stepType)
  /\ in.automaticRetryCount < MAX_AUTOMATIC_RETRIES

ManualRepairAllowed(in) ==
  /\ in.recoveryMode = "automatic_safe_and_manual"
  /\ in.stepType \in MANUAL_STEP_TYPES
  /\ classifyFailure(in.errorCode) \notin MANUAL_BLOCKED_CATEGORIES
  /\ in.manualRetryCount < MAX_MANUAL_RETRIES

LocatorProposalAllowed(in) ==
  /\ in.recoveryMode = "automatic_safe_and_locator_proposals"
  /\ classifyFailure(in.errorCode) = "locator_resolution"
  /\ in.stepType \in MANUAL_STEP_TYPES

(* The disposition of a failed attempt.                                    *)
decideRetry(in) ==
  IF in.approvalGated THEN "new_run_required"
  ELSE IF ~RepeatIsSafe(in) THEN "none"
  ELSE IF AutomaticRetryAllowed(in) THEN "automatic_retry"
  ELSE IF ManualRepairAllowed(in) THEN "manual_repair"
  ELSE IF LocatorProposalAllowed(in) THEN "locator_proposal"
  ELSE "none"

(* The decision's retryAllowed flag follows from the disposition.          *)
retryAllowed(disposition) ==
  disposition \in {"automatic_retry", "manual_repair"}

=============================================================================
