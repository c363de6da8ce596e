SPECIFICATION Spec
CONSTANTS
  Runs = {r1}
  Runners = {n1}
  ClaimAttempts = {a1}
  Workflow <- GatedClick
  Mode = "automatic_safe_only"
  Scheduled = {}
  LocalStore = {}
  LeaseTerm = 2
  ApprovalTerm = 2
  RepairTerm = 1
  Latency = 1
  Horizon = 4
  MaxRevision = 0
  Reports = {"pending", "validating", "starting", "running", "waiting_for_approval"}
  StepReports = {"pending", "running"}
  Triggers = {}
  AttemptReports = {}
  FailureCodes = {}
  Effects = {}
  ResultCauses = {"completed", "run_cancelled", "approval_rejected", "approval_expired", "approval_invalidated"}
  NoLease = NoLease
  NoRunner = NoRunner
CHECK_DEADLOCK FALSE
INVARIANTS TerminalEvidence
