SPECIFICATION MCSpec
CONSTANTS
  r1 = r1
  a1 = a1
  Runs = {r1, r2}
  Runners = {n1}
  ClaimAttempts = {a1, a2}
  Workflow <- GatedClick
  Mode = "automatic_safe_only"
  Scheduled = {}
  LocalStore = {r1}
  LeaseTerm = 1
  ApprovalTerm = 1
  RepairTerm = 1
  Latency = 1
  Horizon = 3
  MaxRevision = 1
  Reports = {"pending"}
  StepReports = {}
  Triggers = {}
  AttemptReports = {}
  FailureCodes = {}
  Effects = {}
  ResultCauses = {"completed", "step_failed"}
  NoLease = NoLease
  NoRunner = NoRunner
CHECK_DEADLOCK FALSE
INVARIANTS TypeOK ClaimsFenced EndsRecorded AmbiguousEndPauses
PROPERTIES ImplementsLifecycle ApprovalsObeyed OutcomeFinal EndsCome
