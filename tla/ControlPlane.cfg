SPECIFICATION MCSpec
CONSTANTS
  Runs = {r1}
  Runners = {n1}
  ClaimAttempts = {a1}
  Workflow <- ExtractOnly
  Mode = "automatic_safe_and_manual"
  Scheduled = {}
  LocalStore = {}
  LeaseTerm = 2
  ApprovalTerm = 1
  RepairTerm = 1
  Latency = 1
  Horizon = 3
  MaxRevision = 0
  Reports = {"pending", "validating", "starting", "running"}
  StepReports = {"pending", "running"}
  Triggers = {"initial", "manual_retry"}
  AttemptReports = {"succeeded", "failed"}
  FailureCodes = {"LOCATOR_NOT_UNIQUE"}
  Effects = {"read_only", "unknown"}
  ResultCauses = {"completed", "step_failed", "repair_aborted"}
  Users = {"ada", "ben"}
  Role <- MCRole
  Contents = {"c1", "c2"}
  Policies = {"p1", "p2"}
  Allowed <- MCAllowed
  Tokens = {"t1", "t2"}
  MaxVersions = 2
  MaxDraftRevision = 2
  KeyHolders = {"n1"}
  MaxIds = 2
  MaxKeys = 2
  MaxSeals = 2
  TTL = 1
  MaxTime = 2
  Workspaces = {"w1", "w2"}
  ExpiresAt = 3
  Window = 1
  MaxInterval = 2
  MaxClock = 4
  MaxBeats = 2
  Candidates = {"c1", "c2"}
  Drafts = {"d1", "d2"}
  Parent <- MCParent
  RunVersion = "v1"
  ClientIds = {"i1", "i2"}
  MaxPatchRevision = 3
  Fleet = {"n1", "n2"}
  Rollouts = {"A", "B"}
  Versions = {1, 2, 3}
  VersionOf <- MCVersionOf
  Plan <- MCPlan
  RolloutAuditAccepts = TRUE
  MaxReports = 3
  Pages = {"p1", "p2"}
  MaxEdits = 2
  MaxSavedRevision = 3
  MaxQueue = 2
  EventIds = {"e1", "e2", "e3"}
  Policy <- MCPolicy
  BatchIds = {"b1", "b2"}
  MaxEvents = 2
  Converters = {"ada", "ben"}
  Viewers = {"vic"}
  ConversionIds = {"k1", "k2"}
  Names = {"n1", "n2"}
  MaxWorkflows = 2
  Writers = {"w1", "w2"}
  Sources = {"s1", "s2", "s3"}
  Payloads = {"x"}
  Verifiers = {"v"}
  FromSequences = {0, 2}
  ToSequences = {0, 2}
  SampleLimits = {2}
  BATCH = 2
  MaxChain = 3
  NoLease = NoLease
  NoRunner = NoRunner
CHECK_DEADLOCK FALSE
INVARIANTS
  PlaneTypeOK
  RepairsAreSafe
  PublicationIsSound
  TrailIsSound
  RecordingIsKept
  ConversionIsFaithful
  OnlyTheseAreRefused
PROPERTIES
  LocatorRepairedOnce
  PairingIsSound
  RolloutIsSound
  InputsReachTheirRun
  EditsAreKept
  ReferencesKeepTheirMeaning
