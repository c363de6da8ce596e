SPECIFICATION MCSpec
CONSTANTS
  Workflows <- MCWorkflows
  Modes = {"automatic_safe_only", "automatic_safe_and_manual",
           "automatic_safe_and_locator_proposals"}
  Deadline = 2
  Horizon = 3
  MaxRelease = 4
  Writes <- MCWrites
  Reads <- MCReads
  MaxOps = 3
  MaxFaults = 3
  TornRemoval = TRUE
  Events = 3
  Capacity = 2
  Attempts = 3
  MaxSessions = 2
  MaxJournal = 1
  Callers = {"c1", "c2"}
  MaxAttempts = 4
  MaxLost = 2
  Processes = {"p1", "p2"}
  Objects = {1, 2}
  SizeBytes = 2
  Commands = {"c1", "c2"}
  AliasOf <- MCAliasOf
  Aliases = {"a", "b"}
  MaxFresh = 3
  MaxRevision = 3
  MaxStarts = 2
  MaxBegun = 3
CHECK_DEADLOCK FALSE
INVARIANTS
  HostTypeOK
  EngineRules
  EngineOutcome
  UpdateIsSafe
  ProgressIsDelivered
  CacheIsSound
PROPERTIES
  ExecutionTerminates
  EngineMoves
  NoClaimAfterStop
  SyncIsFinal
  SecretsAreSound
