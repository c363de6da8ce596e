SPECIFICATION ServiceSpec
CONSTANTS
  MaxSessions = 2
  MaxJournal = 1
CHECK_DEADLOCK FALSE
INVARIANTS
  StopAbortsTheRun
