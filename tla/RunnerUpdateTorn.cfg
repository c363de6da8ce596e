SPECIFICATION UpdateFairSpec
CONSTANTS
  MaxRelease = 4
  Writes <- MCWrites
  Reads <- MCReads
  MaxOps = 1
  MaxFaults = 2
  TornRemoval = TRUE
CHECK_DEADLOCK FALSE
PROPERTIES
  RecoverFinishesBeforeSwitch
