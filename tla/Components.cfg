SPECIFICATION MCSpec
CONSTANTS
  d1 = d1
  o1 = o1
  r1 = r1
  k1 = k1
  k2 = k2
  HoursPerDay = 2
  DaysPerWeek = 3
  MaxSearchWeeks = 3
  MaxStartDelay = 1
  Definition <- MCDefinition
  nextFiring <- answered
  RunnerOf <- MCRunnerOf
  Schedules = {d1, o1}
  Schedulers = {k1}
  MaxTime = 3
  MaxCrashes = 1
CHECK_DEADLOCK FALSE
INVARIANTS
  
  AcceptedMeansExecutable
  RecordingSurvives
  ServiceIsSound
PROPERTIES
  ScheduleSound
  AlertsReachTheirReaders
