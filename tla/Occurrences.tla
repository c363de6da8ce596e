----------------------------- MODULE Occurrences -----------------------------
(***************************************************************************)
(* The occurrence calculation of packages/workflow-scheduling: from a      *)
(* schedule definition and an instant, the next instant the schedule       *)
(* fires.  Instants are hours of UTC, a day has HoursPerDay of them and a  *)
(* week DaysPerWeek days (24 and 7 in the code, scaled down for TLC), day  *)
(* 0 is a Monday.  A zone has one change of offset, which is what the DST  *)
(* branches are about: at the instant `at' its offset moves by `shift'     *)
(* (1: clocks spring forward, -1: they fall back, 0: no DST).  A result is *)
(* the singleton of the instant, or {} where the code returns a            *)
(* SkippedOccurrence, whose reason no caller keeps.                        *)
(***************************************************************************)
EXTENDS Integers, FiniteSets, FiniteSetsExt

CONSTANTS HoursPerDay, DaysPerWeek, MaxSearchWeeks

ASSUME CalendarAssumption ==
  /\ HoursPerDay \in Nat \ {0}
  /\ DaysPerWeek \in Nat \ {0}
  /\ MaxSearchWeeks \in Nat \ {0}

NoDay == -1

Zones == [base : Int, at : Int, shift : {-1, 0, 1}]

OffsetAt(zone, t) == zone.base + (IF t >= zone.at THEN zone.shift ELSE 0)

LocalAt(zone, t) == t + OffsetAt(zone, t)

LocalDay(zone, t) == LocalAt(zone, t) \div HoursPerDay

(* The instants whose wall clock in the zone reads l: none in the gap of a *)
(* spring forward, two in the hour a fall back repeats.                    *)
InstantsOf(zone, l) ==
  {t \in {l - zone.base, l - zone.base - zone.shift} : LocalAt(zone, t) = l}

(* DateTime of a wall clock: Luxon takes the earlier of two instants, and  *)
(* moves a wall clock of the gap past it by reading it in the old offset.  *)
InstantOf(zone, l) ==
  IF InstantsOf(zone, l) = {} THEN l - zone.base ELSE Min(InstantsOf(zone, l))

StartOfDay(zone, day) == InstantOf(zone, day * HoursPerDay)

FiringOn(def, day) == InstantOf(def.zone, day * HoursPerDay + def.hour)

localDateTimeToUtc(zone, day, hour) ==
  LET l == day * HoursPerDay + hour
  IN  IF InstantsOf(zone, l) = {} THEN {} ELSE {InstantOf(zone, l)}

(* The candidate is a wall clock Luxon may have moved, at the end of a day  *)
(* to the next one; its date is the one asked about.                       *)
CandidateToUtc(def, day) ==
  localDateTimeToUtc(def.zone, LocalDay(def.zone, FiringOn(def, day)), def.hour)

nextOneTimeOccurrence(def, after) ==
  {t \in localDateTimeToUtc(def.zone, def.start, def.hour) : t > after}

parseEndDate(def) == def.end * HoursPerDay

PastEndDate(def, t) == def.end # NoDay /\ t > parseEndDate(def)

(* The day of the first candidate of a daily schedule: the start date, or  *)
(* the aligned day of `after', moved one interval on when its midnight is  *)
(* before `after'.                                                         *)
DailyCandidate(def, after) ==
  LET since   == LocalDay(def.zone, after) - def.start
      aligned == def.start + since - (since % def.interval)
  IN  IF since < 0 THEN def.start
      ELSE IF StartOfDay(def.zone, aligned) < after
           THEN aligned + def.interval
           ELSE aligned

(* Mutant: a DST gap is left by a day instead of an hour.                  *)
RECURSIVE DailyGapSkipsADay(_, _)
DailyGapSkipsADay(def, after) ==
  LET day == DailyCandidate(def, after)
  IN  IF PastEndDate(def, StartOfDay(def.zone, day)) THEN {}
      ELSE IF FiringOn(def, day) <= after
           THEN DailyGapSkipsADay(def, FiringOn(def, day) + 1)
      ELSE IF CandidateToUtc(def, day) = {}
           THEN DailyGapSkipsADay(def, FiringOn(def, day) + HoursPerDay)
           ELSE CandidateToUtc(def, day)

RECURSIVE nextDailyOccurrence(_, _)
nextDailyOccurrence(def, after) ==
  IF localDateTimeToUtc(def.zone, def.start, def.hour) = {}
  THEN nextDailyOccurrence([def EXCEPT !.start = @ + 1], after)
  ELSE LET day == DailyCandidate(def, after)
       IN  IF PastEndDate(def, StartOfDay(def.zone, day)) THEN {}
           ELSE IF \/ FiringOn(def, day) <= after
                   \/ CandidateToUtc(def, day) = {}
                THEN nextDailyOccurrence(def, FiringOn(def, day) + 1)
                ELSE CandidateToUtc(def, day)

WeekOf(day) == day \div DaysPerWeek

(* The first week of the search: that of `after' or of the start date,     *)
(* moved back to a week the interval selects.                              *)
FirstSearchWeek(def, after) ==
  LET search == Max({LocalDay(def.zone, after), def.start})
      since  == WeekOf(search) - WeekOf(def.start)
  IN  WeekOf(def.start) + since - (since % def.interval)

SearchedDays(def, after) ==
  {(FirstSearchWeek(def, after) + i * def.interval) * DaysPerWeek + w - 1 :
     i \in 0..(MaxSearchWeeks - 1), w \in def.weekdays}

(* The days at which the search returns: the first past the end date ends  *)
(* it, any other must be after `after' and exist.                          *)
DecidingDays(def, after) ==
  {day \in SearchedDays(def, after) :
     /\ FiringOn(def, day) >= StartOfDay(def.zone, def.start)
     /\ \/ PastEndDate(def, FiringOn(def, day))
        \/ /\ FiringOn(def, day) > after
           /\ CandidateToUtc(def, day) # {}}

nextWeeklyOccurrence(def, after) ==
  LET days == DecidingDays(def, after)
  IN  IF days = {} \/ PastEndDate(def, FiringOn(def, Min(days))) THEN {}
      ELSE CandidateToUtc(def, Min(days))

nextOccurrence(def, after) ==
  CASE def.type = "one_time" -> nextOneTimeOccurrence(def, after)
    [] def.type = "daily"    -> nextDailyOccurrence(def, after)
    [] def.type = "weekly"   -> nextWeeklyOccurrence(def, after)

(***************************************************************************)
(* What a definition promises: the days it names, and its firings.  The    *)
(* days of a daily schedule are counted from its first day whose wall      *)
(* clock exists.                                                           *)
(***************************************************************************)
AnchorDay(def) ==
  IF InstantsOf(def.zone, def.start * HoursPerDay + def.hour) = {}
  THEN def.start + 1 ELSE def.start

NamesDay(def, day) ==
  /\ day >= def.start
  /\ def.end # NoDay => day <= def.end
  /\ CASE def.type = "one_time" -> day = def.start
       [] def.type = "daily"    -> (day - AnchorDay(def)) % def.interval = 0
       [] def.type = "weekly"   ->
            /\ (day % DaysPerWeek) + 1 \in def.weekdays
            /\ (WeekOf(day) - WeekOf(def.start)) % def.interval = 0

(* A firing is at the earlier instant of the wall clock on a named day.    *)
IsFiring(def, t) ==
  /\ NamesDay(def, LocalDay(def.zone, t))
  /\ LocalAt(def.zone, t) % HoursPerDay = def.hour
  /\ t = Min(InstantsOf(def.zone, LocalAt(def.zone, t)))
=============================================================================
