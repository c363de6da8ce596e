--------------------------- MODULE OccurrenceSeries ---------------------------
(***************************************************************************)
(* A series of occurrences as nextNOccurrences, the schedule repository    *)
(* and a user's list of upcoming firings walk it: each next occurrence is  *)
(* asked for just after the one before, or, because a run was dispatched   *)
(* or closed late, some hours after it.                                    *)
(***************************************************************************)
EXTENDS Occurrences

CONSTANTS Definitions,   \* the schedule definitions walked
          Horizon,       \* the last instant asked about
          MaxLate        \* hours a dispatch may be late

VARIABLES def,    \* the definition
          after,  \* the instant the next occurrence is asked after
          last    \* the occurrence found before, {} at first

vars == <<def, after, last>>

Init ==
  /\ def \in Definitions
  /\ after \in 0..Horizon
  /\ last = {}

(* One round of nextNOccurrences: the next question is asked just after    *)
(* the occurrence found.                                                   *)
nextNOccurrences ==
  /\ after <= Horizon
  /\ \E t \in nextOccurrence(def, after) : after' = t + 1 /\ last' = {t}
  /\ UNCHANGED def

(* The same question, asked when the occurrence was dispatched or closed.  *)
AskLate(late) ==
  /\ after <= Horizon
  /\ \E t \in nextOccurrence(def, after) : after' = t + late /\ last' = {t}
  /\ UNCHANGED def

Next == nextNOccurrences \/ \E late \in 0..MaxLate : AskLate(late)

Spec == Init /\ [][Next]_vars

-----------------------------------------------------------------------------
(* A daily schedule asked after midnight of a day is not answered with     *)
(* that day's firing, although it is still to come: the candidate is the   *)
(* midnight, and one before `after' moves on by an interval                *)
(* (nextDailyOccurrence).                                                  *)
LaterThatDay(t) ==
  /\ def.type = "daily"
  /\ LocalDay(def.zone, t) = LocalDay(def.zone, after)
  /\ StartOfDay(def.zone, LocalDay(def.zone, after)) < after

(* The end date is compared as the instant of its midnight in UTC: with    *)
(* the local midnight of a daily firing, and with a weekly firing itself   *)
(* (nextDailyOccurrence, nextWeeklyOccurrence).                            *)
PastMidnightOfEndDate(t) ==
  \/ def.type = "daily"
     /\ PastEndDate(def, StartOfDay(def.zone, LocalDay(def.zone, t)))
  \/ def.type = "weekly" /\ PastEndDate(def, t)

(* A firing whose wall clock is removed by a spring forward that reaches   *)
(* midnight is not skipped but moved to the same wall clock of the next    *)
(* day, named or not: Luxon has moved the candidate there when its date is *)
(* read (nextDailyOccurrence, nextWeeklyOccurrence).  Only a daily start   *)
(* date is left by a day before.                                           *)
MovedToNextDay(t) ==
  LET day == LocalDay(def.zone, t) - 1
      moved == FiringOn(def, day)
  IN  /\ NamesDay(def, day) /\ LocalDay(def.zone, moved) = day + 1
      /\ t \in localDateTimeToUtc(def.zone, day + 1, def.hour)
      /\ \/ /\ def.type = "daily" /\ day > def.start
            /\ after <= StartOfDay(def.zone, day)
            /\ ~PastEndDate(def, StartOfDay(def.zone, day))
         \/ def.type = "weekly" /\ after < moved /\ ~PastEndDate(def, moved)

(* The instants after the one asked about among which the calculation      *)
(* chooses.                                                                *)
Upcoming(t) ==
  \/ IsFiring(def, t) /\ ~LaterThatDay(t) /\ ~PastMidnightOfEndDate(t)
  \/ MovedToNextDay(t)

(* The calculation returns the first firing the definition names after the *)
(* instant asked about: on one of its days, at its wall clock time, the    *)
(* earlier instant of a repeated hour and none in a DST gap.  Exceptions   *)
(* are the two kinds of firings it passes over and the one it moves, above *)
(* (nextDailyOccurrence, nextWeeklyOccurrence, nextOneTimeOccurrence).     *)
NextIsFirstUpcoming ==
  LET next == nextOccurrence(def, after)
      searched == IF next = {} THEN Horizon + HoursPerDay * DaysPerWeek * 4
                  ELSE Min(next) - 1
  IN  /\ \A t \in next : t > after /\ Upcoming(t)
      /\ \A t \in (after + 1) .. searched : ~Upcoming(t)

(* No local occurrence fires twice, across the hour a fall back repeats    *)
(* too: two consecutive occurrences are on different days                  *)
(* (localDateTimeToUtc, "We never execute the same local occurrence        *)
(* twice").                                                                *)
OncePerLocalDay ==
  \A t \in last, u \in nextOccurrence(def, after) :
    LocalDay(def.zone, u) > LocalDay(def.zone, t)

=============================================================================
