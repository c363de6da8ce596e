---------------------------- MODULE MCRunSchedule ----------------------------
(* Two schedules of one Runner, with days of two hours: a daily one at the *)
(* second hour of each day and a one-time one on the second day.           *)
EXTENDS RunSchedule, Occurrences

CONSTANTS d1, o1, r1

UTC == [base |-> 0, at |-> 0, shift |-> 0]
Daily == [type |-> "daily", zone |-> UTC, start |-> 0, end |-> NoDay,
          hour |-> 1, interval |-> 1, weekdays |-> {}]
Once == [Daily EXCEPT !.type = "one_time", !.start = 1]
MCDefinition == [s \in Schedules |-> IF s = o1 THEN Once ELSE Daily]

\* The answers of nextOccurrence, worked out once.
Answers == [d \in {Daily, Once}, t \in Instants |-> nextOccurrence(d, t)]
answered(d, t) == Answers[d, t]

MCRunnerOf == [s \in Schedules |-> r1]
=============================================================================
