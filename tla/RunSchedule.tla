----------------------------- MODULE RunSchedule -----------------------------
(***************************************************************************)
(* The life of workflow schedules: workflow-schedule.repository.ts driven  *)
(* by any number of scheduler.service.ts loops and by the users' service   *)
(* calls.  A schedule row, its occurrences (unique by instant), the run of *)
(* each occurrence and the operational alerts of an automatic pause.       *)
(*                                                                         *)
(* Every repository method is one serializable transaction, hence one      *)
(* action, and one that throws leaves no trace.  A scheduler's tick is     *)
(* not: it takes `now' and its work lists once and uses them while users,  *)
(* runs and other schedulers move on.  What a dispatch finds of its Runner *)
(* and of the policy is an input of the action (RunDispatch models where   *)
(* those states come from).                                                *)
(***************************************************************************)
EXTENDS Integers, FiniteSets, Sequences, SequencesExt

CONSTANTS Schedules, Schedulers,
          Definition,     \* schedule -> its definition, immutable
          nextFiring(_, _), \* the calculation of Occurrences: definition
                          \* and instant -> {} or {the next firing}
          RunnerOf,       \* schedule -> the Runner it is pinned to
          MaxStartDelay,  \* the start window, in hours
          MaxTime,        \* the last instant of the clock
          MaxCrashes      \* how often a scheduler's process may die

VARIABLES now,
          schedule,   \* the schedule rows
          occurrence, \* schedule -> instant -> status, "none" if no row
          run,        \* schedule -> instant -> status of the run created
          alert,      \* schedule -> source -> alert of an automatic pause
          tick,       \* scheduler -> its tick: phase, its now, work left
          crashes     \* processes that died

vars == <<now, schedule, occurrence, run, alert, tick, crashes>>

Instants == 0..MaxTime
None == -1

(* What nextOccurrence answers lies after the instant it is asked about    *)
(* (OccurrenceSeries checks that of the calculation itself).               *)
ASSUME ScheduleAssumption ==
  /\ MaxTime \in Nat /\ MaxStartDelay \in Nat /\ MaxCrashes \in Nat
  /\ IsFiniteSet(Schedules)
  /\ \A s \in Schedules : \A t \in Instants :
       \A u \in nextFiring(Definition[s], t) : u > t

ScheduleStatuses ==
  {"absent", "ACTIVE", "PAUSED", "AUTO_PAUSED", "COMPLETED", "ARCHIVED"}
OccurrenceStatuses ==
  {"none", "DISPATCHED", "SUCCEEDED", "SKIPPED", "TIMED_OUT", "CANCELLED"}

(* UNKNOWN is FAILED with a cause of unknown side effect (ambiguous        *)
(* outcome, runner crash, lease expired).                                  *)
TerminalRuns ==
  {"SUCCEEDED", "FAILED", "UNKNOWN", "CANCELLED", "TIMED_OUT", "INTERRUPTED"}
ActiveRuns == {"QUEUED", "RUNNING"}

(* The sources of a schedule's schedule_auto_paused alerts: the schedule   *)
(* itself, or one of its occurrences.                                      *)
OfSchedule == -1
Sources == {OfSchedule} \cup Instants

Idle == [phase |-> "idle", now |-> 0, work |-> <<>>]

Init ==
  /\ now = 0
  /\ schedule = [s \in Schedules |->
                   [status |-> "absent", next |-> None, pausedBy |-> None]]
  /\ occurrence = [s \in Schedules |-> [t \in Instants |-> "none"]]
  /\ run = [s \in Schedules |-> [t \in Instants |-> "none"]]
  /\ alert = [s \in Schedules |-> [o \in Sources |-> "none"]]
  /\ tick = [k \in Schedulers |-> Idle]
  /\ crashes = 0

-----------------------------------------------------------------------------
(* The next occurrence after an instant, null when there is none; beyond   *)
(* the clock of the model counts as none.                                  *)
NextAfter(s, t) ==
  LET found == nextFiring(Definition[s], t) \cap Instants
  IN  IF found = {} THEN None ELSE CHOOSE u \in found : TRUE

(* append and resolve of the operational alert appender.  An alert is      *)
(* unique by source: appending a second one with other content throws,     *)
(* which rolls the caller's transaction back, and an automatic pause never *)
(* has the content of an earlier one (its instant and occurrence differ).  *)
CanAppend(s, source) == alert[s][source] = "none"

appendAlert(s, source) ==
  alert' = [alert EXCEPT ![s][source] = IF @ = "none" THEN "active" ELSE @]

ResolvePaused(s) ==
  alert' = [alert EXCEPT ![s] =
    [o \in Sources |->
       IF o \in {OfSchedule, schedule[s].pausedBy} /\ @[o] = "active"
       THEN "resolved" ELSE @[o]]]

-----------------------------------------------------------------------------
(* Users.  Only OWNER and ADMIN pass; the readiness and policy checks of a *)
(* creation are inputs, a creation they refuse leaves no trace, and one    *)
(* repeated under its clientScheduleId returns the row it made.            *)
CanCreate(s) == schedule[s].status = "absent"

create(s) ==
  /\ CanCreate(s)
  /\ schedule' = [schedule EXCEPT ![s].status = "ACTIVE",
                                  ![s].next = NextAfter(s, now)]
  /\ UNCHANGED <<now, occurrence, run, alert, tick, crashes>>

pause(s) ==
  /\ schedule[s].status \in {"ACTIVE", "PAUSED"}
  /\ schedule' = [schedule EXCEPT ![s].status = "PAUSED"]
  /\ UNCHANGED <<now, occurrence, run, alert, tick, crashes>>

resume(s) ==
  /\ schedule[s].status \in {"PAUSED", "AUTO_PAUSED"}
  /\ schedule' = [schedule EXCEPT ![s].status = "ACTIVE",
                                  ![s].next = NextAfter(s, now),
                                  ![s].pausedBy = None]
  /\ IF schedule[s].status = "AUTO_PAUSED"
     THEN ResolvePaused(s) ELSE UNCHANGED alert
  /\ UNCHANGED <<now, occurrence, run, tick, crashes>>

archive(s) ==
  /\ schedule[s].status \in {"ACTIVE", "PAUSED", "AUTO_PAUSED", "COMPLETED"}
  /\ schedule' = [schedule EXCEPT ![s].status = "ARCHIVED"]
  /\ IF schedule[s].status = "AUTO_PAUSED"
     THEN ResolvePaused(s) ELSE UNCHANGED alert
  /\ UNCHANGED <<now, occurrence, run, tick, crashes>>

-----------------------------------------------------------------------------
(* The tick of a scheduler: due schedules, then occurrences past their     *)
(* start window, then occurrences whose run has ended.  Work lists are     *)
(* read when a phase starts; a tick ends early when its process dies.      *)
selectDueSchedules(t) ==
  {s \in Schedules : /\ schedule[s].status = "ACTIVE"
                     /\ schedule[s].next # None
                     /\ schedule[s].next <= t}

AllOccurrences == Schedules \X Instants

Dispatched == {o \in AllOccurrences : occurrence[o[1]][o[2]] = "DISPATCHED"}

startTick(k) ==
  /\ tick[k].phase = "idle"
  /\ \E order \in SetToSeqs({<<s, None>> : s \in selectDueSchedules(now)}) :
       tick' = [tick EXCEPT ![k] =
                  [phase |-> "due", now |-> now, work |-> order]]
  /\ UNCHANGED <<now, schedule, occurrence, run, alert, crashes>>

TimedOut(t) == {o \in Dispatched : o[2] + MaxStartDelay < t}

Ended == {o \in Dispatched : run[o[1]][o[2]] \in TerminalRuns}

(* reconcileTerminalOccurrences takes them by creation; the order of the   *)
(* others is the database's choice.                                        *)
ByCreation(seq) ==
  \A i, j \in DOMAIN seq : i < j => seq[i][2] <= seq[j][2]

NextPhase(k) ==
  /\ tick[k].work = <<>>
  /\ \/ /\ tick[k].phase = "due"
        /\ \E order \in SetToSeqs(TimedOut(tick[k].now)) :
             tick' = [tick EXCEPT ![k].phase = "timeout", ![k].work = order]
     \/ /\ tick[k].phase = "timeout"
        /\ \E order \in SetToSeqs(Ended) :
             /\ ByCreation(order)
             /\ tick' =
                  [tick EXCEPT ![k].phase = "terminal", ![k].work = order]
     \/ /\ tick[k].phase = "terminal"
        /\ tick' = [tick EXCEPT ![k] = Idle]
  /\ UNCHANGED <<now, schedule, occurrence, run, alert, crashes>>

(* The process of a scheduler ends between two transactions.               *)
Crash(k) ==
  /\ tick[k].phase # "idle"
  /\ crashes < MaxCrashes
  /\ crashes' = crashes + 1
  /\ tick' = [tick EXCEPT ![k] = Idle]
  /\ UNCHANGED <<now, schedule, occurrence, run, alert>>

Working(k, phase) == tick[k].phase = phase /\ tick[k].work # <<>>

Subject(k) == Head(tick[k].work)

WorkDone(k) == tick' = [tick EXCEPT ![k].work = Tail(@)]

-----------------------------------------------------------------------------
(* processOccurrence.  Unless the schedule is due and its instant has no   *)
(* live occurrence, nothing happens; nothing happens either when another   *)
(* transaction holds the row (SKIP LOCKED) or when the Runner is revoked,  *)
(* offline or incapable, a policy is missing, or a run is active (they     *)
(* throw).                                                                 *)
Due(k, s) ==
  /\ s \in selectDueSchedules(tick[k].now)
  /\ occurrence[s][schedule[s].next] = "none"

RunnerBusy(s) ==
  \E r \in Schedules : /\ RunnerOf[r] = RunnerOf[s]
                       /\ \E t \in Instants : run[r][t] \in ActiveRuns

OneTime(s) == Definition[s].type = "one_time"

PassOver(k) ==
  /\ Working(k, "due")
  /\ WorkDone(k)
  /\ UNCHANGED <<now, schedule, occurrence, run, alert, crashes>>

(* A Runner draining for an update: the occurrence is skipped and the      *)
(* schedule moves on.                                                      *)
skipMaintenanceOccurrence(k) ==
  /\ Working(k, "due")
  /\ LET s == Subject(k)[1]
         t == schedule[s].next
     IN  /\ Due(k, s)
         /\ occurrence' = [occurrence EXCEPT ![s][t] = "SKIPPED"]
         /\ IF OneTime(s)
            THEN schedule' = [schedule EXCEPT ![s].next = None,
                                              ![s].status = "COMPLETED"]
            ELSE schedule' = [schedule EXCEPT
                                ![s].next = NextAfter(s, tick[k].now)]
  /\ WorkDone(k)
  /\ UNCHANGED <<now, run, alert, crashes>>

(* A Runner that must be updated or lacks a secret: the occurrence is      *)
(* skipped, the schedule paused, the alert raised for the occurrence.      *)
autoPauseBlockedOccurrence(k) ==
  /\ Working(k, "due")
  /\ LET s == Subject(k)[1]
         t == schedule[s].next
     IN  /\ Due(k, s)
         /\ occurrence' = [occurrence EXCEPT ![s][t] = "SKIPPED"]
         /\ schedule' = [schedule EXCEPT ![s].status = "AUTO_PAUSED",
                                         ![s].pausedBy = t,
                                         ![s].next = None]
         /\ CanAppend(s, t)
         /\ appendAlert(s, t)
  /\ WorkDone(k)
  /\ UNCHANGED <<now, run, crashes>>

(* The policy no longer allows the workflow: the same, but the alert is    *)
(* the schedule's and the instant stays.                                   *)
PolicyDenied(k) ==
  /\ Working(k, "due")
  /\ LET s == Subject(k)[1]
         t == schedule[s].next
     IN  /\ Due(k, s)
         /\ occurrence' = [occurrence EXCEPT ![s][t] = "SKIPPED"]
         /\ schedule' = [schedule EXCEPT ![s].status = "AUTO_PAUSED",
                                         ![s].pausedBy = t]
         /\ CanAppend(s, OfSchedule)
         /\ appendAlert(s, OfSchedule)
  /\ WorkDone(k)
  /\ UNCHANGED <<now, run, crashes>>

processOccurrence(k) ==
  /\ Working(k, "due")
  /\ LET s == Subject(k)[1]
         t == schedule[s].next
     IN  /\ Due(k, s)
         /\ ~ RunnerBusy(s)
         /\ occurrence' = [occurrence EXCEPT ![s][t] = "DISPATCHED"]
         /\ run' = [run EXCEPT ![s][t] = "QUEUED"]
         /\ schedule' = [schedule EXCEPT
              ![s].next = NextAfter(s, tick[k].now),
              ![s].status = IF OneTime(s) THEN "COMPLETED" ELSE @]
  /\ WorkDone(k)
  /\ UNCHANGED <<now, alert, crashes>>

-----------------------------------------------------------------------------
(* Mutant: a refused time-out ends the whole tick, not only its phase.     *)
TimeOutEndsTick(k) ==
  /\ Working(k, "timeout")
  /\ tick' = IF occurrence[Subject(k)[1]][Subject(k)[2]] = "DISPATCHED"
             THEN [tick EXCEPT ![k] = Idle]
             ELSE [tick EXCEPT ![k].work = Tail(@)]
  /\ UNCHANGED <<now, schedule, occurrence, run, alert, crashes>>

(* One occurrence past its start window.  One no longer DISPATCHED is      *)
(* left.  Of any other the transaction ends the run, and then the audit    *)
(* trail refuses the event of that end (its cause is written in lower case *)
(* where the payload wants a code: AuditEvents!OnlyTheseAreRefused), so    *)
(* all of it is rolled back: nothing is ever timed out.  The exception     *)
(* leaves the loop, the occurrences after it wait for another tick, and    *)
(* the service catches it before the phase that follows.                   *)
reconcileTimedOutOccurrence(k) ==
  /\ Working(k, "timeout")
  /\ tick' = IF occurrence[Subject(k)[1]][Subject(k)[2]] = "DISPATCHED"
             THEN [tick EXCEPT ![k].work = <<>>]
             ELSE [tick EXCEPT ![k].work = Tail(@)]
  /\ UNCHANGED <<now, schedule, occurrence, run, alert, crashes>>

OutcomeOf(r) ==
  CASE r = "SUCCEEDED"   -> "SUCCEEDED"
    [] r = "INTERRUPTED" -> "CANCELLED"
    [] r \in {"FAILED", "UNKNOWN", "CANCELLED", "TIMED_OUT"} -> "SKIPPED"
    [] OTHER -> "CANCELLED"

(* Mutant: a failure of unknown side effect does not pause.                *)
OnlyInterruptedPauses(r) == r = "INTERRUPTED"

Ambiguous(r) == r \in {"INTERRUPTED", "UNKNOWN"}

(* One no longer DISPATCHED was closed by another scheduler.               *)
AlreadyClosed(s, t) == occurrence[s][t] # "DISPATCHED"

(* handleRunCompletion closes the occurrence of a run that has ended.  An  *)
(* ambiguous end pauses the schedule, whatever its status; any other sets  *)
(* the next occurrence from the tick's now.                                *)
handleRunCompletion(k) ==
  /\ Working(k, "terminal")
  /\ LET s == Subject(k)[1]
         t == Subject(k)[2]
     IN  \/ /\ ~ AlreadyClosed(s, t)
            /\ ~ Ambiguous(run[s][t])
            /\ occurrence' = [occurrence EXCEPT ![s][t] = OutcomeOf(run[s][t])]
            /\ schedule' =
                   [schedule EXCEPT ![s].next = NextAfter(s, tick[k].now)]
            /\ UNCHANGED alert
         \/ /\ ~ AlreadyClosed(s, t)
            /\ Ambiguous(run[s][t])
            /\ CanAppend(s, OfSchedule)
            /\ appendAlert(s, OfSchedule)
            /\ occurrence' = [occurrence EXCEPT ![s][t] = OutcomeOf(run[s][t])]
            /\ schedule' = [schedule EXCEPT ![s].status = "AUTO_PAUSED",
                                            ![s].pausedBy = t]
         \/ /\ AlreadyClosed(s, t)
            /\ UNCHANGED <<occurrence, schedule, alert>>
  /\ WorkDone(k)
  /\ UNCHANGED <<now, run, crashes>>

(* A close that throws: reconcileTerminalOccurrences does not catch it, so *)
(* the occurrences after it wait for another tick, which meets it again.   *)
CloseThrows(k) ==
  /\ Working(k, "terminal")
  /\ LET s == Subject(k)[1]
         t == Subject(k)[2]
     IN  /\ ~ AlreadyClosed(s, t)
         /\ Ambiguous(run[s][t])
         /\ ~ CanAppend(s, OfSchedule)
  /\ tick' = [tick EXCEPT ![k] = Idle]
  /\ UNCHANGED <<now, schedule, occurrence, run, alert, crashes>>

-----------------------------------------------------------------------------
(* The runs, as RunDispatch moves them: claimed, early or late (no claim   *)
(* looks at the start window), ended by their Runner, by a cancellation or *)
(* by a lost lease.  A claim that finds the run's pinned secrets stale is  *)
(* refused by the audit trail like a time-out and leaves no trace.         *)
ClaimRun(s, t) ==
  /\ run[s][t] = "QUEUED"
  /\ run' = [run EXCEPT ![s][t] = "RUNNING"]
  /\ UNCHANGED <<now, schedule, occurrence, alert, tick, crashes>>

EndRun(s, t, st) ==
  /\ \/ run[s][t] = "RUNNING" /\ st \in TerminalRuns
     \/ run[s][t] = "QUEUED" /\ st = "CANCELLED"
  /\ run' = [run EXCEPT ![s][t] = st]
  /\ UNCHANGED <<now, schedule, occurrence, alert, tick, crashes>>

Elapse ==
  /\ now < MaxTime
  /\ now' = now + 1
  /\ UNCHANGED <<schedule, occurrence, run, alert, tick, crashes>>

-----------------------------------------------------------------------------
TickStep(k) ==
  \/ startTick(k)
  \/ NextPhase(k)
  \/ PassOver(k)
  \/ skipMaintenanceOccurrence(k)
  \/ autoPauseBlockedOccurrence(k)
  \/ PolicyDenied(k)
  \/ processOccurrence(k)
  \/ reconcileTimedOutOccurrence(k)
  \/ handleRunCompletion(k)
  \/ CloseThrows(k)

UserStep ==
  \E s \in Schedules : create(s) \/ pause(s) \/ resume(s) \/ archive(s)

RunStep ==
  \E s \in Schedules, t \in Instants :
    \/ ClaimRun(s, t)
    \/ \E st \in TerminalRuns : EndRun(s, t, st)

Next ==
  \/ \E k \in Schedulers : TickStep(k) \/ Crash(k)
  \/ UserStep
  \/ RunStep
  \/ Elapse

Spec == Init /\ [][Next]_vars

(* A scheduler keeps ticking and time passes.  Users, Runners and crashes  *)
(* owe nothing.                                                            *)
FairSpec ==
  Spec /\ WF_vars(Elapse) /\ \A k \in Schedulers : WF_vars(TickStep(k))

-----------------------------------------------------------------------------
TypeOK ==
  /\ now \in Instants
  /\ schedule \in [Schedules -> [status : ScheduleStatuses,
                                 next : Instants \cup {None},
                                 pausedBy : Instants \cup {None}]]
  /\ occurrence \in [Schedules -> [Instants -> OccurrenceStatuses]]
  /\ run \in [Schedules ->
               [Instants -> {"none"} \cup ActiveRuns \cup TerminalRuns]]
  /\ alert \in [Schedules -> [Sources -> {"none", "active", "resolved"}]]

(* However many schedulers tick and whatever they remember, a Runner has   *)
(* at most one active scheduled run (processOccurrence).                   *)
OneActiveRunPerRunner ==
  \A o, p \in AllOccurrences :
    /\ run[o[1]][o[2]] \in ActiveRuns
    /\ run[p[1]][p[2]] \in ActiveRuns
    /\ RunnerOf[o[1]] = RunnerOf[p[1]]
    => o = p

(* A schedule paused by the system has an open alert that says so, on      *)
(* itself or on the occurrence that paused it, through any sequence of     *)
(* pauses, resumptions and archivings (the appender's unique source).      *)
AutoPauseIsAlerted ==
  \A s \in Schedules :
    schedule[s].status = "AUTO_PAUSED" =>
      \E o \in {OfSchedule, schedule[s].pausedBy} : alert[s][o] = "active"

(* A run of unknown side effect closes its occurrence only together with   *)
(* a pause of the schedule, even when a user resumed, archived or paused   *)
(* it meanwhile (handleRunCompletion).                                     *)
AmbiguousClosePauses ==
  \A s \in Schedules : \A t \in Instants :
    /\ occurrence[s][t] = "DISPATCHED"
    /\ occurrence'[s][t] # "DISPATCHED"
    /\ run'[s][t] \in {"INTERRUPTED", "UNKNOWN"}
    => schedule'[s].status = "AUTO_PAUSED"

(* One scheduler, dying and coming back, dispatches the instants of a      *)
(* schedule in order, whatever was closed, paused and resumed in between   *)
(* (processOccurrence).                                                    *)
DispatchesInOrder ==
  \A s \in Schedules : \A t, u \in Instants :
    /\ run[s][t] = "none" /\ run'[s][t] # "none"
    /\ run[s][u] # "none"
    => u < t

(* A close that throws on every tick: its schedule's own alert was raised  *)
(* before, with other content.                                             *)
CloseStuck(o) ==
  /\ o \in Ended
  /\ Ambiguous(run[o[1]][o[2]])
  /\ ~ CanAppend(o[1], OfSchedule)

(* The occurrence of a run that has ended is closed by a scheduler that    *)
(* keeps ticking, although the time-out of every overdue occurrence is     *)
(* refused before that on each tick and crashes cut ticks short; only a    *)
(* close that throws on every tick, of it or of an occurrence that is not  *)
(* younger, leaves it open (reconcileTerminalOccurrences).                 *)
EndedRunCloses(o) ==
  o \in Ended ~> \/ o \notin Dispatched
                \/ \E p \in AllOccurrences : CloseStuck(p) /\ p[2] <= o[2]

(* A run that was not claimed within the start window is timed out         *)
(* (schedule-status.ts).                                                   *)
UnclaimedIsTimedOut ==
  \A s \in Schedules, t \in Instants :
    (t + MaxStartDelay < MaxTime /\ run[s][t] = "QUEUED")
      ~> run[s][t] # "QUEUED"

(* An archived schedule cannot be resumed (schedule-status.ts).            *)
ArchivedStaysArchived ==
  \A s \in Schedules :
    [](schedule[s].status = "ARCHIVED" => [](schedule[s].status # "ACTIVE"))

=============================================================================
