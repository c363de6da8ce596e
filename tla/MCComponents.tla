----------------------------- MODULE MCComponents -----------------------------
(***************************************************************************)
(* Schedules and components that stand on their own: the two schedules of  *)
(* MCRunSchedule with one scheduler process; Two, one schedule that two    *)
(* processes serve; Series, the calculation for every kind of schedule in  *)
(* UTC, in a zone east of it and one west of it that spring forward or     *)
(* fall back at midnight, an hour later or in the last hour of a day; and  *)
(* the alerts, the acceptance of runs, the recorder of the browser         *)
(* extension and the Windows service.  A behaviour is one of a single      *)
(* component, named by scope; all but the schedules share the variables    *)
(* s1, s2, ....                                                            *)
(***************************************************************************)
EXTENDS MCRunSchedule

CONSTANTS k1, k2

VARIABLES
  scope,   \* the component of this behaviour, which no step changes
  s1, s2, s3, s4, s5, s6, s7, s8, s9, s10, s11, s12, s13   \* its state

slots == <<s1, s2, s3, s4, s5, s6, s7, s8, s9, s10, s11, s12, s13>>

Two == INSTANCE RunSchedule WITH
  nextFiring <- answered,
  Schedules <- {d1}, Schedulers <- {k1, k2}, MaxTime <- 3, MaxCrashes <- 0,
  Definition <- [s \in {d1} |-> Daily], RunnerOf <- [s \in {d1} |-> r1]

MCZones ==
  {UTC} \cup
  {[base |-> b, at |-> 8 - b + hour, shift |-> s] :
     b \in {1, -1}, hour \in {0, 1, 3}, s \in {-1, 1}}

MCDefinitions ==
  [type : {"one_time"}, zone : MCZones, start : {2}, end : {NoDay},
   hour : {1}, interval : {1}, weekdays : {{}}] \cup
  [type : {"daily"}, zone : MCZones, start : {1, 2}, end : {NoDay, 4},
   hour : {0, 1, 3}, interval : {1, 2}, weekdays : {{}}] \cup
  [type : {"weekly"}, zone : MCZones, start : {1, 2}, end : {NoDay, 4},
   hour : {1, 3}, interval : {1, 2}, weekdays : {{1}, {2, 3}}]

Series == INSTANCE OccurrenceSeries WITH
  HoursPerDay <- 4, DaysPerWeek <- 3, MaxSearchWeeks <- 6,
  Horizon <- 24, MaxLate <- 4, Definitions <- MCDefinitions,
  def <- s1, after <- s2, last <- s3

Alerts == INSTANCE Notifications WITH
  Users <- {"creator"}, Creator <- "creator", Workers <- {"w1", "w2"},
  MaxAttempts <- 2, MaxChanges <- 2, MaxLeft <- 1,
  role <- s1, alert <- s2, counted <- s3, msg <- s4, cycle <- s5,
  tasks <- s6, inbox <- s7, changes <- s8, lost <- s9, late <- s10

Readiness == INSTANCE WorkflowReadiness WITH
  MaxSteps <- 3, MaxMoves <- 1,
  steps <- s1, declared <- s2, published <- s3, policy <- s4, aliases <- s5,
  scheduled <- s6, run <- s7

Recorder == INSTANCE RecorderSession WITH
  MaxSessions <- 2, MaxEvents <- 3, MAX_RECORDING_EVENTS <- 2,
  MaxStops <- 1, MaxFailures <- 1,
  state <- s1, timeline <- s2, archived <- s3, outbox <- s4, command <- s5,
  handling <- s6, inbox <- s7, page <- s8, acked <- s9, stopped <- s10,
  session <- s11, event <- s12, faults <- s13

Windows == INSTANCE WindowsService WITH
  Activations <- {"a"}, MaxStarts <- 2, silent <- s13,
  scm <- s1, deleting <- s2, bound <- s3, disk <- s4, attempt <- s5,
  process <- s6, status <- s7, todo <- s8, target <- s9, proofs <- s10,
  baseline <- s11, verdict <- s12

\* With one scheduler the users pause and archive the daily schedule only.
UsersLeaveOneTime == schedule'[o1].status \notin {"PAUSED", "ARCHIVED"}

MCInit ==
  \/ /\ scope \in {"one", "two"}
     /\ CASE scope = "one" -> Init [] scope = "two" -> Two!Init
     /\ s1 = 0 /\ s2 = 0 /\ s3 = 0 /\ s4 = 0 /\ s5 = 0 /\ s6 = 0 /\ s7 = 0
     /\ s8 = 0 /\ s9 = 0 /\ s10 = 0 /\ s11 = 0 /\ s12 = 0 /\ s13 = 0
  \/ /\ scope = "series" /\ Init /\ Series!Init
     /\ s4 = 0 /\ s5 = 0 /\ s6 = 0 /\ s7 = 0 /\ s8 = 0 /\ s9 = 0 /\ s10 = 0
     /\ s11 = 0 /\ s12 = 0 /\ s13 = 0
  \/ /\ scope = "alerts" /\ Init /\ Alerts!Init
     /\ s11 = 0 /\ s12 = 0 /\ s13 = 0
  \/ /\ scope = "readiness" /\ Init /\ Readiness!Init
     /\ s8 = 0 /\ s9 = 0 /\ s10 = 0 /\ s11 = 0 /\ s12 = 0 /\ s13 = 0
  \/ /\ scope = "recorder" /\ Init /\ Recorder!Init
  \/ /\ scope = "windows" /\ Init /\ Windows!Init

MCNext ==
  \/ scope = "one" /\ Next /\ UsersLeaveOneTime /\ UNCHANGED <<scope, slots>>
  \/ scope = "two" /\ Two!Next /\ UNCHANGED <<scope, slots>>
  \/ /\ scope = "series" /\ Series!Next
     /\ UNCHANGED <<scope, vars, s4, s5, s6, s7, s8, s9, s10, s11, s12, s13>>
  \/ /\ scope = "alerts" /\ Alerts!Next
     /\ UNCHANGED <<scope, vars, s11, s12, s13>>
  \/ /\ scope = "readiness" /\ Readiness!Next
     /\ UNCHANGED <<scope, vars, s8, s9, s10, s11, s12, s13>>
  \/ scope = "recorder" /\ Recorder!Next /\ UNCHANGED <<scope, vars>>
  \/ scope = "windows" /\ Windows!Next /\ UNCHANGED <<scope, vars>>

MCVars == <<scope, vars, slots>>
MCSpec == MCInit /\ [][MCNext]_MCVars

-----------------------------------------------------------------------------
(* Each property also has the type invariant of its component.             *)


\* However the transactions of one scheduler, or of two that serve one
\* schedule, interleave with the runs and the users, a Runner gets one
\* scheduled run at a time (OneActiveRunPerRunner), an interrupted run pauses
\* its schedule when its occurrence closes (AmbiguousClosePauses), the pause
\* of the schedule that two processes serve is alerted whoever of them finds
\* it (AutoPauseIsAlerted), and one scheduler, killed and restarted,
\* dispatches the occurrences in the order of their firings
\* (DispatchesInOrder).
ScheduleSound ==
  /\ [](scope = "one" => TypeOK /\ OneActiveRunPerRunner)
  /\ [](scope = "two" => /\ Two!TypeOK /\ Two!OneActiveRunPerRunner
                         /\ Two!AutoPauseIsAlerted)
  /\ [][scope = "one" => AmbiguousClosePauses /\ DispatchesInOrder]_MCVars
  /\ [][scope = "two" => Two!AmbiguousClosePauses]_MCVars

\* Notifications.  EveryCallerAlertAccepted: Every call of append in the
\* repositories and in the audit service passes the alert schema: a refused
\* alert would roll back the transaction that ends the run or pauses the
\* schedule.
\* RecipientsCounted: The audit trail counts the recipients the alert really
\* has: a repeated append never addresses somebody the event does not count.
\* NeverStranded: No message waits for a claim that cannot come: one that
\* goes back to the queue has an attempt left, whatever leases ended and
\* workers died; only a call that a failed cycle left behind and that meets a
\* newer lease of its own worker can put a spent message back.
\* GivenUpForAReason: A message is given up only when its attempts are spent
\* or its recipient lost the right to it, and not because a lease was lost,
\* with two exceptions: a call left behind by a failed cycle, and a
\* schedule's creator, who is addressed by alerts about an occurrence and
\* then looked up by the occurrence's id among the schedules.
\* ReadStaysRead: A second delivery of the same message, after a lease that
\* ended between the notification and the update of the message, leaves a
\* notification that was read as read.
AlertsReachTheirReaders ==
  /\ [](scope = "alerts" => Alerts!TypeOK /\ Alerts!EveryCallerAlertAccepted)
  /\ [](scope = "alerts" => Alerts!RecipientsCounted)
  /\ [](scope = "alerts" => Alerts!NeverStranded)
  /\ [](scope = "alerts" => Alerts!GivenUpForAReason)
  /\ [][scope = "alerts" => Alerts!ReadStaysRead]_MCVars

\* WorkflowReadiness.  AcceptedRunExecutes: What the control plane accepts,
\* the Runner executes: a manual run ends early only when its page left the
\* place the workflow sent it to. Neither the Runner's own check of the
\* policy, nor the preflight, nor a check at a step refuses it.
\* ScheduledRunExecutes: A scheduled run is refused for two reasons only,
\* both of which its schedule's creation does not look at: it uses or
\* requires a variable, or a step comes before the first navigation.
\* UnattendedNeedsNobody: Nobody is there to approve: no step of a scheduled
\* run needs an approval under the policy the run is pinned to, however the
\* policy changed after the schedule was made.
\* RulesOnlyStrengthen: A rule can only make a policy stricter: with one rule
\* more, no step's decision gets weaker and no refused workflow becomes
\* accepted.
\* ApprovedRightBefore: The step a critical action's approval shows to the
\* user is that action: when a run comes to a step its policy wants approved,
\* the step executed right before was an approval.
\* OutputsFlow: An output is there, with the right type, when a step reads
\* it.
AcceptedMeansExecutable ==
  scope = "readiness" =>
    /\ Readiness!TypeOK
    /\ Readiness!AcceptedRunExecutes
    /\ Readiness!ScheduledRunExecutes
    /\ Readiness!UnattendedNeedsNobody
    /\ Readiness!RulesOnlyStrengthen
    /\ Readiness!ApprovedRightBefore
    /\ Readiness!OutputsFlow

\* RecorderSession.  StoppedMeansArchived: A stop that completed, also one a
\* later command finished after the worker was stopped, left an archived
\* artifact in the outbox that holds every event the page was told is
\* recorded.
\* RestartKeepsTheRecording: Stopping the worker never costs a recording: as
\* long as no write, message or page was lost, a recording with acknowledged
\* events ends in the error state only at the event limit.
RecordingSurvives ==
  scope = "recorder" =>
    /\ Recorder!TypeOK
    /\ Recorder!StoppedMeansArchived
    /\ Recorder!RestartKeepsTheRecording

\* WindowsService.  RegisteredServiceHasFiles: A registered service always
\* has all the files its binary path needs: install registers last, uninstall
\* removes last, and a rebind goes only to an activation that is complete
\* now, whatever was attested earlier.
\* HealthIsFreshUnlessSilent: A service found healthy is found so by a
\* process of the start that was asked about, also when the controller
\* crashed in between; the one status of an earlier process ever believed is
\* that of a process which reported for the first time after the controller
\* had read the status file and ended without writing so, killed at the stop
\* timeout or crashed.
ServiceIsSound ==
  scope = "windows" =>
    /\ Windows!TypeOK
    /\ Windows!RegisteredServiceHasFiles
    /\ Windows!HealthIsFreshUnlessSilent
=============================================================================
