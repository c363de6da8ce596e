----------------------------- MODULE MCLiveness -----------------------------
(***************************************************************************)
(* What must eventually happen in the schedules, the update controller,    *)
(* the Runner's service loop and the delivery of progress, each under its  *)
(* own fairness.  A behaviour is one of a single component, named by       *)
(* scope; the others stay at their initial state.                          *)
(***************************************************************************)
EXTENDS MCRunSchedule

VARIABLES
  scope,
  journal, active, bound, svc, installed, torn, activated, staging,
  schema, updatePc, mem, ops, faults,
  conn, draining, snapshot, gate, silent, remoteReady, worker, currentWorker,
  flow, statusFile, updateJournal, changes, updater,
  emitted, buffered, chain, try, reply, late, losses, failure, aborted,
  accepted, leased, cancel, phase

updateVars == <<journal, active, bound, svc, installed, torn, activated,
                staging, schema, updatePc, mem, ops, faults>>
serviceVars == <<conn, draining, snapshot, gate, silent, remoteReady, worker,
                 currentWorker, flow, statusFile, updateJournal, changes,
                 updater>>
progressVars == <<emitted, buffered, chain, try, reply, late, losses,
                  failure, aborted, accepted, leased, cancel, phase>>

Update == INSTANCE RunnerUpdate WITH
  MaxRelease <- 4, Writes <- <<1, 1, 1, 2>>,
  Reads <- <<{1}, {1}, {1, 2}, {1, 2}>>,
  MaxOps <- 2, MaxFaults <- 2, TornRemoval <- FALSE

Service == INSTANCE RunnerService WITH MaxSessions <- 1, MaxJournal <- 1

Progress == INSTANCE ProgressChannel WITH
  Events <- 2, Capacity <- 1, Attempts <- 2

MCInit ==
  /\ scope \in {"schedule", "update", "service", "progress"}
  /\ Init /\ Update!UpdateInit /\ Service!ServiceInit /\ Progress!ProgressInit

Schedule(A) ==
  scope = "schedule" /\ A /\ UNCHANGED <<updateVars, serviceVars, progressVars>>
Updating(A) ==
  scope = "update" /\ A /\ UNCHANGED <<vars, serviceVars, progressVars>>
Serving(A) ==
  scope = "service" /\ A /\ UNCHANGED <<vars, updateVars, progressVars>>
Delivering(A) ==
  scope = "progress" /\ A /\ UNCHANGED <<vars, updateVars, serviceVars>>

MCNext ==
  \/ UNCHANGED scope /\ Schedule(Next)
  \/ UNCHANGED scope /\ Updating(Update!UpdateNext)
  \/ UNCHANGED scope /\ Serving(Service!ServiceNext)
  \/ UNCHANGED scope /\ Delivering(Progress!ProgressNext)

allVars == <<scope, vars, updateVars, serviceVars, progressVars>>

\* The fairness each module states.  Actions of different scopes never
\* compete, so one condition speaks for one action of every component.
Fair(A) == UNCHANGED scope /\ A
MCFairness ==
  /\ WF_allVars(Fair(
       \/ Schedule(Elapse) \/ Updating(Update!UpdateStep)
       \/ Serving(Service!ConnectNext)
       \/ Delivering(Progress!ExecutionEnds \/ Progress!emitRefused)))
  /\ WF_allVars(Fair(
       \/ Schedule(\E k \in Schedulers : TickStep(k))
       \/ Updating(Update!recover) \/ Serving(Service!WatchNext)
       \/ Delivering(Progress!Deliver)))
  /\ WF_allVars(Fair(
       Serving(Service!BeatNext) \/ Delivering(Progress!FinishRun)))
  /\ \A f \in Service!Flows :
       WF_allVars(Fair(Serving(Service!ReadJournal(f))))
  /\ \A w \in Service!Sessions :
       WF_allVars(Fair(Serving(Service!WorkerNext(w))))
  /\ WF_allVars(Fair(Serving(
       Service!drainRunWorker \/ Service!SessionReturns)))
  /\ WF_allVars(Fair(Serving(Service!UpdateWaitForDrain)))

MCSpec == MCInit /\ [][MCNext]_allVars /\ MCFairness

\* The occurrence of every run that ends is closed by a later tick, though
\* on each tick the time-out of an overdue occurrence is refused and rolled
\* back before (processTick, reconcileTimedOutOccurrences).  Nothing is
\* claimed of the occurrence of a run that is never claimed: it stays open
\* (UnclaimedIsTimedOut, RunScheduleUnclaimed.cfg).
OccurrencesClose ==
  scope = "schedule" => \A t \in {1, 3} : EndedRunCloses(<<d1, t>>)

\* The Runner's own waits end: an interrupted update settles once recover
\* runs after the crash, a stop ends the service process, an update that waits
\* for the Runner to drain gets its answer, and an execution ends whatever
\* becomes of its progress events.
RunnerSettles ==
  /\ scope = "update" => Update!UpdateSettles
  /\ scope = "service" => Service!StopCompletes
  /\ scope = "service" => Service!UpdateDrainSettles
  /\ scope = "progress" => Progress!DeliverySettles
=============================================================================
