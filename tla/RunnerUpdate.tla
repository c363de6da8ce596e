---------------------------- MODULE RunnerUpdate ----------------------------
(***************************************************************************)
(* The local update controller of the Runner: apply, manual rollback and   *)
(* crash recovery over the update journal, the active-release record, the  *)
(* directory of installed releases and the Windows service, each of which  *)
(* changes in a step of its own.  A step may throw, and the process may    *)
(* die between any two of them; `recover' is then run by the operator.     *)
(***************************************************************************)
EXTENDS Integers, FiniteSets, TLC

CONSTANTS
  MaxRelease,   \* releases are 1..MaxRelease in version order; 1 is initial
  Writes,       \* the state schema each release writes
  Reads,        \* the state schemas each release can read
  MaxOps,       \* bound: applies and manual rollbacks begun
  MaxFaults,    \* bound: steps that throw and processes that die
  TornRemoval   \* TRUE: a process may die half way through a removal

\* What the theorems assume of the constants: neither an order of the
\* schemas nor anything of what a release can read.
UpdateConstants ==
  /\ MaxRelease \in Nat \ {0} /\ MaxOps \in Nat /\ MaxFaults \in Nat
  /\ TornRemoval \in BOOLEAN

Releases == 1 .. MaxRelease
None == 0

VARIABLES
  journal,     \* [op, src, tgt, state], the update journal
  active,      \* [cur, prev], the active-release record
  bound,       \* the release whose executable the service is bound to
  svc,         \* "running" or "stopped"
  installed,   \* releases whose directory and record are complete
  torn,        \* releases whose directory lost its record
  activated,   \* installed releases with an activation configuration
  staging,     \* <<src, tgt>> of the staging directories that exist
  schema,      \* schema version of the persisted local state
  updatePc,          \* next step of the controller process; "off": none runs
  mem,         \* its local flags [target, switched, rebound, stopped]
  ops, faults

updateVars == <<journal, active, bound, svc, installed, torn, activated,
                staging, schema, updatePc, mem, ops, faults>>

PreSwitch == {"preparing", "draining", "staging", "ready_to_switch"}
TargetStart == {"switching", "starting_target", "verifying_target"}
Settled == {"idle", "succeeded", "failed_before_switch", "rolled_back"}
Manual == "manual_recovery_required"
States == PreSwitch \cup TargetStart \cup Settled
            \cup {"rolling_back", Manual}

\* state-machine.ts: where the journal may go from each state.
AllowedFrom ==
  ("idle" :> {"preparing"}) @@
  ("preparing" :> {"draining", "failed_before_switch", Manual}) @@
  ("draining" :> {"staging", "rolling_back", "failed_before_switch",
                  Manual}) @@
  ("staging" :> {"ready_to_switch", "failed_before_switch", Manual}) @@
  ("ready_to_switch" :> {"switching", "failed_before_switch", Manual}) @@
  ("switching" :> {"starting_target", "rolling_back",
                   "failed_before_switch", Manual}) @@
  ("starting_target" :> {"verifying_target", "rolling_back", Manual}) @@
  ("verifying_target" :> {"succeeded", "rolling_back", Manual}) @@
  ("rolling_back" :> {"rolled_back", Manual}) @@
  [s \in Settled \ {"idle"} |-> {"idle"}] @@ (Manual :> {})

-----------------------------------------------------------------------------
(* Compatibility                                                           *)

\* evaluateUpgradePreflight with decision 'compatible': the release reads
\* the schema and writes that very version (no migration, no downgrade).
evaluateUpgradePreflight(to, version) ==
  version \in Reads[to] /\ Writes[to] = version

\* evaluateRunnerInstallationCompatibility on the local-state axis.
InstallationCompatible(from, to) ==
  schema \in Reads[to] /\ Writes[to] \in Reads[from]

\* evaluateRunnerUpdatePreflight and createRunnerUpdatePlan: newer, readable
\* now, and the source could read what the target may write.
UpdateAllowed(from, to) ==
  /\ to > from
  /\ evaluateUpgradePreflight(to, schema)
  /\ evaluateUpgradePreflight(from, Writes[to])
  /\ InstallationCompatible(from, to)

isCompatibleRollback(from, to) ==
  evaluateUpgradePreflight(to, schema) /\ InstallationCompatible(from, to)

-----------------------------------------------------------------------------
(* Stores and service                                                      *)

\* installedReleases.findVerified: one directory without a record makes
\* every lookup throw.
LookupThrows == torn # {}
Verified(r) == r \in installed

Transition(state) ==
  /\ state \in AllowedFrom[journal.state]
  /\ journal' = [journal EXCEPT !.state = state]

\* A transition whose error the caller swallows.
TryTransition(state) ==
  journal' = IF state \in AllowedFrom[journal.state]
             THEN [journal EXCEPT !.state = state] ELSE journal

\* What the running Runner reports to a health check: it is unhealthy while
\* the journal still says that it should drain.
MaintenanceIsDraining ==
  journal.state \in {"draining", "staging", "ready_to_switch", "switching"}
MayBeHealthy(r, b, s) ==
  s = "running" /\ b = r /\ ~MaintenanceIsDraining /\ schema \in Reads[r]

\* Starting a release may write its schema.
Started(r) == schema' \in {schema, Writes[r]}

NoMem == [target |-> FALSE, switched |-> FALSE, rebound |-> FALSE,
          stopped |-> FALSE]

UpdateTypeOK ==
  /\ journal \in [op : {"none", "apply", "manual_rollback"},
                  src : Releases \cup {None}, tgt : Releases \cup {None},
                  state : States]
  /\ active \in [cur : Releases, prev : Releases \cup {None}]
  /\ bound \in Releases /\ svc \in {"running", "stopped"}
  /\ {installed, torn, activated} \subseteq SUBSET Releases
  /\ staging \subseteq Releases \X Releases
  /\ ops \in 0 .. MaxOps /\ faults \in 0 .. MaxFaults

UpdateInit ==
  /\ journal = [op |-> "none", src |-> None, tgt |-> None, state |-> "idle"]
  /\ active = [cur |-> 1, prev |-> None]
  /\ bound = 1 /\ svc = "running"
  /\ installed = {1} /\ torn = {} /\ activated = {1} /\ staging = {}
  /\ schema = Writes[1]
  /\ updatePc = "off" /\ mem = NoMem /\ ops = 0 /\ faults = 0

src == journal.src
tgt == journal.tgt

At(p) == updatePc = p
Goto(p) == updatePc' = p
Fault == faults < MaxFaults /\ faults' = faults + 1
NoFault == UNCHANGED faults

stores == <<installed, torn, activated, staging>>
service == <<bound, svc, schema>>

-----------------------------------------------------------------------------
(* apply and rollback up to the switch                                     *)

\* Verification, lock, preflight and journal.begin: the old journal is first
\* written back as idle, then replaced by the new one.
BeginUpdate(op, t) ==
  /\ At("off") /\ ops < MaxOps /\ ~LookupThrows
  /\ journal.state \in Settled
  /\ Verified(active.cur)
  /\ journal' = [op |-> op, src |-> active.cur, tgt |-> t, state |-> "idle"]
  /\ mem' = NoMem /\ ops' = ops + 1 /\ Goto("prepare")
  /\ UNCHANGED <<active, service, stores, faults>>

apply(t) == UpdateAllowed(active.cur, t) /\ BeginUpdate("apply", t)

rollback ==
  /\ active.prev # None /\ Verified(active.prev)
  /\ isCompatibleRollback(active.cur, active.prev)
  /\ BeginUpdate("manual_rollback", active.prev)

prepare ==
  /\ At("prepare") /\ Transition("preparing") /\ Goto("drain")
  /\ NoFault /\ UNCHANGED <<active, service, stores, mem, ops>>

drain ==
  /\ At("drain") /\ Transition("draining") /\ Goto("waitForDrain")
  /\ NoFault /\ UNCHANGED <<active, service, stores, mem, ops>>

\* Drained, or given up: the Runner was busy until the deadline.
waitForDrain ==
  /\ At("waitForDrain") /\ NoFault
  /\ \/ Transition("staging") /\ Goto("stageAndCommit")
     \/ Transition("failed_before_switch") /\ Goto("cleanup")
  /\ UNCHANGED <<active, service, stores, mem, ops>>

\* Copy, verify and extract into the staging directory; a target that is
\* installed already, or a staging directory left behind, is an error.
stageAndCommit ==
  /\ At("stageAndCommit") /\ NoFault
  /\ IF journal.op = "manual_rollback"
     THEN Goto("ready") /\ UNCHANGED staging
     ELSE IF tgt \in installed \cup torn \/ <<src, tgt>> \in staging
     THEN Goto("catch") /\ UNCHANGED staging
     ELSE Goto("commitStaged") /\ staging' = staging \cup {<<src, tgt>>}
  /\ UNCHANGED <<journal, active, service, installed, torn, activated, mem,
                 ops>>

\* The rename that makes the staged directory an installed release.
commitStaged ==
  /\ At("commitStaged") /\ Goto("prepareActivation") /\ NoFault
  /\ installed' = installed \cup {tgt}
  /\ staging' = staging \ {<<src, tgt>>}
  /\ mem' = [mem EXCEPT !.target = TRUE]
  /\ UNCHANGED <<journal, active, service, torn, activated, ops>>

prepareActivation ==
  /\ At("prepareActivation") /\ Goto("ready") /\ NoFault
  /\ activated' = activated \cup {tgt}
  /\ UNCHANGED <<journal, active, service, installed, torn, staging, mem,
                 ops>>

\* assertCurrentServiceExecutable, then the source counts as stopped.
ready ==
  /\ At("ready") /\ Transition("ready_to_switch") /\ NoFault
  /\ IF bound = src THEN Goto("stop") /\ mem' = [mem EXCEPT !.stopped = TRUE]
                    ELSE Goto("catch") /\ UNCHANGED mem
  /\ UNCHANGED <<active, service, stores, ops>>

-----------------------------------------------------------------------------
(* The switch                                                              *)

stopAndWait ==
  /\ At("stop") /\ svc' = "stopped" /\ Goto("switching") /\ NoFault
  /\ UNCHANGED <<journal, active, bound, schema, stores, mem, ops>>

switching ==
  /\ At("switching") /\ Transition("switching") /\ Goto("rebind") /\ NoFault
  /\ UNCHANGED <<active, service, stores, mem, ops>>

rebind ==
  /\ At("rebind") /\ svc = "stopped" /\ bound = src
  /\ bound' = tgt /\ mem' = [mem EXCEPT !.rebound = TRUE]
  /\ Goto("switch") /\ NoFault
  /\ UNCHANGED <<journal, active, svc, schema, stores, ops>>

\* activeRelease.switch: the replaced release becomes the previous one.
SwitchRecord == active' = [cur |-> tgt, prev |-> active.cur]

switch ==
  /\ At("switch") /\ active.cur = src /\ SwitchRecord
  /\ mem' = [mem EXCEPT !.switched = TRUE]
  /\ Goto("starting") /\ NoFault
  /\ UNCHANGED <<journal, service, stores, ops>>

starting ==
  /\ At("starting") /\ Transition("starting_target") /\ Goto("start")
  /\ NoFault /\ UNCHANGED <<active, service, stores, mem, ops>>

startAndWait ==
  /\ At("start") /\ svc' = "running" /\ Started(bound)
  /\ Goto("verifying") /\ NoFault
  /\ UNCHANGED <<journal, active, bound, stores, mem, ops>>

verifying ==
  /\ At("verifying") /\ Transition("verifying_target") /\ Goto("health")
  /\ NoFault /\ UNCHANGED <<active, service, stores, mem, ops>>

\* verifyHealth; an unhealthy target is rolled back.
verifyHealth ==
  /\ At("health") /\ NoFault
  /\ \/ /\ MayBeHealthy(tgt, bound, svc)
        /\ Transition("succeeded") /\ Goto("retain")
     \/ Transition("rolling_back") /\ Goto("rb_stop")
  /\ UNCHANGED <<active, service, stores, mem, ops>>

-----------------------------------------------------------------------------
(* Removal, retention and the error path                                   *)

\* decideReleaseRetention with its default of two: the current and the
\* previous release, and both ends of an update that is still under way.
Retained ==
  {active.cur, active.prev}
    \cup (IF journal.state \in Settled THEN {} ELSE {src, tgt})

Remove(rs) ==
  /\ installed' = installed \ rs /\ activated' = activated \ rs
  /\ UNCHANGED torn

applyRetention ==
  /\ At("retain") /\ Goto("off") /\ NoFault
  /\ IF LookupThrows THEN UNCHANGED <<installed, activated, torn>>
                     ELSE Remove(installed \ Retained)
  /\ UNCHANGED <<journal, active, service, staging, mem, ops>>

\* The end of the catch blocks: the staging directory goes, and a target
\* this apply installed and did not switch to.
cleanup ==
  /\ At("cleanup") /\ Goto("off") /\ NoFault
  /\ staging' = staging \ {<<src, tgt>>}
  /\ IF journal.op = "apply" /\ mem.target /\ ~mem.switched /\ ~LookupThrows
     THEN Remove({tgt})
     ELSE UNCHANGED <<installed, activated, torn>>
  /\ UNCHANGED <<journal, active, service, mem, ops>>

\* A removal interrupted after the record file is gone.
TornDeath(rs) ==
  \E r \in rs :
    /\ installed' = installed \ {r} /\ activated' = activated \ {r}
    /\ torn' = torn \cup {r}

\* ensureRunning starts whatever the service is bound to.
EnsureRunning(ok) ==
  /\ ok => Verified(bound) /\ bound \in activated
  /\ svc' = IF ok THEN "running" ELSE svc
  /\ IF ok THEN Started(bound) ELSE UNCHANGED schema

\* Mutant: the catch does not look which release the service is bound to.
CatchForgetsTheBinding ==
  /\ At("catch") /\ ~mem.switched /\ UNCHANGED <<svc, schema>> /\ NoFault
  /\ TryTransition("failed_before_switch") /\ Goto("cleanup")
  /\ UNCHANGED <<active, bound, stores, mem, ops>>

\* The catch of apply and of switchForManualRollback when the active record
\* was not switched: with the source still bound it is started again and the
\* update has failed before the switch, else the operator has to decide.
catchBeforeSwitch ==
  /\ At("catch") /\ ~mem.switched
  /\ \E restarted \in BOOLEAN :
       LET retry == mem.stopped /\ ~mem.rebound /\ bound = src
           lost == \/ mem.rebound
                   \/ mem.stopped /\ (bound # src \/ ~restarted)
       IN /\ retry \/ restarted
          /\ IF ~restarted THEN Fault ELSE NoFault
          /\ IF retry THEN EnsureRunning(restarted)
                      ELSE UNCHANGED <<svc, schema>>
          /\ IF lost THEN TryTransition(Manual) /\ Goto("off")
             ELSE TryTransition("failed_before_switch") /\ Goto("cleanup")
  /\ UNCHANGED <<active, bound, stores, mem, ops>>

\* The catch after the switch: an update still on its way is rolled back.
catchAfterSwitch ==
  /\ At("catch") /\ mem.switched /\ NoFault
  /\ IF journal.state \in TargetStart
     THEN Transition("rolling_back") /\ Goto("rb_stop")
     ELSE UNCHANGED journal /\ Goto("off")
  /\ UNCHANGED <<active, service, stores, mem, ops>>

-----------------------------------------------------------------------------
(* rollbackAfterFailedTarget                                               *)

\* Any failure of it is left to the operator.
RollbackFails ==
  /\ TryTransition(Manual) /\ Goto("off")

rb_stop ==
  /\ At("rb_stop") /\ NoFault
  /\ IF ~LookupThrows /\ Verified(src) /\ isCompatibleRollback(tgt, src)
     THEN svc' = "stopped" /\ Goto("rb_rebind") /\ UNCHANGED journal
     ELSE RollbackFails /\ UNCHANGED svc
  /\ UNCHANGED <<active, bound, schema, stores, mem, ops>>

rb_rebind ==
  /\ At("rb_rebind") /\ NoFault
  /\ IF svc = "stopped" /\ bound = tgt
     THEN bound' = src /\ Goto("rb_switch") /\ UNCHANGED journal
     ELSE RollbackFails /\ UNCHANGED bound
  /\ UNCHANGED <<active, svc, schema, stores, mem, ops>>

rb_switch ==
  /\ At("rb_switch") /\ NoFault
  /\ IF active.cur = tgt
     THEN /\ active' = [cur |-> src, prev |-> active.cur]
          /\ Goto("rb_start") /\ UNCHANGED journal
     ELSE RollbackFails /\ UNCHANGED active
  /\ UNCHANGED <<service, stores, mem, ops>>

rb_start ==
  /\ At("rb_start") /\ svc' = "running" /\ Started(bound)
  /\ Goto("rb_health") /\ NoFault
  /\ UNCHANGED <<journal, active, bound, stores, mem, ops>>

rb_health ==
  /\ At("rb_health") /\ NoFault
  /\ \/ /\ MayBeHealthy(src, bound, svc)
        /\ Transition("rolled_back") /\ Goto("retain")
     \/ RollbackFails
  /\ UNCHANGED <<active, service, stores, mem, ops>>

-----------------------------------------------------------------------------
(* recover                                                                 *)

ActiveSource ==
  /\ active.cur = src
  /\ journal.state = "rolling_back" => active.prev = tgt
ActiveTarget == active.cur = tgt /\ tgt \in activated /\ active.prev = src

observedServiceRelease ==
  IF bound = src /\ ActiveSource THEN "source"
  ELSE IF bound = tgt /\ tgt \in activated /\ ActiveTarget THEN "target"
  ELSE "ambiguous"

SafelyPreSwitch ==
  \/ journal.state \in PreSwitch
  \/ journal.state = "switching" /\ observedServiceRelease = "source"

rollbackSafety ==
  IF Verified(tgt) /\ isCompatibleRollback(tgt, src) THEN "safe"
  ELSE "unsafe"

\* decideCrashRecovery for the states that are not safely before the switch.
decideCrashRecovery(healthy) ==
  LET observed == observedServiceRelease IN
  IF rollbackSafety # "safe" THEN "manual"
  ELSE IF journal.state \in TargetStart /\ observed = "target"
    THEN IF healthy THEN "complete_target" ELSE "begin_rollback"
  ELSE IF journal.state = "rolling_back" /\ observed = "source" /\ healthy
    THEN "complete_rollback"
  ELSE IF journal.state = "rolling_back" /\ observed = "target"
    THEN "retry_rollback"
  ELSE "manual"

\* recover takes the lock and looks: one torn directory and it throws, with
\* everything as it was.
CanRecover ==
  At("off") /\ journal.state \notin Settled \cup {Manual} /\ ~LookupThrows

\* No proof or activation of the source can be loaded (now, or at all), or
\* before the switch the source is not what is selected.
recoverManually ==
  /\ CanRecover /\ Transition(Manual)
  /\ \/ Fault
     \/ /\ \/ ~Verified(src) \/ src \notin activated
           \/ SafelyPreSwitch /\ observedServiceRelease # "source"
        /\ NoFault
  /\ UNCHANGED <<active, service, stores, updatePc, mem, ops>>

MayRemoveTarget == tgt # active.cur /\ tgt # active.prev

recoverBeforeSwitch ==
  /\ CanRecover /\ Verified(src) /\ src \in activated
  /\ SafelyPreSwitch /\ observedServiceRelease = "source"
  /\ Goto("rec_remove") /\ NoFault
  /\ UNCHANGED <<journal, active, service, stores, mem, ops>>

\* Before the switch: staging and target go, the source is made to run.
rec_remove ==
  /\ At("rec_remove") /\ Goto("rec_start") /\ NoFault
  /\ staging' = staging \ {<<src, tgt>>}
  /\ IF journal.op = "apply" /\ MayRemoveTarget THEN Remove({tgt})
     ELSE UNCHANGED <<installed, activated, torn>>
  /\ UNCHANGED <<journal, active, service, mem, ops>>

rec_start ==
  /\ At("rec_start") /\ Goto("off")
  /\ \/ EnsureRunning(TRUE) /\ Transition("failed_before_switch") /\ NoFault
     \/ EnsureRunning(FALSE) /\ Transition(Manual) /\ Fault
  /\ UNCHANGED <<active, bound, stores, mem, ops>>

\* After it: the bound release is started afresh and its health decides.
recoverAfterSwitch ==
  /\ CanRecover /\ Verified(src) /\ src \in activated /\ ~SafelyPreSwitch
  /\ IF observedServiceRelease = "ambiguous" THEN UNCHANGED <<svc, schema>>
     ELSE svc' = "running" /\ Started(bound)
  /\ Goto("rec_decide") /\ NoFault
  /\ UNCHANGED <<journal, active, bound, stores, mem, ops>>

rec_decide ==
  /\ At("rec_decide") /\ NoFault
  /\ \E healthy \in BOOLEAN :
       /\ healthy => MayBeHealthy(bound, bound, svc)
       /\ LET action == decideCrashRecovery(healthy) IN
          \/ /\ action = "complete_target"
             /\ UNCHANGED journal /\ Goto("rec_complete")
          \/ /\ action = "begin_rollback"
             /\ Transition("rolling_back") /\ Goto("rb_stop")
          \/ /\ action = "retry_rollback"
             /\ UNCHANGED journal /\ Goto("rb_stop")
          \/ /\ action = "complete_rollback"
             /\ Transition("rolled_back") /\ Goto("retain")
          \/ action = "manual" /\ Transition(Manual) /\ Goto("off")
  /\ UNCHANGED <<active, service, stores, mem, ops>>

\* completeRecoveredTarget walks the journal forward, a write at a time.
completeRecoveredTarget ==
  /\ At("rec_complete") /\ NoFault
  /\ \/ /\ journal.state = "starting_target"
        /\ Transition("verifying_target") /\ UNCHANGED updatePc
     \/ Transition("succeeded") /\ Goto("retain")
  /\ UNCHANGED <<active, service, stores, mem, ops>>

-----------------------------------------------------------------------------
(* Faults                                                                  *)

InTry == {"drain", "waitForDrain", "stageAndCommit", "commitStaged",
          "prepareActivation", "ready", "stop", "switching", "rebind",
          "switch", "starting", "start", "verifying"}
InRollback == {"rb_rebind", "rb_switch", "rb_start"}

\* A step of apply or rollback throws.  The service operations may have had
\* their effect, or none: each waits for a state and gives up.
StepThrows ==
  /\ updatePc \in InTry /\ Fault /\ Goto("catch")
  /\ \/ UNCHANGED service
     \/ At("stop") /\ svc' = "stopped" /\ UNCHANGED <<bound, schema>>
     \/ At("rebind") /\ bound' = tgt /\ UNCHANGED <<svc, schema>>
     \/ At("start") /\ svc' = "running" /\ Started(bound) /\ UNCHANGED bound
  /\ UNCHANGED <<journal, active, stores, mem, ops>>

RollbackStepThrows ==
  /\ updatePc \in InRollback /\ Fault /\ RollbackFails
  /\ \/ UNCHANGED service
     \/ At("rb_rebind") /\ bound' = src /\ UNCHANGED <<svc, schema>>
     \/ At("rb_start") /\ svc' = "running" /\ Started(bound)
        /\ UNCHANGED bound
  /\ UNCHANGED <<active, stores, mem, ops>>

BeingRemoved ==
  CASE At("retain") -> installed \ Retained
    [] At("cleanup") /\ journal.op = "apply" /\ mem.target
         /\ ~mem.switched -> installed \cap {tgt}
    [] At("rec_remove") /\ journal.op = "apply" /\ MayRemoveTarget ->
         installed \cap {tgt}
    [] OTHER -> {}

\* The controller process dies; what it was removing may be left torn.
Crash ==
  /\ ~At("off") /\ Fault /\ Goto("off") /\ mem' = NoMem
  /\ \/ UNCHANGED <<installed, activated, torn>>
     \/ TornRemoval /\ TornDeath(BeingRemoved)
  /\ UNCHANGED <<journal, active, service, staging, ops>>

-----------------------------------------------------------------------------
UpdateStep ==
  \/ prepare \/ drain \/ waitForDrain \/ stageAndCommit \/ commitStaged
  \/ prepareActivation \/ ready \/ stopAndWait \/ switching \/ rebind
  \/ switch \/ starting \/ startAndWait \/ verifying \/ verifyHealth
  \/ applyRetention \/ cleanup \/ catchBeforeSwitch \/ catchAfterSwitch
  \/ rb_stop \/ rb_rebind \/ rb_switch \/ rb_start \/ rb_health
  \/ rec_remove \/ rec_start \/ rec_decide \/ completeRecoveredTarget

recover == recoverManually \/ recoverBeforeSwitch \/ recoverAfterSwitch

UpdateNext ==
  \/ \E t \in Releases : apply(t)
  \/ rollback \/ recover \/ UpdateStep
  \/ StepThrows \/ RollbackStepThrows \/ Crash

UpdateSpec == UpdateInit /\ [][UpdateNext]_updateVars

\* A live controller takes its next step, and the operator runs recover.
UpdateFairSpec ==
  UpdateSpec /\ WF_updateVars(UpdateStep) /\ WF_updateVars(recover)

-----------------------------------------------------------------------------
(* Properties                                                              *)

\* When an update has ended without asking for the operator, the service is
\* bound to the release of the active record, that release is the target
\* exactly if the update succeeded, and it is installed, activated and
\* running (update-controller.ts, the whole of apply, rollback, recover).
EndsServingTheRecord ==
  (At("off") /\ journal.state \in Settled \ {"idle"}) =>
    /\ bound = active.cur /\ svc = "running"
    /\ bound \in installed \cap activated
    /\ (active.cur = tgt) <=> (journal.state = "succeeded")

\* The current and the previous release stay installed through every
\* removal: retention, the error paths and recovery.
PairStaysInstalled ==
  {active.cur, active.prev} \ {None} \subseteq installed

\* A failed apply can always be rolled back as far as the persisted state
\* goes: whatever the target wrote, the source still reads.
RollbackCanReadState ==
  (journal.op = "apply" /\ journal.state \in TargetStart \cup
     {"rolling_back"}) => isCompatibleRollback(tgt, src)

\* Service binding and active record disagree only within the two switches,
\* and a process that stops there leaves that for recover to call manual.
DisagreementIsVisible ==
  bound # active.cur =>
    journal.state \in {"switching", "rolling_back", Manual}

\* What apply, rollback and recover keep, whoever of them is interrupted
\* (update-controller.ts).
UpdateIsSafe ==
  EndsServingTheRecord /\ PairStaysInstalled /\ RollbackCanReadState
    /\ DisagreementIsVisible

\* An interrupted update ends, if the operator runs recover: in a settled
\* state or in the one that asks for a person.
UpdateSettles ==
  (journal.state \notin Settled \cup {Manual})
    ~> (journal.state \in Settled \cup {Manual})

\* docs/runner-update-recovery.md: before the switch, with the source
\* selected, recover removes what is incomplete and finishes the update.
RecoverFinishesBeforeSwitch ==
  (At("off") /\ journal.state \in PreSwitch /\ bound = src
     /\ active.cur = src)
    ~> (journal.state \in Settled \cup {Manual})
=============================================================================
