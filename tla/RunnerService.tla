---------------------------- MODULE RunnerService ----------------------------
(***************************************************************************)
(* The service loop of the Local Runner (apps/local-runner/src/            *)
(* runner-service.ts) and the job worker it drives (job-dispatch/          *)
(* run-job-worker.ts).  One connected session owns one worker; a session   *)
(* that fails is replaced while the work of its worker may still unwind.   *)
(* Several flows of one process read the update journal, wait for the      *)
(* answer of a read, and only then apply it: the startup and heartbeat     *)
(* code (Connect, Beat), the maintenance watcher (Watch) and the claim     *)
(* loop of each worker.  A heartbeat, and the replacement of the startup   *)
(* status file, are one step with the application of the read before them. *)
(***************************************************************************)
EXTENDS Naturals, FiniteSets

CONSTANTS
  MaxSessions,  \* bound on the connected sessions of one process
  MaxJournal    \* bound on the changes of the update journal

Sessions == 1..MaxSessions
Watch == 0
Connect == MaxSessions + 1
Beat == MaxSessions + 2
Flows == Sessions \cup {Watch, Connect, Beat}
NoSession == 0

\* The maintenance states the code tells apart (service/update-maintenance).
Journal == {"inactive", "draining", "starting_target",
            "manual_recovery_required"}
\* What a request can come back with: an answer with or without a verdict on
\* compatibility, no connection, a retryable status, 401/403, another 4xx.
Answers == {"compatible", "silent", "incompatible",
            "offline", "busy", "revoked", "rejected"}
Failures == {"offline", "busy", "revoked", "rejected"}

VARIABLES
  conn,      \* where the loop of start() is
  draining,  \* the service was told to stop
  snapshot,  \* maintenanceSnapshot
  gate,      \* startupCompatibilityGate
  silent,    \* successfulResponseWithoutCompatibilityAcknowledgement
  remoteReady,     \* remoteAdmissionReady
  worker,    \* the worker of each session
  currentWorker,   \* currentWorker
  flow,      \* per flow, the journal state it has read and not yet applied
  statusFile,    \* the startup status file the updater reads
  updateJournal,   \* the update journal (written by the updater)
  changes,   \* journal changes so far
  updater    \* what the updater concluded from the status file

serviceVars == <<conn, draining, snapshot, gate, silent, remoteReady, worker,
                 currentWorker, flow, statusFile, updateJournal, changes,
                 updater>>
envVars == <<updateJournal, changes, updater>>

NoWorker == [at |-> "none", accepting |-> TRUE, stopping |-> FALSE,
             forced |-> FALSE, aborted |-> FALSE]
Unsettled(w) == w.at \in {"claiming", "executing"}

maintenanceBlocksClaims(s) == s # "inactive"
maintenanceNeedsStartupAcknowledgement(s) == s = "starting_target"

\* Mutant: a claim is admitted although the service is draining.
AdmissionForgetsTheStop(s, d) == maintenanceBlocksClaims(s) \/ ~remoteReady

claimAdmissionBlocked(s, d) == d \/ maintenanceBlocksClaims(s) \/ ~remoteReady

\* classifyHttpConnectionFailure: any other 4xx ends the service loop.
Classify(f) == IF f \in {"rejected", "revoked"} THEN "stopped" ELSE "backoff"

pauseClaims(w) == [w EXCEPT !.accepting = FALSE]
resumeClaims(w) == IF w.stopping THEN w ELSE [w EXCEPT !.accepting = TRUE]
beginDrain(w) == [w EXCEPT !.stopping = TRUE, !.accepting = FALSE]

OnCurrent(wk, Op(_)) ==
  IF currentWorker = NoSession THEN wk
  ELSE [wk EXCEPT ![currentWorker] = Op(@)]

startupState(s, d, g) ==
  IF s = "manual_recovery_required" \/ g = "failed" THEN "failed"
  ELSE IF d \/ s = "draining" THEN "draining"
  ELSE IF g = "pending" THEN "starting"
  ELSE "healthy"

\* writeStartupStatus with the state the service has after this step.
StatusRecord(s, d, g, wk, cur) ==
  LET st == startupState(s, d, g)
      has == cur # NoSession
  IN [state |-> st,
      accepts |-> /\ st = "healthy" /\ has /\ wk[cur].accepting
                  /\ ~claimAdmissionBlocked(s, d),
      active |-> has /\ Unsettled(wk[cur])]

\* refreshUpdateMaintenance: the snapshot read earlier is applied now.
WorkersAfterRead(s, wk) ==
  IF maintenanceBlocksClaims(s) THEN OnCurrent(wk, pauseClaims)
  ELSE IF draining THEN wk ELSE OnCurrent(wk, resumeClaims)

\* sendHeartbeatRequest: what an answer does to the compatibility gate.
GateAfterAnswer(a, s) ==
  CASE a = "incompatible" /\ maintenanceNeedsStartupAcknowledgement(s)
         -> "failed"
    [] gate = "pending" /\ a = "compatible" -> "satisfied"
    [] gate = "pending" /\ a = "offline" /\ ~silent -> "satisfied"
    [] OTHER -> gate
SilentAfterAnswer(a, s) ==
  \/ silent
  \/ /\ gate = "pending" /\ a \in {"silent", "incompatible"}
     /\ GateAfterAnswer(a, s) = "pending"

-----------------------------------------------------------------------------
ServiceInit ==
  /\ conn = "start" /\ draining = FALSE /\ snapshot = "inactive"
  /\ gate = "not_required" /\ silent = FALSE /\ remoteReady = FALSE
  /\ worker = [w \in Sessions |-> NoWorker] /\ currentWorker = NoSession
  /\ flow = [f \in Flows |-> "idle"]
  /\ statusFile = [state |-> "starting", accepts |-> FALSE, active |-> FALSE]
  /\ updateJournal \in {"inactive", "starting_target"} /\ changes = 0
  /\ updater = "waiting"

\* initializeUpdateRuntime, prepare and verifyLocalStartupHealth; a failed
\* probe or a journal that needs manual recovery ends the process.
initializeUpdateRuntime(healthy) ==
  /\ conn = "start"
  /\ snapshot' = updateJournal
  /\ gate' = IF maintenanceNeedsStartupAcknowledgement(updateJournal)
             THEN "pending" ELSE "not_required"
  /\ LET starts == healthy /\ updateJournal # "manual_recovery_required" IN
     /\ conn' = IF ~starts THEN "stopped"
                ELSE IF gate' = "pending" THEN "gate" ELSE "register"
     /\ statusFile' = IF ~starts THEN [statusFile EXCEPT !.state = "failed"]
                  ELSE StatusRecord(updateJournal, draining, gate', worker,
                                    currentWorker)
  /\ UNCHANGED <<draining, silent, remoteReady, worker, currentWorker, flow,
                 envVars>>

Due(f) ==
  CASE f = Watch -> conn \notin {"start", "stopped"}
    [] f = Connect -> conn \in {"gate", "grace", "beat", "admit"}
    [] f = Beat -> conn = "session" /\ ~draining
    [] OTHER -> worker[f].at = "refreshing"

\* The catch of start(): a stop that was asked for ends the loop.
Thrown(f) == IF draining THEN "stopped" ELSE Classify(f)

\* The last status a stopping service writes.
StatusWritten(rec) ==
  IF conn' = "stopped" /\ conn # "start"
  THEN [state |-> "stopped", accepts |-> FALSE, active |-> FALSE]
  ELSE rec

\* The maintenance source answers: the value travels to the flow.
ReadJournal(f) ==
  /\ Due(f) /\ flow[f] = "idle"
  /\ flow' = [flow EXCEPT ![f] = updateJournal]
  /\ UNCHANGED <<conn, draining, snapshot, gate, silent, remoteReady, worker,
                 currentWorker, statusFile, envVars>>

\* Promise.all of the session rejects: the operation is aborted, which
\* cancels the run that is executing, and the worker is forgotten.
Torn(wk) ==
  OnCurrent(wk, LAMBDA w : [w EXCEPT !.forced = TRUE,
                                     !.aborted = @ \/ w.at = "executing"])
SessionFails(f, wk) ==
  /\ conn' = Thrown(f)
  /\ worker' = Torn(wk)
  /\ currentWorker' = NoSession

\* The gate of start(): sendHeartbeatWithStartupAcknowledgementGrace.  The
\* first heartbeat may leave the gate pending; the second one settles it.
GateSettled(a, g) ==
  IF conn = "gate" \/ g # "pending" \/ a = "revoked" THEN g
  ELSE IF a = "rejected" THEN "failed"
  ELSE "satisfied"
AfterGateAnswer(a, g) ==
  IF a = "revoked" THEN "stopped"
  ELSE IF conn = "gate"
    THEN IF a = "offline" THEN Thrown(a)
         ELSE IF g = "failed" THEN "stopped"
         ELSE IF g = "pending" THEN "grace"
         ELSE IF a \in Failures THEN Thrown(a)
         ELSE "register"
  ELSE IF conn = "grace" /\ g = "pending"
    THEN IF a = "rejected" THEN "stopped"
         ELSE IF a \in Failures THEN Thrown(a)
         ELSE "register"
  ELSE "register"

\* A heartbeat of start(), before the worker exists.
ConnectSettles(a) ==
  LET s == flow[Connect]
      bad == s = "manual_recovery_required"
      g == IF bad THEN gate ELSE GateAfterAnswer(a, s)
  IN
  /\ conn \in {"gate", "grace", "beat"} /\ s # "idle"
  /\ bad => a = "compatible"
  /\ flow' = [flow EXCEPT ![Connect] = "idle"]
  /\ snapshot' = s
  /\ silent' = IF bad THEN silent ELSE SilentAfterAnswer(a, s)
  /\ gate' = IF conn = "beat" THEN g
             ELSE IF ~bad THEN GateSettled(a, g)
             ELSE IF conn = "grace" /\ g = "pending" THEN "failed" ELSE g
  /\ conn' = IF conn # "beat"
             THEN IF ~bad THEN AfterGateAnswer(a, g)
                  ELSE IF gate' = "failed" THEN "stopped" ELSE "grace"
             ELSE IF bad \/ a \in Failures
               THEN Thrown(IF bad THEN "busy" ELSE a)
             ELSE "admit"
  /\ statusFile' =
       StatusWritten(StatusRecord(s, draining, gate', worker, currentWorker))
  /\ UNCHANGED <<draining, remoteReady, worker, currentWorker, envVars>>

\* keyManager.ensureRegistered and the refresh of the secret inventory.
Register(ok) ==
  /\ conn = "register"
  /\ conn' = IF ok THEN "beat" ELSE Thrown("busy")
  /\ remoteReady' = (remoteReady \/ ok)
  /\ statusFile' = StatusWritten(statusFile)
  /\ UNCHANGED <<draining, snapshot, gate, silent, worker, currentWorker, flow,
                 envVars>>

\* runConnectedSession up to the start of its three loops.
Admit ==
  LET s == flow[Connect]
      free == {w \in Sessions : worker[w].at = "none"}
      w == CHOOSE x \in free : \A y \in free : x <= y
      fresh == [NoWorker EXCEPT !.at = "waiting",
                            !.stopping = draining,
                            !.accepting = ~claimAdmissionBlocked(s, draining)]
  IN
  /\ conn = "admit" /\ s # "idle" /\ free # {}
  /\ flow' = [flow EXCEPT ![Connect] = "idle"]
  /\ snapshot' = s
  /\ IF s = "manual_recovery_required"
     THEN conn' = Thrown("busy") /\ UNCHANGED <<worker, currentWorker>>
     ELSE /\ conn' = "session" /\ currentWorker' = w
          /\ worker' = [worker EXCEPT ![w] = fresh]
  /\ statusFile' =
       StatusWritten(StatusRecord(s, draining, gate, worker', currentWorker'))
  /\ UNCHANGED <<draining, gate, silent, remoteReady, envVars>>

-----------------------------------------------------------------------------
(* The maintenance watcher and the heartbeat loop.                         *)

\* A change of admission is reported at once; only a revocation of the
\* Runner, or a journal that needs recovery, ends the watcher and drains.
watchUpdateMaintenanceLifetime(a) ==
  LET s == flow[Watch]
      bad == s = "manual_recovery_required"
      changed == /\ ~bad
                 /\ maintenanceBlocksClaims(s)
                      # maintenanceBlocksClaims(snapshot)
      ends == \/ bad
              \/ (changed /\ a = "revoked")
      wk == WorkersAfterRead(s, worker)
  IN
  /\ conn # "stopped" /\ s # "idle" /\ (changed \/ a = "compatible")
  /\ flow' = [flow EXCEPT ![Watch] = "idle"]
  /\ snapshot' = s
  /\ draining' = (draining \/ ends)
  /\ worker' = IF ends THEN OnCurrent(wk, beginDrain) ELSE wk
  /\ gate' = IF changed THEN GateAfterAnswer(a, s) ELSE gate
  /\ silent' = IF changed THEN SilentAfterAnswer(a, s) ELSE silent
  /\ statusFile' = StatusRecord(s, draining, gate', worker', currentWorker)
  /\ UNCHANGED <<conn, remoteReady, currentWorker, envVars>>

\* A failed heartbeat rejects the session.  The heartbeat of a session that
\* is already gone changes the service's fields and nothing else.
runHeartbeatLoop(a) ==
  LET s == flow[Beat]
      bad == s = "manual_recovery_required"
      fails == bad \/ a \in Failures
      wk == WorkersAfterRead(s, worker)
  IN
  /\ s # "idle" /\ (bad => a = "compatible")
  /\ flow' = [flow EXCEPT ![Beat] = "idle"]
  /\ snapshot' = s
  /\ gate' = IF bad THEN gate ELSE GateAfterAnswer(a, s)
  /\ silent' = IF bad THEN silent ELSE SilentAfterAnswer(a, s)
  /\ IF fails /\ conn = "session"
     THEN SessionFails(IF bad THEN "busy" ELSE a, wk)
     ELSE worker' = wk /\ UNCHANGED <<conn, currentWorker>>
  /\ statusFile' =
       StatusWritten(StatusRecord(s, draining, gate', worker', currentWorker'))
  /\ UNCHANGED <<draining, remoteReady, envVars>>

-----------------------------------------------------------------------------
(* The claim loop of a worker (RunJobWorker.runLoop).                      *)

\* Mutant: a stop does not wake the worker that waits.
WaitForAcceptanceOnly(w) ==
  LET k == worker[w]
      ends == k.forced \/ k.stopping
  IN
  /\ k.at = "waiting" /\ k.accepting
  /\ worker' = [worker EXCEPT ![w].at = IF ends THEN "ended" ELSE "refreshing"]
  /\ UNCHANGED <<conn, draining, snapshot, gate, silent, remoteReady,
                 currentWorker, flow,
                 statusFile, envVars>>

\* waitUntilAccepting, and the head of the loop.
waitUntilAccepting(w) ==
  LET k == worker[w]
      ends == k.forced \/ k.stopping
  IN
  /\ k.at = "waiting" /\ (ends \/ k.accepting)
  /\ worker' = [worker EXCEPT ![w].at = IF ends THEN "ended" ELSE "refreshing"]
  /\ UNCHANGED <<conn, draining, snapshot, gate, silent, remoteReady,
                 currentWorker, flow,
                 statusFile, envVars>>

\* The error of one worker: only the session that owns it fails with it.
WorkerThrows(w, f, wk) ==
  LET gone == [wk EXCEPT ![w].at = "ended"] IN
  IF w = currentWorker THEN SessionFails(f, gone)
  ELSE worker' = gone /\ UNCHANGED <<conn, currentWorker>>

\* refreshClaimAdmission, then the claim: nothing is awaited in between.
refreshClaimAdmission(w, a) ==
  LET s == flow[w]
      bad == s = "manual_recovery_required"
      changed == /\ ~bad
                 /\ maintenanceBlocksClaims(s)
                      # maintenanceBlocksClaims(snapshot)
      wk == WorkersAfterRead(s, worker)
      blocked == claimAdmissionBlocked(s, draining)
  IN
  /\ worker[w].at = "refreshing" /\ s # "idle"
  /\ changed \/ a = "compatible"
  /\ flow' = [flow EXCEPT ![w] = "idle"]
  /\ snapshot' = s
  /\ gate' = IF changed THEN GateAfterAnswer(a, s) ELSE gate
  /\ silent' = IF changed THEN SilentAfterAnswer(a, s) ELSE silent
  /\ IF bad \/ a \in Failures
     THEN WorkerThrows(w, IF bad THEN "busy" ELSE a, wk)
     ELSE /\ worker' =
               [wk EXCEPT ![w] = IF blocked
                  THEN [pauseClaims(@) EXCEPT !.at = "waiting"]
                  ELSE [@ EXCEPT !.at = "claiming"]]
          /\ UNCHANGED <<conn, currentWorker>>
  /\ statusFile' =
       StatusWritten(StatusRecord(s, draining, gate', wk, currentWorker'))
  /\ UNCHANGED <<draining, remoteReady, envVars>>

\* claimWithRetry: three attempts with one claimAttemptId, one outcome.
claimWithRetry(w, got) ==
  /\ worker[w].at = "claiming"
  /\ CASE got = "job" ->
            /\ worker' = [worker EXCEPT ![w].at = "executing"]
            /\ UNCHANGED <<conn, currentWorker>>
       [] got = "no_job" ->
            /\ worker' = [worker EXCEPT ![w].at = "polling"]
            /\ UNCHANGED <<conn, currentWorker>>
       [] OTHER -> WorkerThrows(w, got, worker)
  /\ statusFile' = StatusWritten(statusFile)
  /\ UNCHANGED <<draining, snapshot, gate, silent, remoteReady, flow, envVars>>

\* The sleep between two polls; pauseClaims ends it early.
PollEnds(w) ==
  /\ worker[w].at = "polling"
  /\ worker' = [worker EXCEPT ![w].at = "waiting"]
  /\ UNCHANGED <<conn, draining, snapshot, gate, silent, remoteReady,
                 currentWorker, flow,
                 statusFile, envVars>>

\* executeClaimedJob ends: it completed the run, or it throws (a delivery of
\* progress or of the result that failed, a lease that was lost).
executeClaimedJob(w, end) ==
  /\ worker[w].at = "executing"
  /\ IF end = "completed"
     THEN /\ worker' = [worker EXCEPT ![w].at = "waiting"]
          /\ UNCHANGED <<conn, currentWorker>>
     ELSE WorkerThrows(w, end, worker)
  /\ statusFile' = StatusWritten(statusFile)
  /\ UNCHANGED <<draining, snapshot, gate, silent, remoteReady, flow, envVars>>

\* renewUntilStopped: a lost lease or a cancellation aborts the execution.
renewUntilStopped(w) ==
  /\ worker[w].at = "executing" /\ ~worker[w].aborted
  /\ worker' = [worker EXCEPT ![w].aborted = TRUE]
  /\ UNCHANGED <<conn, draining, snapshot, gate, silent, remoteReady,
                 currentWorker, flow,
                 statusFile, envVars>>

-----------------------------------------------------------------------------
(* Drain, reconnect and the end of the process.                            *)

\* The stop signal.
BeginDrain ==
  /\ ~draining /\ conn \notin {"start", "stopped"}
  /\ draining' = TRUE
  /\ worker' = OnCurrent(worker, beginDrain)
  /\ UNCHANGED <<conn, snapshot, gate, silent, remoteReady, currentWorker,
                 flow, statusFile,
                 envVars>>

\* drainRunWorker: it waits for the active run, cancels it on the timeout,
\* and returns at once when no run is active; then the operation is aborted.
drainRunWorker ==
  /\ conn = "session" /\ draining /\ ~worker[currentWorker].forced
  /\ worker' = Torn(worker)
  /\ UNCHANGED <<conn, draining, snapshot, gate, silent, remoteReady,
                 currentWorker, flow,
                 statusFile, envVars>>

SessionReturns ==
  /\ conn = "session" /\ draining /\ worker[currentWorker].at = "ended"
  /\ conn' = "stopped" /\ currentWorker' = NoSession
  /\ worker' = Torn(worker)
  /\ statusFile' = StatusWritten(statusFile)
  /\ UNCHANGED <<draining, snapshot, gate, silent, remoteReady, flow, envVars>>

\* The reconnect delay elapsed, or the stop signal ended it.
ReconnectAfterDelay ==
  /\ conn = "backoff"
  /\ \/ draining
     \/ \E w \in Sessions : worker[w].at = "none"
  /\ conn' = IF draining THEN "stopped"
             ELSE IF gate = "pending" THEN "gate" ELSE "register"
  /\ statusFile' = StatusWritten(statusFile)
  /\ UNCHANGED <<draining, snapshot, gate, silent, remoteReady, worker,
                 currentWorker,
                 flow, envVars>>

-----------------------------------------------------------------------------
(* The updater, seen from the Runner: it writes the journal and waits for  *)
(* the status file to say that the Runner has drained.                     *)

JournalChanges(to) ==
  /\ changes < MaxJournal /\ updateJournal # to
  /\ \/ updateJournal = "inactive" /\ to = "draining"
     \/ updateJournal \in {"draining", "starting_target"} /\ to = "inactive"
     \/ to = "manual_recovery_required" /\ updateJournal # "inactive"
  /\ updateJournal' = to /\ changes' = changes + 1
  /\ updater' = "waiting"
  /\ UNCHANGED <<conn, draining, snapshot, gate, silent, remoteReady, worker,
                 currentWorker, flow, statusFile>>

UpdateWaitForDrain ==
  /\ updateJournal = "draining" /\ updater = "waiting"
  /\ statusFile.state = "draining" /\ ~statusFile.accepts /\ ~statusFile.active
  /\ updater' = "drained"
  /\ UNCHANGED <<conn, draining, snapshot, gate, silent, remoteReady, worker,
                 currentWorker, flow, statusFile, updateJournal, changes>>

ConnectNext ==
  \/ \E h \in BOOLEAN : initializeUpdateRuntime(h) \/ Register(h)
  \/ \E a \in Answers : ConnectSettles(a)
  \/ Admit \/ ReconnectAfterDelay

WorkerNext(w) ==
  \/ waitUntilAccepting(w) \/ PollEnds(w)
  \/ \E a \in Answers : refreshClaimAdmission(w, a)
  \/ \E got \in {"job", "no_job"} \cup Failures : claimWithRetry(w, got)
  \/ \E end \in {"completed", "busy", "rejected"} : executeClaimedJob(w, end)

WatchNext == \E a \in Answers : watchUpdateMaintenanceLifetime(a)
BeatNext == \E a \in Answers : runHeartbeatLoop(a)

ServiceNext ==
  \/ ConnectNext \/ WatchNext \/ BeatNext
  \/ \E f \in Flows : ReadJournal(f)
  \/ \E w \in Sessions : WorkerNext(w) \/ renewUntilStopped(w)
  \/ BeginDrain \/ drainRunWorker \/ SessionReturns
  \/ \E to \in Journal : JournalChanges(to)
  \/ UpdateWaitForDrain

ServiceSpec == ServiceInit /\ [][ServiceNext]_serviceVars

\* Every promise of the process settles: reads, requests with their time
\* limits, timers, executions (bounded by the run's own timeout) and the
\* updater's poll.  Nothing obliges anyone to stop the service or to update.
ServiceFairness ==
  /\ WF_serviceVars(ConnectNext) /\ WF_serviceVars(WatchNext)
  /\ WF_serviceVars(BeatNext)
  /\ \A f \in Flows : WF_serviceVars(ReadJournal(f))
  /\ \A w \in Sessions : WF_serviceVars(WorkerNext(w))
  /\ WF_serviceVars(drainRunWorker \/ SessionReturns)
  /\ WF_serviceVars(UpdateWaitForDrain)

ServiceFairSpec == ServiceSpec /\ ServiceFairness

-----------------------------------------------------------------------------
ServiceTypeOK ==
  /\ conn \in {"start", "gate", "grace", "register", "beat", "admit",
               "session", "backoff", "stopped"}
  /\ snapshot \in Journal /\ updateJournal \in Journal
  /\ changes \in 0..MaxJournal
  /\ gate \in {"not_required", "pending", "satisfied", "failed"}
  /\ currentWorker \in Sessions \cup {NoSession}
  /\ (conn = "session") <=> (currentWorker # NoSession)
  /\ \A w \in Sessions : worker[w].at \in
       {"none", "waiting", "refreshing", "claiming", "polling", "executing",
        "ended"}
  /\ \A f \in Flows : flow[f] \in Journal \cup {"idle"}

\* Once the service was told to stop no worker starts a claim, although the
\* worker may have been between its admission check and its claim, and
\* although the worker of a failed session runs on without an owner
\* (refreshClaimAdmission, claimAdmissionBlocked).
ClaimsOnlyWhileServing ==
  \A w \in Sessions :
    worker[w].at # "claiming" /\ worker'[w].at = "claiming"
      => ~draining /\ remoteReady /\ gate # "pending"
NoClaimAfterStop == [][ClaimsOnlyWhileServing]_serviceVars

\* A stop always ends the process: the drain waits for the active run or
\* cancels it, and no reconnect or admission keeps the loop alive.
StopCompletes == draining ~> conn = "stopped"

\* An update that keeps the journal in draining is answered: the status file
\* comes to say that no work is active, unless the service stopped or its
\* compatibility gate had failed.
UpdateDrainSettles ==
  <>[](updateJournal = "draining" /\ gate # "failed")
    => <>(updater = "drained" \/ conn = "stopped")

\* Once a stop has given up waiting (the operation is aborted), no run of the
\* service executes that was not told to abort: drainRunWorker looks at the
\* active run only, and a claim in flight becomes one afterwards.
StopAbortsTheRun ==
  \A w \in Sessions :
    draining /\ worker[w].forced /\ worker[w].at = "executing"
      => worker[w].aborted
=============================================================================
