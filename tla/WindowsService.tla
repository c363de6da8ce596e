----------------------------- MODULE WindowsService -----------------------------
(***************************************************************************)
(* The Runner as a Windows service: WindowsRunnerServiceManager, which     *)
(* drives the Service Control Manager command by command, its two clients  *)
(* - the operator's service CLI and the update controller, which share no  *)
(* lock - and verifyHealth, which decides from the startup status file     *)
(* whether the release just bound came up.                                 *)
(*                                                                         *)
(* A client's operation is the sequence of the steps it has still to do.   *)
(* Each step is one command or one file write, so that the other client,   *)
(* the service itself, a crash of the client or a reboot may come between  *)
(* any two of them.  A step that fails ends the operation.                 *)
(***************************************************************************)
EXTENDS Integers, Sequences

CONSTANTS
  Activations,  \* activation directories of installed releases
  MaxStarts     \* bound on the service processes started

VARIABLES
  scm,        \* the state of the service in the Service Control Manager
  deleting,   \* the service is marked for deletion
  bound,      \* its binary path
  disk,       \* per directory, the files written
  attempt,    \* the number of service processes started so far
  process,    \* the directory the latest one was started from
  status,     \* the startup status file
  silent,     \* the process the status names has ended without writing so
              \* (kept for the property only)
  todo,       \* per client, the steps its operation has still to do
  target,     \* the activation the controller's operation is about
  proofs,     \* the activations the controller has attested
  baseline,   \* the controller's record of the status before its start
  verdict     \* what verifyHealth returned in the last step

vars == <<scm, deleting, bound, disk, attempt, process, status, silent, todo,
          target, proofs, baseline, verdict>>

scmVars == <<scm, deleting, bound>>
runVars == <<attempt, process, status, silent>>
ctlVars == <<target, proofs, baseline>>

Clients == {"cli", "controller"}
Paths == {"current"} \cup Activations

(* The files of the installed service, and of an activation.  config       *)
(* stands for the service configuration and the XML written with it.       *)
FilesOf(path) ==
  IF path = "current" THEN {"exe", "config"} ELSE {"exe", "config", "activation"}

Complete(path) == disk[path] = FilesOf(path)

NoVerdict == [decision |-> "none", of |-> "current", attempt |-> 0]

NoStatus == [attempt |-> 0, from |-> "current", state |-> "none"]

-----------------------------------------------------------------------------
(* The operations, as the steps they take                                  *)

StopSteps == <<"stopCheck", "stop", "waitStopped">>
StartSteps == <<"startCheck", "start", "waitRunning">>

(* Mutant: uninstall does not wait until the service is gone.              *)
UninstallAtOnce == <<"uninstallCheck">> \o StopSteps \o <<"delete", "rm">>

InstallSteps == <<"exe", "config", "register">>
UninstallSteps ==
  <<"uninstallCheck">> \o StopSteps \o <<"delete", "waitAbsent", "rm">>

PrepareSteps == <<"newExe", "newConfig", "newActivation", "attest">>
RebindSteps == <<"rebindCheck", "rebind">>
ControllerStartSteps ==
  <<"baseline", "stopIfRunning", "stop", "waitStopped">> \o StartSteps

(* verifyHealth after a crash of the controller starts the service first.  *)
HealthSteps ==
  IF baseline.captured THEN <<"poll">> ELSE ControllerStartSteps \o <<"poll">>

-----------------------------------------------------------------------------
(* Steps                                                                   *)

At(c, s) == todo[c] # <<>> /\ Head(todo[c]) = s

Skip(c, n) == todo' = [todo EXCEPT ![c] = SubSeq(@, n + 1, Len(@))]

Done(c) == Skip(c, 1)

Fail(c) == todo' = [todo EXCEPT ![c] = <<>>]

NoNews == verdict' = NoVerdict

(* waitForState gives up, or a command is killed at its timeout.           *)
TimesOut(c) ==
  /\ At(c, "waitStopped") \/ At(c, "waitRunning") \/ At(c, "waitAbsent")
  /\ Fail(c) /\ NoNews
  /\ UNCHANGED <<scmVars, disk, runVars, ctlVars>>

(* writeAtomic and copyVerifiedWrapper: install replaces, an activation    *)
(* is written once.                                                        *)
InstallWrite(f) ==
  /\ At("cli", f) /\ f \in FilesOf("current")
  /\ disk' = [disk EXCEPT !["current"] = @ \cup {f}]
  /\ Done("cli") /\ NoNews
  /\ UNCHANGED <<scmVars, runVars, ctlVars>>

PrepareWrite(f, step) ==
  /\ At("controller", step)
  /\ IF f \in disk[target]
     THEN Fail("controller") /\ UNCHANGED disk
     ELSE /\ disk' = [disk EXCEPT ![target] = @ \cup {f}]
          /\ Done("controller")
  /\ NoNews
  /\ UNCHANGED <<scmVars, runVars, ctlVars>>

(* attestActivation compares every file of the activation.                 *)
Attest ==
  /\ At("controller", "attest")
  /\ IF Complete(target)
     THEN proofs' = proofs \cup {target} /\ Done("controller")
     ELSE Fail("controller") /\ UNCHANGED proofs
  /\ NoNews
  /\ UNCHANGED <<scmVars, disk, runVars, target, baseline>>

Register ==
  /\ At("cli", "register")
  /\ IF scm = "absent"
     THEN scm' = "stopped" /\ bound' = "current" /\ Done("cli")
     ELSE Fail("cli") /\ UNCHANGED <<scm, bound>>
  /\ NoNews
  /\ UNCHANGED <<deleting, disk, runVars, ctlVars>>

StopCheck(c) ==
  /\ At(c, "stopCheck")
  /\ CASE scm = "stopped" -> Skip(c, 3)
       [] scm = "running" -> Done(c)
       [] OTHER -> Fail(c)
  /\ NoNews
  /\ UNCHANGED <<scmVars, disk, runVars, ctlVars>>

Stop(c) ==
  /\ At(c, "stop")
  /\ IF scm = "running"
     THEN scm' = "stopping" /\ Done(c)
     ELSE Fail(c) /\ UNCHANGED scm
  /\ baseline' = IF c = "controller" /\ scm = "running"
                 THEN [baseline EXCEPT !.ended = attempt] ELSE baseline
  /\ NoNews
  /\ UNCHANGED <<deleting, bound, disk, runVars, target, proofs>>

WaitEnds(c) ==
  /\ \/ At(c, "waitStopped") /\ scm = "stopped"
     \/ At(c, "waitRunning") /\ scm = "running"
     \/ At(c, "waitAbsent") /\ scm = "absent"
  /\ Done(c) /\ NoNews
  /\ UNCHANGED <<scmVars, disk, runVars, ctlVars>>

(* The executable, and for the controller the whole proof, is checked      *)
(* before the service is started.                                          *)
MayStart(c) ==
  /\ scm # "absent"
  /\ "exe" \in disk[bound]
  /\ c = "controller" => bound \in proofs /\ Complete(bound)

StartCheck(c) ==
  /\ At(c, "startCheck")
  /\ CASE ~MayStart(c) -> Fail(c)
       [] MayStart(c) /\ scm = "running" -> Skip(c, 3)
       [] MayStart(c) /\ scm = "stopped" -> Done(c)
       [] OTHER -> Fail(c)
  /\ NoNews
  /\ UNCHANGED <<scmVars, disk, runVars, ctlVars>>

Spawn ==
  /\ attempt < MaxStarts
  /\ attempt' = attempt + 1
  /\ process' = bound

Start(c) ==
  /\ At(c, "start")
  /\ IF scm = "stopped" /\ ~deleting
     THEN scm' = "starting" /\ Spawn /\ Done(c)
     ELSE Fail(c) /\ UNCHANGED <<scm, attempt, process>>
  /\ NoNews
  /\ UNCHANGED <<deleting, bound, disk, status, silent, ctlVars>>

UninstallCheck ==
  /\ At("cli", "uninstallCheck")
  /\ CASE scm = "running" -> Done("cli")
       [] scm = "absent" -> todo' = [todo EXCEPT !["cli"] = <<"rm">>]
       [] OTHER -> Skip("cli", 4)
  /\ NoNews
  /\ UNCHANGED <<scmVars, disk, runVars, ctlVars>>

Delete ==
  /\ At("cli", "delete")
  /\ IF scm = "absent"
     THEN Fail("cli") /\ UNCHANGED <<scm, deleting>>
     ELSE /\ scm' = IF scm = "stopped" THEN "absent" ELSE scm
          /\ deleting' = (scm # "stopped")
          /\ Done("cli")
  /\ NoNews
  /\ UNCHANGED <<bound, disk, runVars, ctlVars>>

RemoveInstance ==
  /\ At("cli", "rm")
  /\ disk' = [disk EXCEPT !["current"] = {}]
  /\ Done("cli") /\ NoNews
  /\ UNCHANGED <<scmVars, runVars, ctlVars>>

RebindCheck ==
  /\ At("controller", "rebindCheck")
  /\ IF target \in proofs /\ scm = "stopped" /\ Complete(target)
     THEN Done("controller") ELSE Fail("controller")
  /\ NoNews
  /\ UNCHANGED <<scmVars, disk, runVars, ctlVars>>

(* sc config succeeds whether the service is running or not.               *)
Rebind ==
  /\ At("controller", "rebind")
  /\ IF scm # "absent" /\ ~deleting
     THEN bound' = target /\ Done("controller")
     ELSE Fail("controller") /\ UNCHANGED bound
  /\ NoNews
  /\ UNCHANGED <<scm, deleting, disk, runVars, ctlVars>>

(* The processes that have ended so far (kept for the properties only).    *)
Ended == IF scm \in {"starting", "running"} THEN attempt - 1 ELSE attempt

(* startAndWait of the controller remembers the last attempt.              *)
Baseline ==
  /\ At("controller", "baseline")
  /\ IF scm # "absent" /\ bound \in proofs
     THEN /\ baseline' = [captured |-> TRUE, prior |-> status.attempt,
                          accepted |-> 0, ended |-> Ended]
          /\ Done("controller")
     ELSE Fail("controller") /\ UNCHANGED baseline
  /\ NoNews
  /\ UNCHANGED <<scmVars, disk, runVars, target, proofs>>

StopIfRunning ==
  /\ At("controller", "stopIfRunning")
  /\ IF scm = "running" THEN Done("controller") ELSE Skip("controller", 3)
  /\ NoNews
  /\ UNCHANGED <<scmVars, disk, runVars, ctlVars>>

(* A status counts when it names the activation and is not the one that    *)
(* was there before the start.                                             *)
IsNew(s) == s.from = target /\ s.attempt # baseline.prior

(* One round of verifyHealth: the first new attempt seen is the one that   *)
(* is followed; evaluateTargetHealth decides.                              *)
Poll ==
  /\ At("controller", "poll")
  /\ LET first == IF baseline.accepted # 0 \/ ~IsNew(status)
                  THEN baseline.accepted ELSE status.attempt
         seen == first # 0 /\ status.attempt = first
         hard == \/ scm \in {"stopped", "absent"}
                 \/ scm = "running" /\ bound # target
                 \/ seen /\ status.state = "stopped"
         healthy == /\ seen /\ status.state = "healthy"
                    /\ scm = "running" /\ bound = target IN
     /\ baseline' = [baseline EXCEPT !.accepted = first]
     /\ CASE hard -> /\ Done("controller")
                     /\ verdict' = [decision |-> "unhealthy", of |-> target,
                                    attempt |-> first]
          [] healthy -> /\ Done("controller")
                        /\ verdict' = [decision |-> "healthy", of |-> target,
                                       attempt |-> first]
          [] OTHER -> UNCHANGED todo /\ NoNews
  /\ UNCHANGED <<scmVars, disk, runVars, target, proofs>>

PollExpires ==
  /\ At("controller", "poll")
  /\ Done("controller")
  /\ verdict' = [decision |-> "unhealthy", of |-> target, attempt |-> 0]
  /\ UNCHANGED <<scmVars, disk, runVars, ctlVars>>

-----------------------------------------------------------------------------
(* Clients begin operations                                                *)

(* runServiceCli; restart is stop and then start.                          *)
CliBegins ==
  /\ todo["cli"] = <<>>
  /\ \E steps \in {InstallSteps, UninstallSteps, StartSteps, StopSteps} :
       todo' = [todo EXCEPT !["cli"] = steps]
  /\ NoNews
  /\ UNCHANGED <<scmVars, disk, runVars, ctlVars>>

ControllerBegins(a) ==
  /\ todo["controller"] = <<>>
  /\ \E steps \in {PrepareSteps, <<"attest">>, StopSteps, RebindSteps,
                   StartSteps, ControllerStartSteps, HealthSteps} :
       todo' = [todo EXCEPT !["controller"] = steps]
  /\ target' = a
  /\ baseline' = [baseline EXCEPT !.accepted = 0]
  /\ NoNews
  /\ UNCHANGED <<scmVars, disk, runVars, proofs>>

(* The release store removes an installation the service is not bound to.  *)
Discard(a) ==
  /\ todo["controller"] = <<>> /\ bound # a /\ disk[a] # {}
  /\ disk' = [disk EXCEPT ![a] = {}]
  /\ NoNews
  /\ UNCHANGED <<scmVars, runVars, todo, ctlVars>>

NoBaseline == [captured |-> FALSE, prior |-> 0, accepted |-> 0, ended |-> 0]

ClientCrashes(c) ==
  /\ todo[c] # <<>>
  /\ Fail(c) /\ NoNews
  /\ IF c = "controller"
     THEN proofs' = {} /\ baseline' = NoBaseline /\ UNCHANGED target
     ELSE UNCHANGED ctlVars
  /\ UNCHANGED <<scmVars, disk, runVars>>

-----------------------------------------------------------------------------
(* The service process and the machine                                     *)

ComesUp ==
  /\ scm = "starting"
  /\ scm' = "running" /\ NoNews
  /\ UNCHANGED <<deleting, bound, disk, runVars, todo, ctlVars>>

(* writeStartupStatus of the running process.                              *)
Report(state) ==
  /\ scm \in {"starting", "running"}
  /\ \/ state = "starting" /\ status.attempt # attempt
     \/ state = "healthy" /\ status.attempt = attempt /\ status.state = "starting"
  /\ process # "current"
  /\ status' = [attempt |-> attempt, from |-> process, state |-> state]
  /\ silent' = FALSE /\ NoNews
  /\ UNCHANGED <<scmVars, disk, attempt, process, todo, ctlVars>>

(* The process stops.  One that has reported says so before it ends, unless *)
(* the stop timeout kills it first; its last status is then left behind.   *)
Ends ==
  /\ scm = "stopping"
  /\ scm' = IF deleting THEN "absent" ELSE "stopped"
  /\ deleting' = FALSE /\ NoNews
  /\ UNCHANGED <<bound, disk, attempt, process, todo, ctlVars>>

GoesDown ==
  /\ Ends
  /\ status' = IF status.attempt = attempt
               THEN [status EXCEPT !.state = "stopped"] ELSE status
  /\ UNCHANGED silent

EndsSilently ==
  silent' = \/ silent
            \/ status.attempt = attempt /\ status.state \in {"starting", "healthy"}

StopTimeoutKills ==
  /\ Ends
  /\ EndsSilently
  /\ UNCHANGED status

(* The process crashes and is restarted (onfailure in the XML).            *)
ServiceRestarts ==
  /\ scm = "running"
  /\ scm' = "starting" /\ Spawn /\ EndsSilently /\ NoNews
  /\ UNCHANGED <<deleting, bound, disk, status, todo, ctlVars>>

(* The service starts automatically after a reboot.                        *)
Reboot ==
  /\ scm' = IF scm = "absent" \/ deleting THEN "absent" ELSE "starting"
  /\ IF scm' = "starting" THEN Spawn ELSE UNCHANGED <<attempt, process>>
  /\ deleting' = FALSE
  /\ todo' = [c \in Clients |-> <<>>]
  /\ proofs' = {} /\ baseline' = NoBaseline /\ NoNews
  /\ EndsSilently
  /\ UNCHANGED <<bound, disk, status, target>>

Init ==
  /\ scm = "absent" /\ deleting = FALSE /\ bound = "current"
  /\ disk = [p \in Paths |-> {}]
  /\ attempt = 0 /\ process = "current" /\ status = NoStatus
  /\ silent = FALSE
  /\ todo = [c \in Clients |-> <<>>]
  /\ target = CHOOSE a \in Activations : TRUE
  /\ proofs = {} /\ baseline = NoBaseline /\ verdict = NoVerdict

Next ==
  \/ CliBegins
  \/ \E f \in FilesOf("current") : InstallWrite(f)
  \/ Register \/ UninstallCheck \/ Delete \/ RemoveInstance
  \/ \E a \in Activations : ControllerBegins(a) \/ Discard(a)
  \/ PrepareWrite("exe", "newExe")
  \/ PrepareWrite("config", "newConfig")
  \/ PrepareWrite("activation", "newActivation")
  \/ Attest \/ RebindCheck \/ Rebind
  \/ Baseline \/ StopIfRunning \/ Poll \/ PollExpires
  \/ \E c \in Clients :
       \/ StopCheck(c) \/ Stop(c) \/ StartCheck(c) \/ Start(c)
       \/ WaitEnds(c) \/ TimesOut(c) \/ ClientCrashes(c)
  \/ ComesUp
  \/ \E state \in {"starting", "healthy"} : Report(state)
  \/ GoesDown \/ StopTimeoutKills
  \/ ServiceRestarts
  \/ Reboot

Spec == Init /\ [][Next]_vars

-----------------------------------------------------------------------------
(* Properties                                                              *)

TypeOK ==
  /\ scm \in {"absent", "stopped", "starting", "running", "stopping"}
  /\ deleting \in BOOLEAN
  /\ bound \in Paths /\ process \in Paths /\ target \in Activations
  /\ \A p \in Paths : disk[p] \subseteq FilesOf(p)
  /\ attempt \in 0 .. MaxStarts
  /\ status.attempt \in 0 .. MaxStarts /\ silent \in BOOLEAN
  /\ proofs \subseteq Activations
  /\ verdict.decision \in {"none", "healthy", "unhealthy"}

(* A registered service always has all the files its binary path needs:    *)
(* install registers last, uninstall removes last, and a rebind goes only  *)
(* to an activation that is complete now, whatever was attested earlier.   *)
RegisteredServiceHasFiles ==
  scm # "absent" => Complete(bound)

(* A service found healthy is found so by a process of the start that was  *)
(* asked about: the status that says so was not left by a process that had *)
(* ended when the controller started the service or that the controller    *)
(* stopped for it ("must not treat a status file left by an earlier        *)
(* process as proof that the currently bound release started               *)
(* successfully", windows-update-service-controller.ts).                   *)
HealthIsFresh ==
  verdict.decision = "healthy" =>
    process = verdict.of /\ verdict.attempt > baseline.ended

(* The only stale status ever believed is that of a process which reported *)
(* for the first time after the controller had read the status file and    *)
(* ended without writing so: killed at the stop timeout, whoever asked it  *)
(* to stop, or crashed.  This also holds when the controller crashed in    *)
(* between.                                                                *)
HealthIsFreshUnlessSilent ==
  verdict.decision = "healthy" =>
    \/ process = verdict.of /\ verdict.attempt > baseline.ended
    \/ silent /\ status.attempt = verdict.attempt
       /\ verdict.attempt > baseline.prior

=============================================================================
