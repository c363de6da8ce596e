---------------------------- MODULE MCRunnerHost ----------------------------
(***************************************************************************)
(* The components of the user's machine (the engine, the Runner with its   *)
(* updates, downloads, service and secret vault, and the outbox of the     *)
(* browser extension), each on its own: a behaviour is one of a single     *)
(* component, named by scope.  The workflows are small and still meet      *)
(* every branch of the engine: a read-only step, an action with side       *)
(* effects, an approval gate, and an approval with nothing to gate.        *)
(* Release 4 of the update controller writes a newer state schema that the *)
(* releases before it cannot read.                                         *)
(***************************************************************************)
EXTENDS WorkflowEngine, RunnerUpdate, ProgressChannel, RunnerService,
  RecordingOutbox, ReleaseAcquisition, LocalVault

MCWorkflows ==
  {<<"verify", "approval", "click">>, <<"extract", "fill">>,
   <<"navigate", "wait">>, <<"approval">>}
MCWrites == <<1, 1, 1, 2>>
MCReads == <<{1}, {1}, {1, 2}, {1, 2}>>
MCAliasOf == [c \in Commands |-> IF c = "c1" THEN "a" ELSE "b"]

VARIABLE scope   \* the component of this behaviour, which no step changes

\* Every component but the one in scope is at its start, in one of the
\* initial states if there are several.
MCInit ==
  /\ Init /\ UpdateInit /\ ProgressInit /\ ServiceInit /\ OutboxInit
  /\ AcquisitionInit /\ VaultInit
  /\ scope \in {"engine", "update", "progress", "service", "outbox",
                "acquisition", "vault"}
  /\ scope # "engine" =>
       workflow = <<"approval">> /\ mode = "automatic_safe_only" /\ ~signal
  /\ scope # "service" => updateJournal = "inactive"

MCNext ==
  \/ /\ scope = "engine" /\ Next
     /\ UNCHANGED <<scope, updateVars, progressVars, serviceVars, outboxVars,
                    acquisitionVars, vaultVars>>
  \/ /\ scope = "update" /\ UpdateNext
     /\ UNCHANGED <<scope, vars, progressVars, serviceVars, outboxVars,
                    acquisitionVars, vaultVars>>
  \/ /\ scope = "progress" /\ ProgressNext
     /\ UNCHANGED <<scope, vars, updateVars, serviceVars, outboxVars,
                    acquisitionVars, vaultVars>>
  \/ /\ scope = "service" /\ ServiceNext
     /\ UNCHANGED <<scope, vars, updateVars, progressVars, outboxVars,
                    acquisitionVars, vaultVars>>
  \/ /\ scope = "outbox" /\ OutboxNext
     /\ UNCHANGED <<scope, vars, updateVars, progressVars, serviceVars,
                    acquisitionVars, vaultVars>>
  \/ /\ scope = "acquisition" /\ AcquisitionNext
     /\ UNCHANGED <<scope, vars, updateVars, progressVars, serviceVars,
                    outboxVars, vaultVars>>
  \/ /\ scope = "vault" /\ VaultNext
     /\ UNCHANGED <<scope, vars, updateVars, progressVars, serviceVars,
                    outboxVars, acquisitionVars>>

MCVars == <<scope, vars, updateVars, progressVars, serviceVars, outboxVars,
            acquisitionVars, vaultVars>>

\* The fairness of the engine, for the behaviours of its scope.
Only(A) ==
  scope = "engine" /\ A
  /\ UNCHANGED <<scope, updateVars, progressVars, serviceVars, outboxVars,
                 acquisitionVars, vaultVars>>
MCSpec ==
  /\ MCInit /\ [][MCNext]_MCVars
  /\ WF_MCVars(Only(Engine))
  /\ WF_MCVars(Only(Adapter))
  /\ WF_MCVars(Only(Tick))
  /\ WF_MCVars(Only(Timer))
  /\ WF_MCVars(Only(controller /\ Coordinators))

\* The engine alone.
EngineOnly == MCInit /\ scope = "engine" /\ [][MCNext]_MCVars

-----------------------------------------------------------------------------
\* The state of every component has the type its module gives it.
HostTypeOK ==
  /\ scope = "engine" => TypeOK
  /\ scope = "update" => UpdateTypeOK
  /\ scope = "progress" => ProgressTypeOK
  /\ scope = "service" => ServiceTypeOK
  /\ scope = "outbox" => OutboxTypeOK
  /\ scope = "acquisition" => AcquisitionTypeOK
  /\ scope = "vault" => VaultTypeOK

\* WorkflowEngine: Every execution ends, whatever the adapter, the coordinators
\* and the caller do, also when the deadline passes in the middle of a step.
ExecutionTerminates == scope = "engine" => Terminates

\* The constants of this instance are of the kind the theorems assume.
ASSUME UpdateAssumption == UpdateConstants
ASSUME ChannelAssumption == ChannelConstants

=============================================================================
