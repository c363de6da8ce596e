--------------------------- MODULE MCControlPlane ---------------------------
(***************************************************************************)
(* The components of the Control Plane and of the editor in front of it,   *)
(* each on its own: a behaviour is one of a single component, named by     *)
(* scope.  The components with proofs are extended and keep their          *)
(* variables; the others share the variables s1, s2, ....  The constants   *)
(* of RunDispatch describe a run whose Runner asks for the repair of a     *)
(* failed attempt (the scope repair).                                      *)
(***************************************************************************)
EXTENDS MCRunDispatch, WorkflowLifecycle, SecureInputs, RunnerPairing,
  LocatorRepair, RunnerRollout, DraftEditor, RecordingSync, AuditTrail

\* The structured values of the constants.
MCParent == [d \in Drafts |-> IF d = "d2" THEN "d1" ELSE "v1"]
MCVersionOf == [x \in Rollouts |-> IF x = "A" THEN 2 ELSE 3]
MCPlan ==
  [x \in Rollouts |-> IF x = "A" THEN <<{"n1"}, {"n2"}>> ELSE <<{"n2"}>>]
MCRole == [u \in Users |-> IF u = "ada" THEN "ADMIN" ELSE "MEMBER"]
MCPolicy == [e \in EventIds |-> IF e = "e2" THEN "mask" ELSE "allow"]
MCAllowed == [p \in Policies |-> IF p = "p1" THEN {"c1", "c2"} ELSE {"c2"}]

VARIABLES
  scope,   \* the component of this behaviour, which no step changes
  s1, s2, s3, s4   \* its state

slots == <<s1, s2, s3, s4>>

Converter == INSTANCE RecordingConverter WITH
  Fields <- {"f", "g"}, Boxes <- {"box"}, Radios <- {"r1", "r2"},
  Buttons <- {"ok"},
  Base <- [f \in {"f", "g"} |-> IF f = "f" THEN <<1>> ELSE <<1, 2>>],
  Values <- {<<"x">>, <<"y">>}, MaxEvents <- 3,
  events <- s1

Events == INSTANCE AuditEvents WITH
  outcome <- s1

Edits == INSTANCE EditorOperations WITH
  Names <- {"a", "b"}, OutputNames <- {"o1", "o2"},
  ValueTypes <- {"string", "boolean"}, MaxVariables <- 2, MaxSteps <- 4,
  MaxOps <- 5,
  variables <- s1, steps <- s2, loose <- s3, ops <- s4

\* Every component but the one in scope is at its start.
MCInit ==
  /\ Init /\ LifecycleInit /\ SecureInit /\ PairingInit /\ LocatorInit
  /\ RolloutInit /\ EditorInit /\ RecordingInit /\ TrailInit
  /\ \/ /\ scope \in {"repair", "lifecycle", "secure", "pairing", "locator",
                     "rollout", "editor", "recording", "audit"}
        /\ s1 = 0 /\ s2 = 0 /\ s3 = 0 /\ s4 = 0
     \/ /\ scope = "converter" /\ Converter!Init
        /\ s2 = 0 /\ s3 = 0 /\ s4 = 0
     \/ /\ scope = "events" /\ Events!Init
        /\ s2 = 0 /\ s3 = 0 /\ s4 = 0
     \/ /\ scope = "edits" /\ Edits!Init

MCNext ==
  \/ /\ scope = "repair" /\ Next
     /\ UNCHANGED <<scope, lrVars, rpVars, rrVars, lifecycleVars, svars,
                    editorVars, recordingVars, trailVars, slots>>
  \/ /\ scope = "locator" /\ LocatorNext
     /\ UNCHANGED <<scope, vars, rpVars, rrVars, lifecycleVars, svars,
                    editorVars, recordingVars, trailVars, slots>>
  \/ /\ scope = "pairing" /\ PairingNext
     /\ UNCHANGED <<scope, vars, lrVars, rrVars, lifecycleVars, svars,
                    editorVars, recordingVars, trailVars, slots>>
  \/ /\ scope = "rollout" /\ RolloutNext
     /\ UNCHANGED <<scope, vars, lrVars, rpVars, lifecycleVars, svars,
                    editorVars, recordingVars, trailVars, slots>>
  \/ /\ scope = "lifecycle" /\ LifecycleNext
     /\ UNCHANGED <<scope, vars, lrVars, rpVars, rrVars, svars, editorVars,
                    recordingVars, trailVars, slots>>
  \/ /\ scope = "secure" /\ SecureNext
     /\ UNCHANGED <<scope, vars, lrVars, rpVars, rrVars, lifecycleVars,
                    editorVars, recordingVars, trailVars, slots>>
  \/ /\ scope = "editor" /\ EditorNext
     /\ UNCHANGED <<scope, vars, lrVars, rpVars, rrVars, lifecycleVars,
                    svars, recordingVars, trailVars, slots>>
  \/ /\ scope = "recording" /\ RecordingNext
     /\ UNCHANGED <<scope, vars, lrVars, rpVars, rrVars, lifecycleVars,
                    svars, editorVars, trailVars, slots>>
  \/ /\ scope = "audit" /\ TrailNext
     /\ UNCHANGED <<scope, vars, lrVars, rpVars, rrVars, lifecycleVars,
                    svars, editorVars, recordingVars, slots>>
  \/ /\ scope = "converter" /\ Converter!Next
     /\ UNCHANGED <<scope, vars, lrVars, rpVars, rrVars, lifecycleVars,
                    svars, editorVars, recordingVars, trailVars, s2, s3, s4>>
  \/ /\ scope = "events" /\ Events!Next
     /\ UNCHANGED <<scope, vars, lrVars, rpVars, rrVars, lifecycleVars,
                    svars, editorVars, recordingVars, trailVars, s2, s3, s4>>
  \/ /\ scope = "edits" /\ Edits!Next
     /\ UNCHANGED <<scope, vars, lrVars, rpVars, rrVars, lifecycleVars,
                    svars, editorVars, recordingVars, trailVars>>

MCVars == <<scope, vars, lrVars, rpVars, rrVars, lifecycleVars, svars,
            editorVars, recordingVars, trailVars, slots>>
MCSpec == MCInit /\ [][MCNext]_MCVars

-----------------------------------------------------------------------------
\* The state of every component has the type its module gives it.
PlaneTypeOK ==
  /\ scope = "repair" => TypeOK
  /\ scope = "locator" => LocatorTypeOK
  /\ scope = "pairing" => PairingTypeOK
  /\ scope = "rollout" => RolloutTypeOK
  /\ scope = "lifecycle" => LifecycleTypeOK
  /\ scope = "secure" => SecureTypeOK
  /\ scope = "editor" => EditorTypeOK
  /\ scope = "recording" => RecordingTypeOK
  /\ scope = "audit" => TrailTypeOK
  /\ scope = "converter" => Converter!TypeOK
  /\ scope = "events" => Events!TypeOK
  /\ scope = "edits" => Edits!TypeOK

\* The constants of this instance are of the kind the theorems assume.
ASSUME LifecycleAssumption == LifecycleConstants

\* RecordingConverter.  ReplayReachesTheSameForm: A conversion without a
\* blocking issue, run with the inputs the recorded user gave, leaves the
\* form as the user left it: no removed event mattered, no value was left
\* out, and no two inputs share a name.
\* EveryEventAccounted: Every recording has a report the report's own schema
\* accepts, and a removed event repeats the one it names: the events between
\* the two are removed repeats of it as well.
ConversionIsFaithful ==
  scope = "converter" =>
    /\ Converter!ReplayReachesTheSameForm
    /\ Converter!EveryEventAccounted

\* AuditEvents.  But for the eight RefusedOperations, every operation's event
\* fits its schema for a workflow whose step ids, step types, output names
\* and locator sources are plain: no combination of optional fields makes the
\* transaction roll back.
OnlyTheseAreRefused == scope = "events" => Events!OnlyTheseAreRefused

\* EditorOperations.  VariableReferencesHold: Every variable reference names
\* a declared variable, in every state of the editor and not only in those
\* that can be saved; its type fits the step as long as no operation met a
\* definition that does not parse (removeVariable and updateVariable look at
\* every usage).
\* OutputReferencesHold: Every output reference names the output of exactly
\* one step, unless an extract step was removed while the definition did not
\* parse: the usages that should have kept it are then not seen.
\* RenameKeepsMeaning: No operation but a change of the step's own value
\* source makes a reference mean another variable or another output: a rename
\* takes every usage along and captures none.
ReferencesKeepTheirMeaning ==
  /\ [](scope = "edits" => Edits!VariableReferencesHold)
  /\ [](scope = "edits" => Edits!OutputReferencesHold)
  /\ [][scope = "edits" => Edits!RenameKeepsMeaning]_MCVars
=============================================================================
