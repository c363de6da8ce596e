------------------------- MODULE RecordingConverter -------------------------
(***************************************************************************)
(* convertRecordingArtifact: the steps, variables and report made from the *)
(* events of a recording.  The recording grows one event at a time, so     *)
(* that every recording up to MaxEvents events is a state.                 *)
(*                                                                         *)
(* The reference the conversion is checked against is the page: what the   *)
(* recorded user's form looked like at the end, and what it looks like     *)
(* after the generated steps ran with the same inputs.  A button may do    *)
(* anything to the form; here it clears it.                                *)
(***************************************************************************)
EXTENDS Integers, Sequences, FiniteSets, SequencesExt

CONSTANTS
  Fields,     \* text fields
  Boxes,      \* check boxes
  Radios,     \* radio buttons, all of one group
  Buttons,    \* buttons
  Base,       \* Base[f]: the identifier toSafeIdentifier makes of f's label
  Values,     \* values typed or selected (a value is a sequence)
  MaxEvents   \* bound: events of the recording

VARIABLE events  \* the events of the artifact, in sequence order

Targets == Fields \union Boxes \union Radios

Event(type, target, policy, value, more) ==
  [type |-> type, target |-> target, policy |-> policy, value |-> value,
   truncated |-> more = "truncated", password |-> more = "password",
   personal |-> more = "personal",
   locator |-> IF more = "low" THEN "low" ELSE "high"]

\* RecordingEventSchema: what an event's payload may be.
RecordingEvents ==
  {Event("click", b, "allow", <<>>, more) : b \in Buttons,
                                            more \in {"", "low"}}
    \union {Event("text-input", f, "allow", v, more) :
              f \in Fields, v \in Values, more \in {"", "truncated"}}
    \union {Event("text-input", f, "mask", <<>>, more) :
              f \in Fields, more \in {"", "personal"}}
    \union {Event("text-input", f, "block", <<>>, more) :
              f \in Fields, more \in {"", "password"}}
    \union {Event("select", f, p, v, "") :
              f \in Fields, v \in Values, p \in {"allow", "block"}}
    \union {Event("checkbox", b, p, v, "") :
              b \in Boxes, p \in {"allow", "mask"}, v \in {<<"on">>, <<"off">>}}
    \union {Event("radio", r, p, <<"on">>, "") :
              r \in Radios, p \in {"allow", "block"}}
-----------------------------------------------------------------------------
Blocking == {"BLOCKED_VALUE_UNRESOLVED", "MASKED_VALUE_UNRESOLVED",
             "TRUNCATED_VALUE_UNRESOLVED", "NO_EXECUTABLE_STEPS"}

\* allocateIdentifier: the base, or the base with the first suffix from 2
\* on that is not used.
allocateIdentifier(base, used) ==
  LET Candidate(n) == IF n = 1 THEN base ELSE Append(base, n)
  IN Candidate(CHOOSE n \in 1..(Cardinality(used) + 1) :
                 /\ Candidate(n) \notin used
                 /\ \A m \in 1..(n - 1) : Candidate(m) \in used)

Unresolved(code) == [issue |-> code]
Step(type, e, kind, value) ==
  [issue |-> "", type |-> type, target |-> e.target, kind |-> kind,
   value |-> value]

ValueIssue(e) == IF e.policy = "mask" THEN "MASKED_VALUE_UNRESOLVED"
                 ELSE "BLOCKED_VALUE_UNRESOLVED"

\* convertEvent: the step of an event, or the issue that leaves it out.
convertEvent(e, used) ==
  CASE e.type = "click" -> Step("click", e, "none", <<>>)
    [] e.type \in {"text-input", "select"} /\ e.policy = "allow" ->
         IF e.truncated THEN Unresolved("TRUNCATED_VALUE_UNRESOLVED")
         ELSE Step(IF e.type = "select" THEN "select" ELSE "fill", e,
                   "literal", e.value)
    [] e.type = "text-input" /\ e.policy = "mask" /\ e.personal ->
         Step("fill", e, "variable", allocateIdentifier(Base[e.target], used))
    [] e.type = "text-input" /\ e.policy = "block" /\ e.password ->
         Step("fill", e, "secret", allocateIdentifier(Base[e.target], used))
    [] e.type \in {"checkbox", "radio"} /\ e.policy = "allow" ->
         Step("setChecked", e, "literal", e.value)
    [] OTHER -> Unresolved(ValueIssue(e))

\* literalDeduplicationKey and checkedDeduplicationKey: only steps with a
\* literal value have a key.
deduplicationKey(step) ==
  IF step.kind = "literal" THEN <<step.type, step.target, step.value>>
  ELSE <<>>

NoPrevious == [key |-> <<>>, event |-> 0, step |-> 0]

\* Mutant: a step without a key leaves the earlier one to compare with.
KeptWithoutKey(acc, step, i) ==
  IF deduplicationKey(step) = <<>> THEN acc.previous
  ELSE [key |-> deduplicationKey(step), event |-> i,
        step |-> Len(acc.steps) + 1]

\* What the next event is compared with after this step was generated.
nextPrevious(acc, step, i) ==
  IF deduplicationKey(step) = <<>> THEN NoPrevious
  ELSE [key |-> deduplicationKey(step), event |-> i,
        step |-> Len(acc.steps) + 1]

\* unresolvedMapping: the event makes no step and one issue.
unresolved(acc, code) ==
  [acc EXCEPT !.mappings = Append(@, [outcome |-> "unresolved", step |-> 0,
                                      event |-> 0]),
              !.issues = Append(@, code), !.previous = NoPrevious]

duplicate(acc) ==
  [acc EXCEPT !.mappings = Append(@, [outcome |-> "deduplicated",
                                      step |-> acc.previous.step,
                                      event |-> acc.previous.event]),
              !.issues = Append(@, "DUPLICATE_EVENT_REMOVED")]

\* An event that makes a step, with the name it uses.
converted(acc, e, step, i) ==
  [acc EXCEPT
     !.steps = Append(@, step),
     !.used = IF step.kind \in {"variable", "secret"}
              THEN @ \union {step.value} ELSE @,
     !.variables = IF step.kind = "variable" THEN Append(@, step.value)
                   ELSE @,
     !.mappings = Append(@, [outcome |-> "converted",
                             step |-> Len(acc.steps) + 1, event |-> i]),
     !.issues = IF e.locator = "low" THEN Append(@, "LOW_LOCATOR_CONFIDENCE")
                ELSE @,
     !.previous = nextPrevious(acc, step, i)]

\* One turn of the loop over the events.  The artifact's schema has
\* already refused an event without a usable locator.
convertNext(acc, e) ==
  LET i == Len(acc.mappings) + 1
      step == convertEvent(e, acc.used)
  IN IF step.issue # "" THEN unresolved(acc, step.issue)
     ELSE IF /\ deduplicationKey(step) # <<>>
             /\ acc.previous.key = deduplicationKey(step)
     THEN duplicate(acc)
     ELSE converted(acc, e, step, i)

\* convertRecordingArtifact: the loop, and the report made from it.
convertRecordingArtifact(recording) ==
  LET acc == FoldLeft(convertNext,
        [steps |-> <<>>, variables |-> <<>>, used |-> {}, mappings |-> <<>>,
         issues |-> <<>>, previous |-> NoPrevious], recording)
      issues == IF acc.steps = <<>> THEN Append(acc.issues,
                                                "NO_EXECUTABLE_STEPS")
                ELSE acc.issues
  IN [steps |-> acc.steps, variables |-> acc.variables,
      mappings |-> acc.mappings, issues |-> issues,
      publishable |-> Range(issues) \intersect Blocking = {}]

\* RecordingConversionReportSchema with WorkflowDraftConversionSchema: what
\* the report of a conversion must satisfy, or the conversion throws.
ReportParses(recording, result) ==
  LET Outcome(o) == {i \in DOMAIN result.mappings :
                       result.mappings[i].outcome = o}
  IN /\ Len(result.mappings) = Len(recording)
     /\ Cardinality(Outcome("converted")) = Len(result.steps)
     /\ Cardinality({i \in DOMAIN result.steps :
                       result.steps[i].kind = "variable"})
          = Len(result.variables)
     /\ (result.steps = <<>>) => ~result.publishable
-----------------------------------------------------------------------------
\* What a recorded event, or a generated step, does to the form.
Put(form, target, value) ==
  [t \in Targets |-> IF t = target THEN value
                     ELSE IF {t, target} \subseteq Radios THEN <<"off">>
                     ELSE form[t]]
Blank == [t \in Targets |-> <<>>]

\* The recorded user typed what the event says, or, where it was not
\* captured, something of their own at that place of the recording.
recordedForm(recording) ==
  FoldLeft(LAMBDA form, i :
             LET e == recording[i]
             IN IF e.type = "click" THEN Blank
                ELSE Put(form, e.target,
                         IF e.policy = "allow" THEN e.value
                         ELSE <<"typed", i>>),
           Blank, [i \in 1..Len(recording) |-> i])

\* The inputs of the run: for each variable or secret, what the recorded
\* user typed where it was made.
InputOf(result, name) ==
  LET i == CHOOSE i \in DOMAIN result.mappings :
             /\ result.mappings[i].outcome = "converted"
             /\ result.steps[result.mappings[i].step].kind
                  \in {"variable", "secret"}
             /\ result.steps[result.mappings[i].step].value = name
  IN <<"typed", i>>

replayedForm(result) ==
  FoldLeft(LAMBDA form, step :
             IF step.type = "click" THEN Blank
             ELSE Put(form, step.target,
                      IF step.kind = "literal" THEN step.value
                      ELSE InputOf(result, step.value)),
           Blank, result.steps)
-----------------------------------------------------------------------------
Init == events = <<>>

\* The recording has one event more.
record(e) == Len(events) < MaxEvents /\ events' = Append(events, e)

Next == \E e \in RecordingEvents : record(e)

Spec == Init /\ [][Next]_events

TypeOK == events \in Seq(RecordingEvents) /\ Len(events) <= MaxEvents

\* A conversion without a blocking issue, run with the inputs the recorded
\* user gave, leaves the form as the user left it: no removed event
\* mattered, no value was left out, and no two inputs share a name.
ReplayReachesTheSameForm ==
  LET result == convertRecordingArtifact(events)
  IN result.publishable => replayedForm(result) = recordedForm(events)

\* Every recording has a report the report's own schema accepts, and a
\* removed event repeats the one it names: the events between the two are
\* removed repeats of it as well.
EveryEventAccounted ==
  LET result == convertRecordingArtifact(events)
  IN /\ ReportParses(events, result)
     /\ \A i \in DOMAIN result.mappings :
          result.mappings[i].outcome = "deduplicated" =>
            LET kept == result.mappings[i].event
            IN /\ kept < i /\ result.mappings[kept].outcome = "converted"
               /\ \A j \in kept..i : events[j] = events[kept]
=============================================================================
