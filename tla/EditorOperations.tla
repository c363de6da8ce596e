---------------------------- MODULE EditorOperations ----------------------------
(***************************************************************************)
(* The operations the web editor applies to a workflow definition: adding, *)
(* changing, renaming and removing variables, steps and outputs, and       *)
(* choosing the value source of a step (workflow-editor-core, driven by    *)
(* the editor's panels).  An operation that is refused changes nothing.    *)
(*                                                                         *)
(* Variables and steps carry a key that no operation changes: it tells     *)
(* which one a reference means; a new one takes a free key.  A literal or  *)
(* a secret refers to nothing and is one source here; a blank step name    *)
(* stands for everything an input field can hold that the definition's     *)
(* schema refuses.                                                         *)
(***************************************************************************)
EXTENDS Naturals, Sequences, FiniteSets, SequencesExt

CONSTANTS
    Names,        \* names a user types for variables
    OutputNames,  \* names of outputs, typed or generated
    ValueTypes,   \* types of a variable
    MaxVariables, \* bound: variables of the definition
    MaxSteps,     \* bound: steps of the definition
    MaxOps        \* bound: operations applied

VARIABLES
    variables, \* the declared variables, in no particular order
    steps,     \* the steps, in order
    loose,     \* history: an operation met a definition that does not parse
    ops        \* operations applied so far

vars == <<variables, steps, loose, ops>>

Literal == [kind |-> "literal", name |-> ""]
NoSource == [kind |-> "none", name |-> ""]
Variable(v) == [kind |-> "variable", name |-> v]
Output(o) == [kind |-> "output", name |-> o]

FreeId == CHOOSE n \in 1 .. MaxSteps : \A i \in DOMAIN steps : steps[i].id # n
FreeKey ==
    CHOOSE n \in 1 .. MaxVariables : \A v \in variables : v.key # n

Step(kind, on, source, output) ==
    [id |-> FreeId, kind |-> kind, on |-> on, source |-> source,
     output |-> output, named |-> TRUE]

\* Where a step takes a value from: navigate.url, fill.value, and the
\* expected value of a url, text or value verification.
Target(s) == IF s.kind = "verify" THEN s.on ELSE s.kind
Types(target) ==
    IF target = "value" THEN {"string", "number", "boolean"} ELSE {"string"}
HasLocator(s) ==
    \/ s.kind = "fill"
    \/ s.kind \in {"verify", "extract"} /\ s.on # "url"

-------------------------------------------------------------------------------
(* What the editor computes from a definition.                             *)

Parses(ss) == \A i \in DOMAIN ss : ss[i].named

findVariableUsages(ss, v) == {i \in DOMAIN ss : ss[i].source = Variable(v)}

OutputType(s) == IF s.on = "checked" THEN "boolean" ELSE "string"
Producers(ss, o) ==
    {i \in DOMAIN ss : ss[i].kind = "extract" /\ ss[i].output = o}
OutputUsages(ss, o) == {i \in DOMAIN ss : ss[i].source = Output(o)}

VariableFits(vs, s) ==
    \E v \in vs : v.name = s.source.name /\ v.type \in Types(Target(s))
OutputFits(ss, i) ==
    /\ ss[i].kind # "navigate"
    /\ \E j \in Producers(ss, ss[i].source.name) :
        j < i /\ OutputType(ss[j]) \in Types(Target(ss[i]))

\* analyzeWorkflowInputs or analyzeWorkflowExtraction has a blocking issue.
Blocked(vs, ss) ==
    \/ ~Parses(ss)
    \/ \E i \in DOMAIN ss :
        \/ ss[i].source.kind = "variable" /\ ~VariableFits(vs, ss[i])
        \/ ss[i].source.kind = "output" /\ ~OutputFits(ss, i)

\* The outputs the value source field offers at step i: none while the
\* definition does not parse.
AvailableOutputs(i) ==
    IF ~Parses(steps) THEN {}
    ELSE {steps[j].output : j \in
            {k \in 1 .. i - 1 : steps[k].kind = "extract" /\
                OutputType(steps[k]) \in Types(Target(steps[i]))}}

-------------------------------------------------------------------------------
(* The variables panel.                                                    *)

NameFree(v) == \A x \in variables : x.name # v

addVariable ==
    /\ Cardinality(variables) < MaxVariables
    /\ \E v \in Names :
        /\ NameFree(v)
        /\ variables' = variables \cup
             {[key |-> FreeKey, name |-> v, type |-> "string"]}
    /\ UNCHANGED <<steps, loose>>

\* A change of type is refused when a usage does not fit it; a definition
\* that does not parse has no such issue.
TypeFits(x, type) ==
    ~Parses(steps) \/ \A i \in findVariableUsages(steps, x.name) :
                          type \in Types(Target(steps[i]))
updateVariable ==
    \E x \in variables, type \in ValueTypes :
        /\ x.type # type
        /\ TypeFits(x, type)
        /\ variables' = (variables \ {x}) \cup {[x EXCEPT !.type = type]}
        /\ loose' = (loose \/ ~Parses(steps))
        /\ UNCHANGED steps

Renamed(old, new) ==
    [i \in DOMAIN steps |-> IF steps[i].source = old
                            THEN [steps[i] EXCEPT !.source = new]
                            ELSE steps[i]]

renameVariable(x, v) ==
    /\ NameFree(v)
    /\ variables' = (variables \ {x}) \cup {[x EXCEPT !.name = v]}
    /\ steps' = Renamed(Variable(x.name), Variable(v))
commitRename ==
    /\ \E x \in variables, v \in Names : renameVariable(x, v)
    /\ UNCHANGED loose

\* Mutant: usages in a verification are overlooked.
UnverifiedUsages(x) ==
    {i \in findVariableUsages(steps, x.name) : steps[i].kind # "verify"} = {}

Unused(x) == findVariableUsages(steps, x.name) = {}
removeVariable ==
    \E x \in variables :
        /\ Unused(x)
        /\ variables' = variables \ {x}
        /\ UNCHANGED <<steps, loose>>

-------------------------------------------------------------------------------
(* The toolbar: new steps.                                                 *)

insertWorkflowStep(i, s) ==
    /\ Len(steps) < MaxSteps
    /\ steps' = InsertAt(steps, i, s)
    /\ UNCHANGED <<variables, loose>>

addWait == insertWorkflowStep(Len(steps) + 1, Step("wait", "", NoSource, ""))

\* An approval is put before the selected step.
addApproval ==
    \E i \in DOMAIN steps :
        insertWorkflowStep(i, Step("approval", "", NoSource, ""))

addUrlVerify ==
    insertWorkflowStep(Len(steps) + 1, Step("verify", "url", Literal, ""))

listReusableStepLocators == {i \in DOMAIN steps : HasLocator(steps[i])}

addElementVerify ==
    /\ listReusableStepLocators # {}
    /\ insertWorkflowStep(Len(steps) + 1,
                          Step("verify", "visible", NoSource, ""))

\* The name of a new output is generated: no step has it, or refers to it.
Fresh(o) == Producers(steps, o) = {} /\ OutputUsages(steps, o) = {}
addUrlExtract ==
    \E o \in OutputNames :
        /\ Fresh(o)
        /\ insertWorkflowStep(Len(steps) + 1,
                              Step("extract", "url", NoSource, o))
addElementExtract ==
    /\ listReusableStepLocators # {}
    /\ \E o \in OutputNames :
        /\ Fresh(o)
        /\ insertWorkflowStep(Len(steps) + 1,
                              Step("extract", "text", NoSource, o))

-------------------------------------------------------------------------------
(* The step inspector, the graph and the outputs panel.                    *)

updateWorkflowStep(i, s) ==
    /\ steps' = [steps EXCEPT ![i] = s]
    /\ UNCHANGED <<variables, loose>>

\* Bound: one name is blank at a time.
updateName ==
    \E i \in DOMAIN steps :
        /\ \A j \in DOMAIN steps \ {i} : steps[j].named
        /\ updateWorkflowStep(i, [steps[i] EXCEPT !.named = ~@])

\* Another kind of verification starts from an empty literal, or needs none.
updateAssertion ==
    \E i \in listReusableStepLocators, on \in {"visible", "text", "value"} :
        /\ steps[i].kind = "verify" /\ steps[i].on # on
        /\ updateWorkflowStep(i, [steps[i] EXCEPT !.on = on,
              !.source = IF on = "visible" THEN NoSource ELSE Literal])

\* An extract that turns to the page's URL gives up its locator.
updateExtraction ==
    \E i \in listReusableStepLocators, on \in {"text", "checked", "url"} :
        /\ steps[i].kind = "extract" /\ steps[i].on # on
        /\ updateWorkflowStep(i, [steps[i] EXCEPT !.on = on])

\* changeKind and the two reference menus of the value source field.
Offered(i) ==
    {Literal}
    \cup {Variable(v.name) : v \in
            {x \in variables : x.type \in Types(Target(steps[i]))}}
    \cup {Output(o) : o \in
            IF steps[i].kind = "navigate" THEN {} ELSE AvailableOutputs(i)}
updateStepValueSource ==
    \E i \in DOMAIN steps :
        /\ steps[i].source # NoSource
        /\ \E source \in Offered(i) \ {steps[i].source} :
            LET candidate == [steps EXCEPT ![i].source = source]
            IN  /\ ~Blocked(variables, candidate)
                /\ updateWorkflowStep(i, candidate[i])

moveWorkflowStep ==
    \E i \in DOMAIN steps, j \in DOMAIN steps :
        /\ j \in {i - 1, i + 1}
        /\ steps' = [steps EXCEPT ![i] = steps[j], ![j] = steps[i]]
        /\ UNCHANGED <<variables, loose>>

removeWorkflowStep(i) == steps' = RemoveAt(steps, i)
\* removeExtractStep: a definition that does not parse has no usages.
removeExtractStep(i) ==
    /\ Parses(steps) => OutputUsages(steps, steps[i].output) = {}
    /\ steps' = RemoveAt(steps, i)
confirmDelete ==
    \E i \in DOMAIN steps :
        /\ IF steps[i].kind = "extract" THEN removeExtractStep(i)
           ELSE removeWorkflowStep(i)
        /\ loose' = (loose \/ (steps[i].kind = "extract" /\ ~Parses(steps)))
        /\ UNCHANGED variables

\* The outputs panel lists nothing while the definition does not parse.
renameWorkflowOutput ==
    /\ Parses(steps)
    /\ \E i \in DOMAIN steps, o \in OutputNames :
        /\ steps[i].kind = "extract"
        /\ Producers(steps, o) = {}
        /\ steps' = [Renamed(Output(steps[i].output), Output(o))
                       EXCEPT ![i].output = o]
    /\ UNCHANGED <<variables, loose>>

-------------------------------------------------------------------------------
\* A converted recording: a navigation and a field filled from a variable.
Init ==
    /\ variables = {[key |-> 1, name |-> CHOOSE v \in Names : TRUE,
                     type |-> "string"]}
    /\ steps = <<[id |-> 1, kind |-> "navigate", on |-> "",
                  source |-> Literal, output |-> "", named |-> TRUE],
                 [id |-> 2, kind |-> "fill", on |-> "",
                  source |-> Variable(CHOOSE v \in Names : TRUE),
                  output |-> "", named |-> TRUE]>>
    /\ loose = FALSE
    /\ ops = 0

Operation ==
    \/ addVariable
    \/ updateVariable
    \/ commitRename
    \/ removeVariable
    \/ addWait
    \/ addApproval
    \/ addUrlVerify
    \/ addElementVerify
    \/ addUrlExtract
    \/ addElementExtract
    \/ updateName
    \/ updateAssertion
    \/ updateExtraction
    \/ updateStepValueSource
    \/ moveWorkflowStep
    \/ confirmDelete
    \/ renameWorkflowOutput

Next == ops < MaxOps /\ ops' = ops + 1 /\ Operation

Spec == Init /\ [][Next]_vars

-------------------------------------------------------------------------------
\* Every variable keeps its type.
TypeOK ==
    /\ \A v \in variables : /\ v.key \in 1 .. MaxVariables
                            /\ v.name \in Names
                            /\ v.type \in ValueTypes
    /\ \A i \in DOMAIN steps :
        /\ steps[i].id \in 1 .. MaxSteps
        /\ steps[i].source.kind \in {"literal", "none", "variable", "output"}
        /\ steps[i].named \in BOOLEAN
    /\ loose \in BOOLEAN
    /\ ops \in 0 .. MaxOps

\* Every variable reference names a declared variable, in every state of the
\* editor and not only in those that can be saved; its type fits the step as
\* long as no operation met a definition that does not parse (removeVariable
\* and updateVariable look at every usage).
VariableReferencesHold ==
    \A i \in DOMAIN steps : steps[i].source.kind = "variable" =>
        /\ ~NameFree(steps[i].source.name)
        /\ loose \/ VariableFits(variables, steps[i])

\* Every output reference names the output of exactly one step, unless an
\* extract step was removed while the definition did not parse: the usages
\* that should have kept it are then not seen.
OutputReferencesHold ==
    loose \/ \A i \in DOMAIN steps : steps[i].source.kind = "output" =>
        \E j \in DOMAIN steps : Producers(steps, steps[i].source.name) = {j}

\* What the reference of a step means: the key of the variable, or the id of
\* the producing step.
Meaning(vs, ss, i) ==
    IF ss[i].source.kind = "variable"
    THEN {v.key : v \in {x \in vs : x.name = ss[i].source.name}}
    ELSE {ss[j].id : j \in Producers(ss, ss[i].source.name)}

\* No operation but a change of the step's own value source makes a
\* reference mean another variable or another output: a rename takes every
\* usage along and captures none.
RenameKeepsMeaning ==
    \A i \in DOMAIN steps, j \in DOMAIN steps' :
      /\ ~loose /\ ~loose'
      /\ steps[i].id = steps'[j].id
      /\ steps[i].source.kind \in {"variable", "output"}
      /\ steps[i].source.kind = steps'[j].source.kind
      /\ ~(variables = variables' /\ steps[i].source # steps'[j].source
           /\ \A k \in DOMAIN steps : k # i => steps[k] = steps'[k])
      => Meaning(variables, steps, i) = Meaning(variables', steps', j)
===============================================================================
