------------------------- MODULE WorkflowReadiness -------------------------
(***************************************************************************)
(* One workflow version between its author and a Runner.  The same         *)
(* definition is judged by six pieces of code: the analysis before a       *)
(* publish, the one before a run, the one before a schedule, the           *)
(* workspace's execution policy, the engine's preflight, and the checks    *)
(* made at every step in the browser.  Each was written on its own; the    *)
(* properties say that what an earlier one accepts a later one accepts.    *)
(*                                                                         *)
(* A step keeps what those analyses read: its type, the place (target) and *)
(* the source of its value, a click's intent, what an Extract step         *)
(* produces, whether a Verify step lacks a match mode.  Its identifier is  *)
(* its position.  A URL literal stands for its origin.                     *)
(***************************************************************************)
EXTENDS Integers, Sequences, FiniteSets

CONSTANTS MaxSteps,  \* bound: steps of the workflow
          MaxMoves   \* bound: times the page leaves by itself

VARIABLES steps, declared, published, policy, aliases, scheduled, run

vars == <<steps, declared, published, policy, aliases, scheduled, run>>

NONE == "none"
NoRun == [stage |-> "none"]

----------------------------------------------------------------------------
(* Values and steps.                                                       *)

HttpsOrigins == {"https_apex", "https_sub"}
Origins == HttpsOrigins \cup {"http_loop", "http_plain"}
LiteralType(literal) == IF literal = "number" THEN "number" ELSE "string"

Source(kind, ref) == [kind |-> kind, ref |-> ref]
Nothing == Source(NONE, NONE)
Step(type, target, source) ==
  [type |-> type, target |-> target, source |-> source,
   intent |-> NONE, extracts |-> NONE, legacy |-> FALSE]
Navigate(source) == Step("navigate", "navigate.url", source)
Fill(source) == Step("fill", "fill.value", source)
Click(intent) == [Step("click", NONE, Nothing) EXCEPT !.intent = intent]
Extract(kind) == [Step("extract", NONE, Nothing) EXCEPT !.extracts = kind]
Verify(target, source) == Step("verify", target, source)
Approval == Step("approval", NONE, Nothing)

\* The steps an author writes: every source in a place that takes it, and
\* in one that does not.  Every Extract step names its output "o".
StepMenu ==
  {Navigate(Source("literal", l)) : l \in {"https_apex", "https_sub",
                                           "http_loop", "ftp"}}
  \cup {Fill(Source("literal", "number")), Fill(Source("secret", "s")),
        Fill(Source("variable", "v")), Fill(Source("output", "o")),
        Navigate(Source("output", "o"))}
  \cup {Click("unknown"), Click("delete"), Approval,
        Extract("text"), Extract("checked"), Extract("attribute"),
        Verify("verify.value.expected", Source("output", "o")),
        Verify("verify.url.expected", Source("literal", "text")),
        Verify("verify.text.expected", Source("literal", "long")),
        [Verify("verify.value.expected", Source("literal", "text"))
           EXCEPT !.legacy = TRUE]}

Variable(valueType, required) ==
  [name |-> "v", valueType |-> valueType, required |-> required]
Declarations == {{}, {Variable("string", FALSE)}, {Variable("file", TRUE)},
                 {Variable("string", TRUE), Variable("number", TRUE)}}

\* WorkflowDefinitionSchema: at least one step, variable names unique.
Parses(w) ==
  /\ w.steps # <<>>
  /\ \A x, y \in w.declared : x.name = y.name => x = y

----------------------------------------------------------------------------
(* Inputs, verifications, outputs and approvals.                           *)

\* What may stand in a place: the types of literals and variables (the two
\* lists are equal everywhere), and whether a secret may.
Types(target) ==
  CASE target = "select.value" -> {"string", "number"}
    [] target = "verify.value.expected" -> {"string", "number", "boolean"}
    [] OTHER -> {"string"}
AllowsSecret(target) == target = "fill.value"

\* findWorkflowValueSources: the steps that take a value, by its kind.
Uses(w, kind) == {i \in DOMAIN w.steps : w.steps[i].source.kind = kind}

VariablesNamed(w, name) == {x \in w.declared : x.name = name}
Usages(w, variable) ==
  {i \in Uses(w, "variable") : w.steps[i].source.ref = variable.name}

InputIssues(w) ==
  {i \in Uses(w, "variable") :
     \A x \in VariablesNamed(w, w.steps[i].source.ref) :
       x.valueType \notin Types(w.steps[i].target)}
  \cup {i \in Uses(w, "literal") :
          LiteralType(w.steps[i].source.ref) \notin Types(w.steps[i].target)}
  \cup {i \in Uses(w, "secret") : ~AllowsSecret(w.steps[i].target)}

SecretRequirements(w) ==
  {w.steps[i].source.ref :
     i \in {j \in Uses(w, "secret") : AllowsSecret(w.steps[j].target)}}

\* normalizeVerificationUrl and normalizeVerificationText.
ExpectationUsable(target, literal) ==
  CASE target = "verify.url.expected" -> literal \in Origins
    [] OTHER -> literal # "long"

analyzeExpected(w, i) ==
  LET s == w.steps[i] IN
  CASE s.source.kind = "secret" -> FALSE
    [] s.source.kind = "variable" ->
         \A x \in VariablesNamed(w, s.source.ref) :
           x.valueType \in Types(s.target)
    [] s.source.kind = "literal" ->
         /\ LiteralType(s.source.ref) \in Types(s.target)
         /\ ExpectationUsable(s.target, s.source.ref)
    [] OTHER -> TRUE

VerificationIssues(w) ==
  {i \in DOMAIN w.steps : /\ w.steps[i].type = "verify"
                          /\ (w.steps[i].legacy \/ ~analyzeExpected(w, i))}

OutputType(step) ==
  CASE step.extracts = "checked" -> "boolean"
    [] step.extracts = "attribute" -> NONE
    [] OTHER -> "string"
Extracts(w) == {i \in DOMAIN w.steps : w.steps[i].type = "extract"}
Producers(w) == {i \in Extracts(w) : OutputType(w.steps[i]) # NONE}

\* The first producer is the one a reference means; a second is an issue.
analyzeWorkflowExtraction(w) ==
  /\ Extracts(w) = Producers(w)
  /\ Cardinality(Producers(w)) <= 1
  /\ \A i \in Uses(w, "output") :
       /\ w.steps[i].target # "navigate.url"
       /\ \E p \in Producers(w) :
            /\ p < i
            /\ OutputType(w.steps[p]) \in Types(w.steps[i].target)

\* An approval gates the step right after it.
Approvals(w) == {i \in DOMAIN w.steps : w.steps[i].type = "approval"}
Gated(w) == {i + 1 : i \in Approvals(w)} \cap DOMAIN w.steps
Orphaned(w) == Approvals(w) \cap {Len(w.steps)}

AnalysesPass(w) ==
  /\ InputIssues(w) = {}
  /\ VerificationIssues(w) = {}
  /\ analyzeWorkflowExtraction(w)
  /\ Orphaned(w) = {}

----------------------------------------------------------------------------
(* The workspace's execution policy.                                       *)

RiskStrength == [low |-> 0, medium |-> 1, high |-> 2, critical |-> 3]
DecisionStrength == [allow |-> 0, require_approval |-> 1, deny |-> 2]
strongest(strength, values) ==
  CHOOSE v \in values : \A x \in values : strength[x] <= strength[v]

Pattern(kind, origin, includeApex) ==
  [kind |-> kind, origin |-> origin, includeApex |-> includeApex]
Exact(origin) == Pattern("exact", origin, FALSE)
originMatchesPattern(origin, pattern) ==
  IF pattern.kind = "exact" THEN origin = pattern.origin
  ELSE \/ origin = "https_sub"
       \/ origin = "https_apex" /\ pattern.includeApex

Some(origin, patterns) ==
  \E p \in patterns : originMatchesPattern(origin, p)

\* Origins of the literal navigations that parse to an HTTP(S) origin.
DeclaredOrigins(w) ==
  {w.steps[i].source.ref :
     i \in {j \in Uses(w, "literal") : w.steps[j].type = "navigate"}}
  \cap Origins

originDecision(p, w, url) ==
  IF /\ url \in Origins
     /\ url \in HttpsOrigins \/ (url = "http_loop" /\ p.allowLoopbackHttp)
     /\ ~Some(url, p.blocked)
     /\ IF p.mode = "workflow_declared_origins"
        THEN url \in DeclaredOrigins(w) ELSE Some(url, p.allowed)
  THEN "allow" ELSE "deny"

deriveActionIntent(step) ==
  CASE step.type = "click" -> step.intent
    [] step.type = "fill" -> "enter_data"
    [] step.type = "approval" -> "approval_gate"
    [] step.type = "navigate" -> "navigate"
    [] OTHER -> "read"

baseRiskForIntent(intent, p) ==
  CASE intent = "enter_data" -> "medium"
    [] intent = "delete" -> "critical"
    [] intent = "unknown" -> p.unknownRisk
    [] OTHER -> "low"

\* The origin a step acts at: that of the last navigation up to it, which
\* is unknown when it is no literal URL of an HTTP(S) origin.
OriginAt(w, i) ==
  LET navs == {j \in 1..i : w.steps[j].type = "navigate"} IN
  IF navs = {} THEN NONE
  ELSE LET last == CHOOSE j \in navs : \A k \in navs : k <= j IN
       IF w.steps[last].source.kind = "literal"
          /\ w.steps[last].source.ref \in Origins
       THEN w.steps[last].source.ref ELSE NONE

\* An empty field of a rule's match is an undefined one.
Rule(types, intents, origins, risk, decision) ==
  [types |-> types, intents |-> intents, origins |-> origins,
   risk |-> risk, decision |-> decision]
ruleMatches(rule, step, origin) ==
  /\ rule.types = {} \/ step.type \in rule.types
  /\ rule.intents = {} \/ deriveActionIntent(step) \in rule.intents
  /\ rule.origins = {} \/ (origin # NONE /\ Some(origin, rule.origins))
Matched(p, w, i) ==
  {r \in p.rules : ruleMatches(r, w.steps[i], OriginAt(w, i))}

stepRisk(p, w, i) ==
  strongest(RiskStrength,
            {baseRiskForIntent(deriveActionIntent(w.steps[i]), p)}
            \cup ({r.risk : r \in Matched(p, w, i)} \ {NONE}))

networkDecision(p, w, i) ==
  LET s == w.steps[i] IN
  IF s.type # "navigate" THEN "allow"
  ELSE IF s.source.kind # "literal" THEN "deny"
  ELSE originDecision(p, w, s.source.ref)

riskDecision(p, risk) ==
  CASE risk = "critical" ->
         IF p.critical = "deny" THEN "deny" ELSE "require_approval"
    [] risk = "high" ->
         IF p.threshold = "high_or_above" THEN "require_approval"
         ELSE "allow"
    [] OTHER -> "allow"

RuleDecisions(p, w, i) == {r.decision : r \in Matched(p, w, i)} \ {NONE}

evaluateStep(p, w, i) ==
  strongest(DecisionStrength,
            {networkDecision(p, w, i), riskDecision(p, stepRisk(p, w, i))}
            \cup RuleDecisions(p, w, i))

\* A required approval is there when the step right before is one.
approvalSatisfied(p, w, i) ==
  evaluateStep(p, w, i) = "require_approval" => i \in Gated(w)

\* overallDecision is not deny and no issue blocks.
evaluateWorkflowPolicy(p, w) ==
  /\ \A i \in DOMAIN w.steps :
       /\ evaluateStep(p, w, i) # "deny"
       /\ approvalSatisfied(p, w, i)
  /\ Orphaned(w) = {}

----------------------------------------------------------------------------
(* The three analyses of the control plane.                                *)

analyzePublishReadiness(w, p) ==
  Parses(w) /\ AnalysesPass(w) /\ evaluateWorkflowPolicy(p, w)

\* validateWorkflowRunInputs with no value submitted.
EmptyInputsValid(w) == \A x \in w.declared : ~x.required

NavigationsLiteral(w) ==
  \A i \in DOMAIN w.steps :
    w.steps[i].type = "navigate" =>
      w.steps[i].source.kind = "literal" /\ w.steps[i].source.ref \in Origins

\* Mutant: a used optional variable is let through.
UsedVariableReady(w) ==
  /\ Parses(w) /\ AnalysesPass(w) /\ SecretRequirements(w) = {}
  /\ EmptyInputsValid(w) /\ w.steps[1].type = "navigate"
  /\ NavigationsLiteral(w) /\ DeclaredOrigins(w) # {}

analyzeWorkflowRunReadiness(w) ==
  /\ Parses(w) /\ AnalysesPass(w)
  /\ \A x \in w.declared : Usages(w, x) = {}
  /\ SecretRequirements(w) = {}
  /\ \A x \in w.declared : ~(x.valueType = "file" /\ x.required)
  /\ EmptyInputsValid(w)
  /\ w.steps[1].type = "navigate"
  /\ NavigationsLiteral(w)
  /\ DeclaredOrigins(w) # {}

\* A schedule asks for no declared value: only for references that resolve
\* and for the aliases of the secrets.
checkNoInputsRequired(w, known) ==
  /\ \A i \in InputIssues(w) : w.steps[i].source.kind = "secret"
  /\ SecretRequirements(w) \subseteq known
checkNoForbiddenSteps(w) == Approvals(w) = {}
analyzeScheduleCreationReadiness(w, p, known) ==
  /\ Parses(w)
  /\ checkNoInputsRequired(w, known)
  /\ checkNoForbiddenSteps(w)
  /\ evaluateWorkflowPolicy(p, w)

----------------------------------------------------------------------------
(* Policies.                                                               *)

DefaultPolicy ==
  [mode |-> "workflow_declared_origins", allowed |-> {}, blocked |-> {},
   allowLoopbackHttp |-> TRUE, unknownRisk |-> "high",
   threshold |-> "critical_only", critical |-> "require_approval",
   rules |-> {}]

RuleMenu ==
  {Rule({}, {"unknown"}, {}, NONE, "allow"),
   Rule({"fill"}, {}, {Exact("https_sub")}, NONE, "require_approval"),
   Rule({"fill", "click"}, {}, {}, "medium", "deny"),
   Rule({}, {"delete"}, {}, "low", "allow")}

PolicyMenu ==
  {DefaultPolicy,
   [DefaultPolicy EXCEPT !.allowLoopbackHttp = FALSE,
                         !.threshold = "high_or_above"],
   [DefaultPolicy EXCEPT !.mode = "explicit_allowlist", !.critical = "deny",
                         !.allowed = {Pattern("subdomains", NONE, FALSE)}],
   [DefaultPolicy EXCEPT !.blocked = {Exact("https_apex")},
                         !.rules = {Rule({"fill"}, {}, {Exact("https_sub")},
                                         NONE, "require_approval")}]}

----------------------------------------------------------------------------
(* The author and the control plane.                                       *)

Init ==
  /\ steps = <<>> /\ declared = {} /\ published = FALSE
  /\ policy = DefaultPolicy
  /\ aliases = {"s"} /\ scheduled = FALSE /\ run = NoRun

workflow == [steps |-> steps, declared |-> declared]

\* The editor appends a step.  Variables are declared before the first one:
\* no analysis reads the draft in between.
AddStep(s) ==
  /\ ~published /\ Len(steps) < MaxSteps
  /\ steps' = Append(steps, s)
  /\ UNCHANGED <<declared, published, policy, aliases, scheduled, run>>
Declare(d) ==
  /\ ~published /\ steps = <<>> /\ declared = {}
  /\ declared' = d
  /\ UNCHANGED <<steps, published, policy, aliases, scheduled, run>>

publish ==
  /\ ~published
  /\ analyzePublishReadiness(workflow, policy)
  /\ published' = TRUE
  /\ UNCHANGED <<steps, declared, policy, aliases, scheduled, run>>

\* Reduction: a policy is activated, and the inventory changes, between the
\* publish and the run.  The policies of the menu refuse all the first one
\* refuses, so nothing is published under them only; a run is pinned to
\* the policy it was made under (RunDispatch has what happens to its
\* pinned inventory).
activatePolicy(p) ==
  /\ published /\ run = NoRun
  /\ p # policy /\ policy' = p
  /\ UNCHANGED <<steps, declared, published, aliases, scheduled, run>>

\* The Runner's inventory loses or regains the alias.
InventoryChanges ==
  /\ published /\ run = NoRun /\ SecretRequirements(workflow) # {}
  /\ aliases' = IF aliases = {} THEN {"s"} ELSE {}
  /\ UNCHANGED <<steps, declared, published, policy, scheduled, run>>

NewRun(trigger) ==
  [stage |-> "queued", trigger |-> trigger, policy |-> policy,
   origins |-> DeclaredOrigins(workflow),
   at |-> 1, page |-> "blank", outputs |-> {}, moves |-> 0,
   result |-> NONE]

createRun ==
  /\ published /\ run = NoRun
  /\ analyzeWorkflowRunReadiness(workflow)
  /\ evaluateWorkflowPolicy(policy, workflow)
  /\ run' = NewRun("manual")
  /\ UNCHANGED <<steps, declared, published, policy, aliases, scheduled>>

createSchedule ==
  /\ published /\ ~scheduled /\ run = NoRun
  /\ analyzeScheduleCreationReadiness(workflow, policy, aliases)
  /\ scheduled' = TRUE
  /\ UNCHANGED <<steps, declared, published, policy, aliases, run>>

\* The aliases and the policy are read again when the schedule is due.
processDueSchedule ==
  /\ scheduled /\ run = NoRun
  /\ SecretRequirements(workflow) \subseteq aliases
  /\ evaluateWorkflowPolicy(policy, workflow)
  /\ run' = NewRun("scheduled")
  /\ UNCHANGED <<steps, declared, published, policy, aliases, scheduled>>

----------------------------------------------------------------------------
(* The Runner.                                                             *)

\* validateNavigationUrl.
NavigationValid(url, origins) == url \in Origins /\ url \in origins

\* resolveValueSource without a submitted value: only literals, and secrets
\* where a local store is leased; outputs resolve at their step.
Resolves(w, i, secrets) ==
  LET s == w.steps[i] IN
  CASE s.source.kind = "variable" -> FALSE
    [] s.source.kind = "secret" -> s.source.ref \in secrets
    [] s.source.kind = "literal" ->
         LiteralType(s.source.ref) \in Types(s.target)
    [] OTHER -> TRUE

StepPreflight(w, i, secrets, origins) ==
  LET s == w.steps[i] IN
  /\ Resolves(w, i, secrets)
  /\ s.type = "navigate" =>
       s.source.kind # "output" /\ NavigationValid(s.source.ref, origins)
  /\ (s.type = "verify" /\ s.source.kind = "literal") =>
       ExpectationUsable(s.target, s.source.ref)

\* A scheduled run with secrets has a resolver that holds them and no
\* variable; any other run has none, and its secrets are a refusal.
preflightWorkflowExecution(w, origins, secrets) ==
  IF ~Parses(w) \/ ~AnalysesPass(w) THEN "INVALID_WORKFLOW"
  ELSE IF ~(SecretRequirements(w) \subseteq secrets)
    THEN "SECRET_RESOLUTION_UNAVAILABLE"
  ELSE IF \/ ~EmptyInputsValid(w)
          \/ secrets # {} /\ \E x \in w.declared : Usages(w, x) # {}
    THEN "INVALID_RUNTIME_INPUTS"
  ELSE IF \A i \in DOMAIN w.steps : StepPreflight(w, i, secrets, origins)
    THEN "ok"
  ELSE IF Uses(w, "variable") # {} THEN "INVALID_RUNTIME_INPUTS"
  ELSE "INVALID_WORKFLOW"

\* The answer's schema wants an origin; then the Runner evaluates the
\* pinned policy itself, then comes the engine's preflight.
claim ==
  /\ run.stage = "queued"
  /\ LET secrets == IF run.trigger = "scheduled"
                    THEN SecretRequirements(workflow) ELSE {}
         verdict ==
           IF run.origins = {} THEN "CLAIM_INVALID"
           ELSE IF ~evaluateWorkflowPolicy(run.policy, workflow)
           THEN "POLICY"
           ELSE preflightWorkflowExecution(workflow, run.origins,
                                           secrets) IN
     run' = IF verdict = "ok" THEN [run EXCEPT !.stage = "running"]
            ELSE [run EXCEPT !.stage = "done", !.result = verdict]
  /\ UNCHANGED <<steps, declared, published, policy, aliases, scheduled>>

Fail(code) == run' = [run EXCEPT !.stage = "done", !.result = code]
Advance(r) ==
  run' = IF r.at = Len(steps)
         THEN [r EXCEPT !.stage = "done", !.result = "completed"]
         ELSE [r EXCEPT !.stage = "running", !.at = r.at + 1]

\* The executor's checks before it touches the page.
checkStep ==
  /\ run.stage = "running"
  /\ LET s == steps[run.at] IN
     IF s.type = "approval" THEN Advance(run)
     ELSE IF evaluateStep(run.policy, workflow, run.at) = "deny"
     THEN Fail("ACTION_FAILED")
     ELSE IF originDecision(run.policy, workflow,
               IF s.type = "navigate" THEN s.source.ref ELSE run.page)
             = "deny"
          \/ (s.type = "navigate" /\ s.source.ref \notin run.origins)
     THEN Fail("ORIGIN_NOT_ALLOWED")
     ELSE run' = [run EXCEPT !.stage = "acting"]
  /\ UNCHANGED <<steps, declared, published, policy, aliases, scheduled>>

\* The page it comes to, after redirects, is checked again.
goto(page) ==
  /\ run.stage = "acting" /\ steps[run.at].type = "navigate"
  /\ page = steps[run.at].source.ref \/ run.moves < MaxMoves
  /\ LET moved == page # steps[run.at].source.ref
         r == [run EXCEPT !.page = page,
                          !.moves = @ + (IF moved THEN 1 ELSE 0)] IN
     IF page \notin run.origins
        \/ originDecision(run.policy, workflow, page) = "deny"
     THEN run' = [r EXCEPT !.stage = "done",
                           !.result = "POST_NAVIGATION_ORIGIN_NOT_ALLOWED"]
     ELSE Advance(r)
  /\ UNCHANGED <<steps, declared, published, policy, aliases, scheduled>>

\* RuntimeOutputStore: one production of each output, of its type.
produce ==
  /\ run.stage = "acting" /\ steps[run.at].type = "extract"
  /\ LET s == steps[run.at] IN
     IF run.outputs # {} THEN Fail("DUPLICATE_OUTPUT_PRODUCTION")
     ELSE IF OutputType(s) = NONE THEN Fail("EXTRACTION_TARGET_UNSUPPORTED")
     ELSE Advance([run EXCEPT !.outputs = {OutputType(s)}])
  /\ UNCHANGED <<steps, declared, published, policy, aliases, scheduled>>

\* A click, a fill or a verification, with its value.
act ==
  /\ run.stage = "acting"
  /\ steps[run.at].type \notin {"navigate", "extract"}
  /\ LET s == steps[run.at] IN
     IF s.source.kind = "output"
     THEN IF run.outputs = {} THEN Fail("OUTPUT_NOT_AVAILABLE")
          ELSE IF run.outputs \subseteq Types(s.target) THEN Advance(run)
          ELSE Fail("OUTPUT_TYPE_MISMATCH")
     ELSE Advance(run)
  /\ UNCHANGED <<steps, declared, published, policy, aliases, scheduled>>

\* Environment: the page goes elsewhere by itself.
PageMoves(page) ==
  /\ run.stage \in {"running", "acting"}
  /\ run.moves < MaxMoves /\ page # run.page
  /\ run' = [run EXCEPT !.page = page, !.moves = @ + 1]
  /\ UNCHANGED <<steps, declared, published, policy, aliases, scheduled>>

Next ==
  \/ \E s \in StepMenu : AddStep(s)
  \/ \E d \in Declarations : Declare(d)
  \/ publish
  \/ \E p \in PolicyMenu : activatePolicy(p)
  \/ InventoryChanges
  \/ createRun \/ createSchedule \/ processDueSchedule
  \/ claim \/ checkStep \/ produce \/ act
  \/ \E o \in Origins : goto(o)
  \/ \E o \in Origins : PageMoves(o)

Spec == Init /\ [][Next]_vars

----------------------------------------------------------------------------
TypeOK ==
  /\ steps \in Seq(StepMenu) /\ Len(steps) <= MaxSteps
  /\ declared \in Declarations
  /\ published \in BOOLEAN /\ scheduled \in BOOLEAN
  /\ policy \in PolicyMenu /\ aliases \subseteq {"s"}
  /\ run.stage \in {"none", "queued", "running", "acting", "done"}

Ended == run.stage = "done" /\ run.result # "completed"

\* What the control plane accepts, the Runner executes: a manual run ends
\* early only when its page left the place the workflow sent it to.
\* Neither the Runner's own check of the policy, nor the preflight, nor a
\* check at a step refuses it.
AcceptedRunExecutes ==
  Ended /\ run.trigger = "manual" => run.moves > 0

\* A scheduled run is refused for two reasons only, both of which its
\* schedule's creation does not look at: it uses or requires a variable,
\* or a step comes before the first navigation.
ScheduledRunExecutes ==
  Ended /\ run.trigger = "scheduled" =>
    \/ run.moves > 0
    \/ run.result = "INVALID_RUNTIME_INPUTS"
    \/ steps[1].type # "navigate"

\* Nobody is there to approve: no step of a scheduled run needs an
\* approval under the policy the run is pinned to, however the policy
\* changed after the schedule was made.
UnattendedNeedsNobody ==
  run.stage # "none" =>
    (run.trigger = "scheduled" =>
       \A i \in DOMAIN steps :
         evaluateStep(run.policy, workflow, i) = "allow")

\* A rule can only make a policy stricter: with one rule more, no step's
\* decision gets weaker and no refused workflow becomes accepted.
RulesOnlyStrengthen ==
  run = NoRun =>
    \A r \in RuleMenu :
      LET stricter == [policy EXCEPT !.rules = @ \cup {r}] IN
      /\ \A i \in DOMAIN steps :
           DecisionStrength[evaluateStep(policy, workflow, i)]
             <= DecisionStrength[evaluateStep(stricter, workflow, i)]
      /\ evaluateWorkflowPolicy(stricter, workflow)
           => evaluateWorkflowPolicy(policy, workflow)

\* The step a critical action's approval shows to the user is that action:
\* when a run comes to a step its policy wants approved, the step executed
\* right before was an approval.
ApprovedRightBefore ==
  run.stage = "acting" =>
    (evaluateStep(run.policy, workflow, run.at) # "allow"
       => run.at > 1 /\ steps[run.at - 1].type = "approval")

\* An output is there, with the right type, when a step reads it.
OutputsFlow ==
  run.stage = "done" =>
    run.result \notin {"OUTPUT_NOT_AVAILABLE", "OUTPUT_TYPE_MISMATCH",
                       "DUPLICATE_OUTPUT_PRODUCTION"}
=============================================================================
